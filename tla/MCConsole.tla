------------------------------- MODULE MCConsole -------------------------------
(* A bridge that is connected and has admitted its one group, and its page; *)
(* after a restart, the bridge from its login on, under control commands.   *)
EXTENDS OperatorConsole, TLC

CONSTANTS m1, g1, r1, r2, s1

OneGroup == {g1}
OneMessage == {m1}
OneGroupOf == m1 :> g1

Interchangeable == Permutations(Request)

\* The state after a login at Zalo, a connection and a message the hub has stored.
AdmittedInit ==
  /\ process = [count |-> 1, phase |-> "running"]
  /\ bridge = [NewBridge EXCEPT !.status = "connected", !.known = Group]
  /\ socket = "open"
  /\ delivery = [m \in Message |-> "idle"]
  /\ late = {} /\ stored = Message /\ accepted = Message /\ reported = {}
  /\ retries = 0 /\ fatal = {}
  /\ clock = 0 /\ timestamps = <<>> /\ control = <<>> /\ calls = <<>>
  /\ sessions = [s \in Token |-> NoSession]
  /\ requests = [r \in Request |-> NoRequest]
  /\ throttle = [failures |-> <<>>, inFlight |-> 0]
  /\ pages = 0 /\ guesses = <<>> /\ loggedOut = {}
  /\ born = [s \in Token |-> 0] /\ used = [s \in Token |-> 0]

MCNext ==
  \/ process.count = 1 /\ PageNext
  \/ process.count > 1 /\ (BridgeGoesOn \/ BridgeComesUp)
  \/ RestartBoth

MCSpec == AdmittedInit /\ [][MCNext]_allVars
=============================================================================
