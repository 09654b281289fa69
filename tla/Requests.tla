--------------------------------- MODULE Requests ------------------------------
(***************************************************************************)
(* What the requests of the layby, gift card and till services have in     *)
(* common.  Each has a session of its own (get_sync_db): it loads a row,   *)
(* checks it, computes new values, and its commit writes the columns that  *)
(* it changed, whatever they are by then.  Nothing is locked between the   *)
(* load and the commit, and several server processes serve requests.       *)
(***************************************************************************)
EXTENDS Integers

CONSTANTS
  Workers,
  MaxRequests      \* bound: requests that change something

ASSUME RequestsAssumption == MaxRequests \in Nat

VARIABLE requests  \* requests begun

\* A request begins.
Count == requests < MaxRequests /\ requests' = requests + 1

\* A column is written if it differs from what was loaded.
Written(current, loaded, new) == IF new = loaded THEN current ELSE new

\* The kinds of the requests that hold a copy of the row a request writes, each
\* with the kind of that request.
Meetings(served, w) ==
  {{served[w].kind, served[v].kind} :
     v \in {u \in Workers \ {w} : served[u].kind # "idle" /\ served[u].of = served[w].of}}
=============================================================================
