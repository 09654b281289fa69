----------------------------------- MODULE Tills -------------------------------
(***************************************************************************)
(* Cash registers (backend/app/services/cash_register_service.py): the     *)
(* sessions of one register, each with its float, its cash sales and its   *)
(* cash movements, and the difference that is found when it is closed.     *)
(* total_refunds is zero: no code changes it.                              *)
(***************************************************************************)
EXTENDS Requests, FiniteSets

CONSTANTS
  Sessions,    \* ids of register sessions
  Cash         \* amounts of floats, cash sales and cash movements

ASSUME TillsAssumption == Cash \subseteq Nat

SessionStatus == {"none", "open", "closed"}

TillKinds == {"idle", "open", "sale", "move", "close"}

VARIABLES
  session,     \* the row of each session
  movements,   \* the sum of the cash movements of each session
  tillRequest, \* the request each worker is serving, with the row it loaded
  drawer,      \* the cash that is really in the drawer, by session
  tillMet      \* the kinds of requests that worked on a session at once

tillVars == <<session, movements, tillRequest, drawer, tillMet>>

SessionRow == [status : SessionStatus, float : Nat, sales : Nat, difference : Int]

TillRequest == [kind : TillKinds, of : Sessions, row : SessionRow, amount : Int,
                summed : BOOLEAN, moved : Int]

NoSession == [status |-> "none", float |-> 0, sales |-> 0, difference |-> 0]

TillsInit ==
  /\ session = [s \in Sessions |-> NoSession]
  /\ movements = [s \in Sessions |-> 0]
  /\ \E s \in Sessions :
       tillRequest = [w \in Workers |-> [kind |-> "idle", of |-> s, row |-> NoSession,
                                         amount |-> 0, summed |-> FALSE, moved |-> 0]]
  /\ drawer = [s \in Sessions |-> 0]
  /\ tillMet = {}

-----------------------------------------------------------------------------
OpenSessions == {s \in Sessions : session[s].status = "open"}

LoadSession(w, kind, s, amount) ==
  /\ tillRequest[w].kind = "idle" /\ Count
  /\ tillRequest' = [tillRequest EXCEPT ![w] =
       [kind |-> kind, of |-> s, row |-> session[s], amount |-> amount,
        summed |-> FALSE, moved |-> 0]]
  /\ UNCHANGED <<session, movements, drawer, tillMet>>

\* Broken variant of OpenSession: it does not look for an open session.
OpenSessionUnchecked(w, s, float) ==
  /\ session[s].status = "none" /\ \A v \in Workers : tillRequest[v].of = s => tillRequest[v].kind # "open"
  /\ LoadSession(w, "open", s, float)

\* The id is fresh.  The register must have no open session.
OpenSession(w, s, float) ==
  /\ session[s].status = "none" /\ \A v \in Workers : tillRequest[v].of = s => tillRequest[v].kind # "open"
  /\ OpenSessions = {}
  /\ LoadSession(w, "open", s, float)

RecordSale(w, s, amount) ==
  /\ session[s].status = "open"
  /\ LoadSession(w, "sale", s, amount)

\* The amount of a movement out of the drawer is negative.
AddCashMovement(w, s, amount) ==
  /\ session[s].status = "open"
  /\ LoadSession(w, "move", s, amount)

\* Someone counts the drawer and closes the session.
CloseSession(w, s) ==
  /\ session[s].status = "open"
  /\ LoadSession(w, "close", s, drawer[s])

\* The movements are summed by two later queries.
SumMovements(w) ==
  /\ tillRequest[w].kind = "close" /\ ~tillRequest[w].summed
  /\ tillRequest' = [tillRequest EXCEPT ![w].summed = TRUE,
                                        ![w].moved = movements[tillRequest[w].of]]
  /\ UNCHANGED <<session, movements, drawer, tillMet, requests>>

EndTill(w) ==
  /\ tillRequest' = [tillRequest EXCEPT ![w].kind = "idle"]
  /\ UNCHANGED requests

\* Two requests to open meet although their sessions are different.
NoteTill(w) ==
  LET r == tillRequest[w]
      others == {u \in Workers \ {w} : tillRequest[u].kind # "idle" /\
                   (tillRequest[u].of = r.of \/ {tillRequest[u].kind, r.kind} = {"open"})}
  IN  tillMet' = tillMet \cup {{r.kind, tillRequest[v].kind} : v \in others}

CommitOpen(w) ==
  LET r == tillRequest[w] IN
  /\ r.kind = "open"
  /\ session' = [session EXCEPT ![r.of] = [NoSession EXCEPT !.status = "open", !.float = r.amount]]
  /\ drawer' = [drawer EXCEPT ![r.of] = r.amount]
  /\ NoteTill(w) /\ EndTill(w)
  /\ UNCHANGED movements

CommitSale(w) ==
  LET r == tillRequest[w] IN
  /\ r.kind = "sale"
  /\ session' = [session EXCEPT ![r.of].sales = Written(@, r.row.sales, r.row.sales + r.amount)]
  /\ drawer' = [drawer EXCEPT ![r.of] = @ + r.amount]
  /\ NoteTill(w) /\ EndTill(w)
  /\ UNCHANGED movements

CommitMovement(w) ==
  LET r == tillRequest[w] IN
  /\ r.kind = "move"
  /\ movements' = [movements EXCEPT ![r.of] = @ + r.amount]
  /\ drawer' = [drawer EXCEPT ![r.of] = @ + r.amount]
  /\ NoteTill(w) /\ EndTill(w)
  /\ UNCHANGED session

\* Broken variant of Expected: the float is not counted.
ExpectedWithoutFloat(r) == r.row.sales + r.moved

\* expected_cash
Expected(r) == r.row.float + r.row.sales + r.moved

CommitClose(w) ==
  LET r == tillRequest[w] IN
  /\ r.kind = "close" /\ r.summed
  /\ session' = [session EXCEPT ![r.of].status = "closed",
                                ![r.of].difference = r.amount - Expected(r)]
  /\ NoteTill(w) /\ EndTill(w)
  /\ UNCHANGED <<movements, drawer>>

AbandonTill(w) ==
  /\ tillRequest[w].kind # "idle"
  /\ EndTill(w)
  /\ UNCHANGED <<session, movements, drawer, tillMet>>

TillsNext ==
  \E w \in Workers :
    \/ \E s \in Sessions, a \in Cash :
         \/ OpenSession(w, s, a) \/ RecordSale(w, s, a)
         \/ AddCashMovement(w, s, a) \/ AddCashMovement(w, s, -a)
    \/ \E s \in Sessions : CloseSession(w, s)
    \/ SumMovements(w)
    \/ CommitOpen(w) \/ CommitSale(w) \/ CommitMovement(w) \/ CommitClose(w)
    \/ AbandonTill(w)

TillsTypeOK ==
  /\ session \in [Sessions -> SessionRow]
  /\ movements \in [Sessions -> Int]
  /\ tillRequest \in [Workers -> TillRequest]
  /\ drawer \in [Sessions -> Int]
  /\ tillMet \subseteq SUBSET TillKinds

-----------------------------------------------------------------------------
\* A register has one open session at the most, unless two requests to open
\* one overlapped.
OneOpenSession == {"open"} \notin tillMet => Cardinality(OpenSessions) <= 1

\* A drawer that is counted right shows no difference, unless sales overlapped
\* or the closing overlapped with a sale or a movement: whatever is in the
\* drawer is in the books.
NoFalseDifference ==
  tillMet \cap {{"sale"}, {"close"}, {"close", "sale"}, {"close", "move"}} = {} =>
    \A s \in Sessions : session[s].status = "closed" => session[s].difference = 0
=============================================================================
