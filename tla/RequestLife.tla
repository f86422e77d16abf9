---------------------------- MODULE RequestLife -----------------------------
(***************************************************************************)
(* What the gateway promises of each of its concurrent requests, whatever   *)
(* its middlewares and the logger's shared map do.  It decides once whether *)
(* a request is for a backend, and what it answers itself never gets there. *)
(* The client gets one status, which never changes.  One entry at most is   *)
(* logged, about the request itself or, if its ID is another's as well,     *)
(* about one that was admitted.  Entry and status agree, whichever is first.*)
(***************************************************************************)
EXTENDS Naturals

CONSTANTS Requests, Statuses, Nobody, NoEntry

VARIABLES
  own,      \* the requests whose ID is theirs alone, fixed
  stage,    \* "arrived", "local", "admitted", "served", or "unclear"
  answer,   \* the status each client was sent, 0 before
  entry     \* the entry logged for each request: [of, status]

lifeVars == <<own, stage, answer, entry>>

LifeInit ==
  /\ own \in SUBSET Requests
  /\ stage = [r \in Requests |-> "arrived"]
  /\ answer = [r \in Requests |-> 0]
  /\ entry = [r \in Requests |-> NoEntry]

Enter(r, from, to) == stage[r] = from /\ stage' = [stage EXCEPT ![r] = to]

\* f changes for r alone.
OnlyFor(r, f) == f' = [f EXCEPT ![r] = f'[r]]

Hear(r) == answer[r] = 0 /\ answer'[r] \in Statuses /\ OnlyFor(r, answer)

\* After an informational response, or for a client that has gone, it is unclear
\* what the client is told in the end.
Agree(r) ==
  stage[r] # "unclear" /\ answer[r] # 0 /\ entry[r] # NoEntry
    => entry[r].status = answer[r]

\* The gateway answers the request itself, at once or later.
Keep(r) ==
  /\ Enter(r, "arrived", "local")
  /\ Hear(r) \/ UNCHANGED answer
  /\ UNCHANGED <<own, entry>>

Admit(r) ==
  /\ Enter(r, "arrived", "admitted")
  /\ UNCHANGED <<own, answer, entry>>

\* The backend has had its turn.
Serve(r) ==
  /\ Enter(r, "admitted", "served") \/ Enter(r, "admitted", "unclear")
  /\ Hear(r) \/ UNCHANGED answer
  /\ UNCHANGED <<own, entry>>

Carried(r) == stage[r] \in {"local", "served", "unclear"}

Reply(r) ==
  /\ Carried(r)
  /\ Hear(r)
  /\ Agree(r)'
  /\ UNCHANGED <<own, stage, entry>>

\* Others an entry of r may be about.
Subjects(r) ==
  IF r \in own \/ stage[r] = "local" THEN {}
  ELSE {Nobody} \cup {q \in Requests : stage[q] \notin {"arrived", "local"}}

Record(r) ==
  /\ Carried(r)
  /\ entry[r] = NoEntry
  /\ OnlyFor(r, entry)
  /\ entry'[r] \in [of : {r} \cup Subjects(r), status : Statuses]
  /\ Agree(r)'
  /\ UNCHANGED <<own, stage, answer>>

LifeNext == \E r \in Requests : Keep(r) \/ Admit(r) \/ Serve(r) \/ Reply(r) \/ Record(r)

LifeSpec == LifeInit /\ [][LifeNext]_lifeVars

=============================================================================
