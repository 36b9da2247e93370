------------------------- MODULE ApprovalApi_proofs -------------------------
(***************************************************************************)
(* What the API keeps true for any number of requests, actions, replans    *)
(* and kills.                                                              *)
(*                                                                         *)
(* The invariant: a copy of the thread has the action and the status its   *)
(* stage calls for; two requests in flight are recorded as an overlap;     *)
(* every side effect is paid for, by its ledger row or by the request on   *)
(* its way to one, by a kill or by a race; and while requests come one at  *)
(* a time the one in flight has the newest checkpoint.                     *)
(***************************************************************************)
EXTENDS ApprovalApi, FiniteSetTheorems, TLAPS

\* The stage of a copy tells what else it has.
Coherent(m) ==
  /\ m \in Threads
  /\ m.next \in {"await_approval", "execute", "verify", "END"} => m.action \in Actions
  /\ m.next = "await_approval" => m.status = "AWAITING_APPROVAL"
  /\ m.next = "END" => m.status \in {"COMPLETED", "ESCALATED"}

\* Where a request is tells where its copy is.
Placed(r) ==
  /\ Coherent(req[r].mine)
  /\ req[r].at \in {"perform", "record", "recorded"} => req[r].mine.next = "execute"
  /\ req[r].at = "returned" => req[r].mine.next \in {"await_approval", "END"}

CopyInv ==
  /\ ApiTypeOK
  /\ Coherent(thread)
  /\ \A r \in Requests : Placed(r)

OverlapInv ==
  /\ \A r, q \in Requests : InFlight(r) /\ InFlight(q) => r = q \/ overlapped
  /\ raced > 0 => overlapped

\* The requests that are about to apply a, and that have to record it.
Performing(a) == {r \in Requests : req[r].at = "perform" /\ req[r].mine.action = a}
Recording(a)  == {r \in Requests : req[r].at = "record" /\ req[r].mine.action = a}

\* The one application of a that needs no excuse.
Due(a) == IF a \in ledger \/ Performing(a) # {} \/ Recording(a) # {} THEN 1 ELSE 0

PaidInv ==
  \A a \in Actions :
    /\ IsFiniteSet(Performing(a))
    /\ applied[a] + Cardinality(Performing(a)) <= raced + torn + Due(a)

\* The registry tells the newest checkpoint, which is not in the middle of anything.
Told ==
  \/ thread.next = "none" /\ row = NoVal
  \/ thread.next \in {"await_approval", "END"} /\ row = Response(thread)

Clean == ~overlapped /\ ~lost

CleanInv ==
  Clean =>
    /\ (\A r \in Requests : ~InFlight(r)) => Told
    /\ \A r \in Requests :
         /\ req[r].at = "checked" => Told /\ row # NoVal
         /\ InFlight(r) /\ req[r].at # "checked" => req[r].mine = thread /\ thread.next # "none"

-----------------------------------------------------------------------------
(* The graph on one copy.                                                  *)

\* What is sent to a new proposal, and what is proposed.
LEMMA ProposeCoherent ==
  ASSUME NEW m, Coherent(m)
  PROVE  /\ Coherent([m EXCEPT !.next = "propose"])
         /\ m.action \in Actions => /\ Coherent(Classified(m))
                                   /\ Classified(m).next # "none"
BY DEF Coherent, Threads, Stages, Statuses, Classified

\* A replan proposes anew or escalates (route_after_replan).
LEMMA ReplanCoherent ==
  ASSUME NEW m, Coherent(m), m.action \in Actions
  PROVE  Coherent(Replanned(m)) /\ Replanned(m).next # "none"
<1>1. m.replans + 1 \in Nat
  BY DEF Coherent, Threads
<1> QED
  BY <1>1 DEF Coherent, Threads, Stages, Statuses, Replanned

\* What a decision makes of a suspended copy (await_approval and what follows).
LEMMA AnswerCoherent ==
  ASSUME NEW m, Coherent(m), m.next = "await_approval",
         NEW d, NEW n \in Answers(m, d)
  PROVE  Coherent(n) /\ n.next # "none"
<1>1. ASSUME NEW k, Coherent(k), k.next = "await_approval", NEW j \in Revalidated(k)
      PROVE  Coherent(j) /\ j.next # "none"
  <2>1. CASE j = [k EXCEPT !.next = "execute", !.status = "EXECUTING"]
    BY <1>1, <2>1 DEF Coherent, Threads, Stages, Statuses
  <2>2. CASE j = Replanned(k)
    BY <1>1, <2>2, ReplanCoherent DEF Coherent
  <2> QED
    BY <1>1, <2>1, <2>2 DEF Revalidated
<1>2. CASE d = "approved"
  BY <1>1, <1>2 DEF Answers
<1>3. CASE d = "edited"
  <2>1. PICK a \in Actions : n \in Revalidated([m EXCEPT !.action = a])
    BY <1>3 DEF Answers
  <2>2. Coherent([m EXCEPT !.action = a]) /\ [m EXCEPT !.action = a].next = "await_approval"
    BY DEF Coherent, Threads
  <2> QED
    BY <1>1, <2>1, <2>2
<1>4. CASE d = "rejected"
  BY <1>4, ReplanCoherent DEF Answers, Coherent
<1>5. CASE d \notin {"approved", "edited", "rejected"}
  <2>1. n = [m EXCEPT !.next = "END", !.status = "ESCALATED"]
    BY <1>5 DEF Answers
  <2> QED
    BY <2>1 DEF Coherent, Threads, Stages, Statuses
<1> QED
  BY <1>2, <1>3, <1>4, <1>5

\* What a proposal makes of a copy at that stage.
LEMMA ProposalCoherent ==
  ASSUME NEW r, propose(r), Coherent(req[r].mine)
  PROVE  \E m : Coherent(m) /\ m.next # "none" /\ Saves(r, m)
<1>1. PICK a \in Actions :
        \/ Saves(r, Classified([req[r].mine EXCEPT !.action = a]))
        \/ Saves(r, Replanned([req[r].mine EXCEPT !.action = a]))
  BY DEF propose
<1> DEFINE m == [req[r].mine EXCEPT !.action = a]
<1>2. Coherent(m) /\ m.action = a
  BY DEF propose, Coherent, Threads
<1>3. Saves(r, Classified(m)) \/ Saves(r, Replanned(m))
  BY <1>1
<1> HIDE DEF m
<1>4. /\ Coherent(Classified(m)) /\ Classified(m).next # "none"
      /\ Coherent(Replanned(m)) /\ Replanned(m).next # "none"
  BY <1>2, ProposeCoherent, ReplanCoherent
<1> QED
  BY <1>3, <1>4

-----------------------------------------------------------------------------
(* Types and copies.                                                       *)

Request == [at : RequestAt, mine : Threads,
            decision : Decisions \cup {NoVal}, shown : Actions \cup {NoVal}]

LEMMA InitCopy == Init => CopyInv
<1> SUFFICES ASSUME Init PROVE CopyInv
  OBVIOUS
<1>1. Coherent(NewThread)
  BY DEF Coherent, NewThread, Threads, Stages, Statuses
<1>2. req \in [Requests -> Request]
  BY <1>1 DEF Init, Request, RequestAt, Coherent
<1>3. ASSUME NEW r \in Requests PROVE Placed(r)
  BY <1>1, <1>3 DEF Init, Placed
<1>4. applied \in [Actions -> Nat] /\ thread \in Threads
  BY <1>1 DEF Init, Coherent
<1> QED
  BY <1>1, <1>2, <1>3, <1>4 DEF Init, CopyInv, ApiTypeOK, Request

\* A request moves within its type if the others stay and it is well placed.
LEMMA RequestMoves ==
  ASSUME CopyInv, NEW r \in Requests, NEW q \in Request,
         req' = [req EXCEPT ![r] = q],
         Coherent(q.mine),
         q.at \in {"perform", "record", "recorded"} => q.mine.next = "execute",
         q.at = "returned" => q.mine.next \in {"await_approval", "END"}
  PROVE  req' \in [Requests -> Request] /\ \A p \in Requests : Placed(p)'
<1>1. req \in [Requests -> Request]
  BY DEF CopyInv, ApiTypeOK, Request
<1>2. req' \in [Requests -> Request]
  BY <1>1
<1>3. ASSUME NEW p \in Requests PROVE Placed(p)'
  <2>1. CASE p = r
    BY <1>1, <2>1 DEF Placed
  <2>2. CASE p # r
    BY <1>1, <2>2 DEF Placed, CopyInv
  <2> QED
    BY <2>1, <2>2
<1> QED
  BY <1>2, <1>3

\* Saving a coherent copy.
LEMMA SavesCopy ==
  ASSUME CopyInv, NEW r \in Requests, NEW m, Coherent(m), Saves(r, m)
  PROVE  /\ req' \in [Requests -> Request] /\ \A p \in Requests : Placed(p)'
         /\ thread' = m
<1> DEFINE q == [req[r] EXCEPT !.at = IF m.next = "END" THEN "returned" ELSE "driving",
                               !.mine = m, !.decision = NoVal]
<1>1. req[r] \in Request
  BY DEF CopyInv, ApiTypeOK, Request
<1>2. q \in Request
  BY <1>1 DEF Request, Coherent, RequestAt, InFlightAt
<1>3. req' = [req EXCEPT ![r] = q]
  BY <1>1 DEF Saves, CopyInv, ApiTypeOK, Request
<1>4. q.mine = m /\ q.at = IF m.next = "END" THEN "returned" ELSE "driving"
  BY <1>1 DEF Request
<1>5. /\ q.at \in {"perform", "record", "recorded"} => q.mine.next = "execute"
      /\ q.at = "returned" => q.mine.next \in {"await_approval", "END"}
  BY <1>4
<1> HIDE DEF q
<1>6. req' \in [Requests -> Request] /\ \A p \in Requests : Placed(p)'
  BY <1>2, <1>3, <1>4, <1>5, RequestMoves
<1> QED
  BY <1>6 DEF Saves

\* Moving without touching the copy.
LEMMA MovesCopy ==
  ASSUME CopyInv, NEW r \in Requests, NEW at \in RequestAt, Moves(r, at),
         at \in {"perform", "record", "recorded"} => req[r].mine.next = "execute",
         at = "returned" => req[r].mine.next \in {"await_approval", "END"}
  PROVE  req' \in [Requests -> Request] /\ \A p \in Requests : Placed(p)'
<1> DEFINE q == [req[r] EXCEPT !.at = at]
<1>1. req[r] \in Request /\ Coherent(req[r].mine)
  BY DEF CopyInv, ApiTypeOK, Request, Placed
<1>2. q \in Request /\ q.at = at /\ q.mine = req[r].mine
  BY <1>1 DEF Request
<1>3. req' = [req EXCEPT ![r] = q]
  BY <1>1 DEF Moves, CopyInv, ApiTypeOK, Request
<1> HIDE DEF q
<1> QED
  BY <1>1, <1>2, <1>3, RequestMoves

\* The parts of the type that only a few actions touch.
SharedType ==
  /\ ledger \subseteq Actions /\ row \in Rows \cup {NoVal}
  /\ applied \in [Actions -> Nat] /\ raced \in Nat /\ torn \in Nat /\ kills \in Nat
  /\ overlapped \in BOOLEAN /\ lost \in BOOLEAN

Shared == <<ledger, row, applied, raced, torn, lost, kills>>

LEMMA NextCopy == CopyInv /\ [Next]_vars => CopyInv'
<1> SUFFICES ASSUME CopyInv, Next PROVE CopyInv'
  BY DEF vars, history, CopyInv, ApiTypeOK, Placed
<1>1. PICK r \in Requests :
        \/ create_run(r) \/ pending_approval(r) \/ submit_decision(r) \/ refuse_decision(r)
        \/ Serve(r) \/ kill(r)
  BY DEF Next
<1>2. /\ req \in [Requests -> Request] /\ req[r] \in Request
      /\ Placed(r) /\ Coherent(thread) /\ SharedType
  BY DEF CopyInv, ApiTypeOK, Request, SharedType
<1>3. Joins(r) => overlapped' \in BOOLEAN
  BY <1>2 DEF Joins, SharedType
<1>4. SUFFICES /\ req' \in [Requests -> Request] /\ (\A p \in Requests : Placed(p)')
               /\ Coherent(thread') /\ SharedType'
  BY DEF CopyInv, ApiTypeOK, Request, SharedType, Coherent
<1>5. UNCHANGED Shared /\ overlapped' \in BOOLEAN => SharedType'
  BY <1>2 DEF Shared, SharedType
<1> DEFINE ReqOK == req' \in [Requests -> Request] /\ (\A p \in Requests : Placed(p)')
<1>6. CASE create_run(r)
  <2> DEFINE q == [req[r] EXCEPT !.at = "driving", !.mine = thread']
  <2>1. Coherent(thread')
    BY <1>2, <1>6, ProposeCoherent DEF create_run
  <2>2. q \in Request /\ q.mine = thread' /\ q.at = "driving"
    BY <1>2, <2>1 DEF Request, Coherent, RequestAt, InFlightAt
  <2>3. req' = [req EXCEPT ![r] = q]
    BY <1>2, <1>6 DEF create_run, Request
  <2> HIDE DEF q
  <2>4. ReqOK
    BY <2>1, <2>2, <2>3, RequestMoves
  <2> QED
    BY <1>3, <1>5, <1>6, <2>1, <2>4 DEF create_run, Shared
<1>7. CASE pending_approval(r)
  <2> DEFINE q == [req[r] EXCEPT !.at = "looking", !.shown = row.action]
  <2>1. row.action \in Actions
    BY <1>2, <1>7 DEF pending_approval, Listed, Known, SharedType, Rows
  <2>2. q \in Request /\ q.mine = req[r].mine /\ q.at = "looking"
    BY <1>2, <2>1 DEF Request, RequestAt
  <2>3. req' = [req EXCEPT ![r] = q]
    BY <1>2, <1>7 DEF pending_approval, Request
  <2> HIDE DEF q
  <2>4. ReqOK
    BY <1>2, <2>2, <2>3, RequestMoves DEF Placed
  <2> QED
    BY <1>2, <1>7, <2>4 DEF pending_approval, SharedType, history
<1>8. CASE submit_decision(r)
  <2>1. PICK d \in Decisions : req' = [req EXCEPT ![r].at = "checked", ![r].decision = d]
    BY <1>8 DEF submit_decision
  <2> DEFINE q == [req[r] EXCEPT !.at = "checked", !.decision = d]
  <2>2. q \in Request /\ q.mine = req[r].mine /\ q.at = "checked"
    BY <1>2 DEF Request, RequestAt, InFlightAt
  <2>3. req' = [req EXCEPT ![r] = q]
    BY <1>2, <2>1 DEF Request
  <2> HIDE DEF q
  <2>4. ReqOK
    BY <1>2, <2>2, <2>3, RequestMoves DEF Placed
  <2> QED
    BY <1>2, <1>3, <1>5, <1>8, <2>4 DEF submit_decision, Shared
<1>9. CASE refuse_decision(r)
  BY <1>2, <1>9, MovesCopy DEF refuse_decision, SharedType, history, RequestAt
<1>10. CASE resume_workflow(r)
  <2> DEFINE q == [req[r] EXCEPT !.at = IF thread.next = "END" THEN "returned" ELSE "driving",
                                 !.mine = thread]
  <2>1. q \in Request /\ q.mine = thread
         /\ q.at = IF thread.next = "END" THEN "returned" ELSE "driving"
    BY <1>2 DEF Request, RequestAt, InFlightAt, Coherent
  <2>2. req' = [req EXCEPT ![r] = q]
    BY <1>2, <1>10 DEF resume_workflow, Request
  <2> HIDE DEF q
  <2>3. ReqOK
    BY <1>2, <2>1, <2>2, RequestMoves
  <2> QED
    BY <1>2, <1>10, <2>3 DEF resume_workflow, SharedType, history
<1>11. CASE upsert(r)
  <2>1. Response(req[r].mine) \in Rows
    BY <1>2, <1>11 DEF upsert, Placed, Coherent, Response, Rows
  <2> QED
    BY <1>2, <1>11, <2>1, MovesCopy DEF upsert, SharedType, history, RequestAt
<1>12. CASE propose(r)
  <2>1. PICK m : Coherent(m) /\ Saves(r, m)
    BY <1>2, <1>12, ProposalCoherent DEF Placed
  <2>2. ReqOK /\ thread' = m
    BY <2>1, SavesCopy
  <2> QED
    BY <1>2, <1>12, <2>1, <2>2 DEF propose, SharedType, history
<1>13. CASE suspend(r)
  BY <1>2, <1>13, MovesCopy DEF suspend, SharedType, history, RequestAt, InFlightAt
<1>14. CASE await_approval(r)
  <2>1. PICK m \in Answers(req[r].mine, req[r].decision) : Saves(r, m)
    BY <1>14 DEF await_approval
  <2>2. Coherent(m)
    BY <1>2, <1>14, AnswerCoherent DEF await_approval, Placed
  <2>3. ReqOK /\ thread' = m
    BY <2>1, <2>2, SavesCopy
  <2> QED
    BY <1>2, <1>14, <2>2, <2>3 DEF await_approval, SharedType, history
<1>15. CASE lookup(r)
  BY <1>2, <1>15, MovesCopy DEF lookup, SharedType, RequestAt, InFlightAt
<1>16. CASE perform(r)
  <2>1. req[r].mine.next = "execute" /\ req[r].mine.action \in Actions
    BY <1>2, <1>16 DEF perform, Placed, Coherent
  <2> QED
    BY <1>2, <1>16, <2>1, MovesCopy DEF perform, SharedType, RequestAt, InFlightAt
<1>17. CASE record(r)
  <2>1. req[r].mine.next = "execute" /\ req[r].mine.action \in Actions
    BY <1>2, <1>17 DEF record, Placed, Coherent
  <2> QED
    BY <1>2, <1>17, <2>1, MovesCopy DEF record, SharedType, history, RequestAt, InFlightAt
<1>18. CASE executed(r)
  <2> DEFINE m == [req[r].mine EXCEPT !.next = "verify"]
  <2>1. Coherent(m) /\ Saves(r, m)
    BY <1>2, <1>18 DEF executed, Placed, Coherent, Threads, Stages
  <2> HIDE DEF m
  <2>2. ReqOK /\ thread' = m
    BY <2>1, SavesCopy
  <2> QED
    BY <1>2, <1>18, <2>1, <2>2 DEF executed, SharedType, history
<1>19. CASE verify(r)
  <2>1. Coherent([req[r].mine EXCEPT !.next = "END", !.status = "COMPLETED"])
    BY <1>2, <1>19 DEF verify, Placed, Coherent, Threads, Stages, Statuses
  <2>2. Coherent(Replanned(req[r].mine))
    BY <1>2, <1>19, ReplanCoherent DEF verify, Placed, Coherent
  <2>3. PICK m : Coherent(m) /\ Saves(r, m)
    BY <1>19, <2>1, <2>2 DEF verify
  <2>4. ReqOK /\ thread' = m
    BY <2>3, SavesCopy
  <2> QED
    BY <1>2, <1>19, <2>3, <2>4 DEF verify, SharedType, history
<1>20. CASE raises(r)
  BY <1>2, <1>20, MovesCopy DEF raises, SharedType, RequestAt
<1>21. CASE kill(r)
  BY <1>2, <1>21, MovesCopy DEF kill, SharedType, RequestAt
<1> QED
  BY <1>1, <1>6, <1>7, <1>8, <1>9, <1>10, <1>11, <1>12, <1>13, <1>14, <1>15, <1>16,
     <1>17, <1>18, <1>19, <1>20, <1>21 DEF Serve

-----------------------------------------------------------------------------
(* Overlaps.                                                               *)

Does(r) == \/ create_run(r) \/ pending_approval(r) \/ submit_decision(r) \/ refuse_decision(r)
           \/ Serve(r) \/ kill(r)

\* A step of one request leaves the others alone, forgets no overlap, and puts
\* it in flight only by joining those that are.
LEMMA StepOfOne ==
  ASSUME CopyInv, NEW r \in Requests, Does(r)
  PROVE  /\ \A q \in Requests \ {r} : req'[q] = req[q]
         /\ overlapped => overlapped'
         /\ InFlight(r)' => InFlight(r) \/ Joins(r)
<1>0. req \in [Requests -> Request]
  BY DEF CopyInv, ApiTypeOK, Request
<1>1. \A q \in Requests \ {r} : req'[q] = req[q]
  BY <1>0 DEF Does, Serve, create_run, pending_approval, submit_decision, refuse_decision,
     resume_workflow, upsert, propose, suspend, await_approval, lookup, perform,
     record, executed, verify, raises, kill, Saves, Moves
<1>2. overlapped => overlapped'
  BY DEF Does, Serve, create_run, pending_approval, submit_decision, refuse_decision,
     resume_workflow, upsert, propose, suspend, await_approval, lookup, perform,
     record, executed, verify, raises, kill, history, Joins
<1>3. CASE create_run(r) \/ submit_decision(r)
  BY <1>1, <1>2, <1>3 DEF create_run, submit_decision
<1>4. CASE pending_approval(r) \/ refuse_decision(r)
  <2>1. req'[r].at \in {"looking", "refused"}
    BY <1>0, <1>4 DEF pending_approval, refuse_decision, Moves, Request
  <2> QED
    BY <1>1, <1>2, <2>1 DEF InFlight, InFlightAt
<1>5. CASE Serve(r) \/ kill(r)
  <2>1. InFlight(r)
    BY <1>5 DEF Serve, resume_workflow, upsert, propose, suspend, await_approval, lookup,
       perform, record, executed, verify, raises, kill, InFlight, InFlightAt
  <2> QED
    BY <1>1, <1>2, <2>1
<1> QED
  BY <1>3, <1>4, <1>5 DEF Does

\* Who is looking a key up, or acting, is in flight.
LEMMA ActingIsInFlight ==
  ASSUME NEW r
  PROVE  /\ Acting(r) => InFlight(r)
         /\ lookup(r) => InFlight(r)
BY DEF Acting, InFlight, InFlightAt, lookup

LEMMA InitOverlap == Init => OverlapInv
BY DEF Init, OverlapInv, InFlight, InFlightAt

LEMMA NextOverlap == CopyInv /\ OverlapInv /\ [Next]_vars => OverlapInv'
<1> SUFFICES ASSUME CopyInv, OverlapInv, Next PROVE OverlapInv'
  BY DEF vars, history, OverlapInv, InFlight
<1>1. PICK r \in Requests : Does(r)
  BY DEF Next, Does
<1>2. /\ \A q \in Requests \ {r} : InFlight(q)' <=> InFlight(q)
      /\ overlapped => overlapped'
      /\ InFlight(r)' => InFlight(r) \/ Joins(r)
  BY <1>1, StepOfOne DEF InFlight
<1>3. ASSUME NEW p \in Requests, NEW q \in Requests, InFlight(p)', InFlight(q)', p # q
      PROVE  overlapped'
  <2>1. CASE p # r /\ q # r
    BY <1>2, <1>3, <2>1 DEF OverlapInv
  <2>2. CASE p = r /\ q # r
    BY <1>2, <1>3, <2>2 DEF OverlapInv, Joins
  <2>3. CASE p # r /\ q = r
    BY <1>2, <1>3, <2>3 DEF OverlapInv, Joins
  <2> QED
    BY <1>3, <2>1, <2>2, <2>3
<1>4. raced' > 0 => overlapped'
  <2>1. CASE lookup(r)
    <3>1. CASE \E q \in Requests \ {r} : Acting(q) /\ req[q].mine.action = req[r].mine.action
      BY <1>2, <2>1, <3>1, ActingIsInFlight DEF OverlapInv
    <3>2. CASE ~\E q \in Requests \ {r} : Acting(q) /\ req[q].mine.action = req[r].mine.action
      BY <1>2, <2>1, <3>2 DEF OverlapInv, lookup
    <3> QED
      BY <3>1, <3>2
  <2>2. CASE ~lookup(r)
    <3>1. raced' = raced
      BY <1>1, <2>2 DEF Does, Serve, create_run, pending_approval, submit_decision,
         refuse_decision, resume_workflow, upsert, propose, suspend, await_approval,
         perform, record, executed, verify, raises, kill, history
    <3> QED
      BY <1>2, <3>1 DEF OverlapInv
  <2> QED
    BY <2>1, <2>2
<1>5. \A p, q \in Requests : InFlight(p)' /\ InFlight(q)' => p = q \/ overlapped'
  BY <1>3
<1> QED
  BY <1>4, <1>5 DEF OverlapInv

-----------------------------------------------------------------------------
(* Every side effect is paid for.                                          *)

LEMMA InitPaid == Init => PaidInv
<1> SUFFICES ASSUME Init, NEW a \in Actions
             PROVE  /\ IsFiniteSet(Performing(a))
                    /\ applied[a] + Cardinality(Performing(a)) <= raced + torn + Due(a)
  BY DEF PaidInv
<1>1. Performing(a) = {} /\ Recording(a) = {}
  BY DEF Init, Performing, Recording
<1> QED
  BY <1>1, FS_EmptySet DEF Init, Due

\* A step that takes no part in acting changes nothing PaidInv reads.
LEMMA NotActing ==
  ASSUME CopyInv, PaidInv, NEW r \in Requests,
         \A q \in Requests \ {r} : req'[q] = req[q],
         req[r].at \notin {"perform", "record"}, req'[r].at \notin {"perform", "record"},
         UNCHANGED <<ledger, applied, raced, torn>>
  PROVE  PaidInv'
<1>1. ASSUME NEW a \in Actions
      PROVE  Performing(a)' = Performing(a) /\ Recording(a)' = Recording(a)
  BY DEF Performing, Recording
<1>2. \A a \in Actions : Due(a)' = Due(a)
  BY <1>1 DEF Due
<1> QED
  BY <1>1, <1>2 DEF PaidInv

LEMMA NextPaid == CopyInv /\ PaidInv /\ [Next]_vars => PaidInv'
<1> SUFFICES ASSUME CopyInv, PaidInv, Next PROVE PaidInv'
  BY DEF vars, history, PaidInv, Performing, Recording, Due
<1>1. PICK r \in Requests : Does(r)
  BY DEF Next, Does
<1>2. PICK b :
        /\ b = req[r].mine.action
        /\ req \in [Requests -> Request] /\ req[r] \in Request
        /\ \A q \in Requests \ {r} : req'[q] = req[q]
        /\ raced \in Nat /\ torn \in Nat /\ applied \in [Actions -> Nat]
  BY <1>1, StepOfOne DEF CopyInv, ApiTypeOK, Request
<1>3. ASSUME NEW a \in Actions
      PROVE  /\ IsFiniteSet(Performing(a)) /\ Cardinality(Performing(a)) \in Nat
             /\ applied[a] + Cardinality(Performing(a)) <= raced + torn + Due(a)
             /\ Due(a) \in {0, 1} /\ applied[a] \in Nat
  BY <1>2, FS_CardinalityType DEF PaidInv, Due
<1>4. CASE lookup(r)
  <2>1. /\ req[r].at = "driving" /\ b \notin ledger
        /\ req'[r].at = "perform" /\ req'[r].mine = req[r].mine
        /\ UNCHANGED <<ledger, applied, torn>>
    BY <1>2, <1>4 DEF lookup, Moves, Request
  <2>2. ASSUME NEW a \in Actions, a # b
        PROVE  Performing(a)' = Performing(a) /\ Recording(a)' = Recording(a)
    BY <1>2, <2>1, <2>2 DEF Performing, Recording
  <2>3. /\ Performing(b)' = Performing(b) \cup {r} /\ r \notin Performing(b)
        /\ Recording(b)' = Recording(b)
    BY <1>2, <2>1 DEF Performing, Recording
  <2>4. raced' \in {raced, raced + 1}
    BY <1>4 DEF lookup
  <2>5. ASSUME NEW a \in Actions, a # b
        PROVE  /\ IsFiniteSet(Performing(a)')
               /\ applied'[a] + Cardinality(Performing(a)') <= raced' + torn' + Due(a)'
    <3>1. Due(a)' = Due(a)
      BY <2>1, <2>2, <2>5 DEF Due
    <3> QED
      BY <1>2, <1>3, <2>1, <2>2, <2>4, <2>5, <3>1
  <2>6. ASSUME b \in Actions
        PROVE  /\ IsFiniteSet(Performing(b)')
               /\ applied'[b] + Cardinality(Performing(b)') <= raced' + torn' + Due(b)'
    <3>1. /\ IsFiniteSet(Performing(b)')
          /\ Cardinality(Performing(b)') = Cardinality(Performing(b)) + 1
      BY <1>3, <2>3, <2>6, FS_AddElement
    <3>2. Due(b)' = 1
      BY <2>3 DEF Due
    <3>3. CASE Due(b) = 0
      BY <1>2, <1>3, <2>1, <2>4, <2>6, <3>1, <3>2, <3>3
    <3>4. CASE Due(b) = 1
      <4>1. PICK q \in Requests : q \in Performing(b) \cup Recording(b)
        BY <2>1, <3>4 DEF Due, Performing, Recording
      <4>2. q # r /\ Acting(q) /\ req[q].mine.action = b
        BY <1>2, <2>1, <4>1 DEF Performing, Recording, Acting
      <4>3. raced' = raced + 1
        BY <1>2, <1>4, <4>2 DEF lookup
      <4> QED
        BY <1>2, <1>3, <2>1, <2>6, <3>1, <3>2, <3>4, <4>3
    <3> QED
      BY <1>3, <2>6, <3>3, <3>4
  <2>7. ASSUME NEW a \in Actions
        PROVE  /\ IsFiniteSet(Performing(a)')
               /\ applied'[a] + Cardinality(Performing(a)') <= raced' + torn' + Due(a)'
    BY <2>5, <2>6
  <2> QED
    BY <2>7 DEF PaidInv
<1>5. CASE perform(r)
  <2>1. /\ req[r].at = "perform" /\ req'[r].at = "record" /\ req'[r].mine = req[r].mine
        /\ applied' = [applied EXCEPT ![b] = @ + 1]
        /\ UNCHANGED <<ledger, raced, torn>>
    BY <1>2, <1>5 DEF perform, Moves, Request
  <2>2. ASSUME NEW a \in Actions, a # b
        PROVE  /\ IsFiniteSet(Performing(a)')
               /\ applied'[a] + Cardinality(Performing(a)') <= raced' + torn' + Due(a)'
    <3>1. Performing(a)' = Performing(a) /\ Recording(a)' = Recording(a)
      BY <1>2, <2>1, <2>2 DEF Performing, Recording
    <3>2. Due(a)' = Due(a) /\ applied'[a] = applied[a]
      BY <1>2, <2>1, <2>2, <3>1 DEF Due
    <3> QED
      BY <1>3, <2>1, <3>1, <3>2
  <2>3. ASSUME b \in Actions
        PROVE  /\ IsFiniteSet(Performing(b)')
               /\ applied'[b] + Cardinality(Performing(b)') <= raced' + torn' + Due(b)'
    <3>1. /\ Performing(b)' = Performing(b) \ {r} /\ r \in Performing(b)
          /\ r \in Recording(b)'
      BY <1>2, <2>1 DEF Performing, Recording
    <3>2. /\ IsFiniteSet(Performing(b)')
          /\ Cardinality(Performing(b)') = Cardinality(Performing(b)) - 1
      BY <1>3, <2>3, <3>1, FS_RemoveElement
    <3>3. Due(b) = 1 /\ Due(b)' = 1 /\ applied'[b] = applied[b] + 1
      BY <1>2, <2>1, <2>3, <3>1 DEF Due
    <3> QED
      BY <1>2, <1>3, <2>1, <2>3, <3>2, <3>3
  <2>4. ASSUME NEW a \in Actions
        PROVE  /\ IsFiniteSet(Performing(a)')
               /\ applied'[a] + Cardinality(Performing(a)') <= raced' + torn' + Due(a)'
    BY <2>2, <2>3
  <2> QED
    BY <2>4 DEF PaidInv
<1>6. CASE record(r)
  <2>1. /\ req[r].at = "record" /\ req'[r].at = "recorded" /\ req'[r].mine = req[r].mine
        /\ ledger' = ledger \cup {b}
        /\ UNCHANGED <<applied, raced, torn>>
    BY <1>2, <1>6 DEF record, Moves, Request, history
  <2>2. ASSUME NEW a \in Actions
        PROVE  /\ Performing(a)' = Performing(a)
               /\ a # b => Recording(a)' = Recording(a)
    BY <1>2, <2>1 DEF Performing, Recording
  <2>3. ASSUME NEW a \in Actions PROVE Due(a)' \in {Due(a), 1}
    BY <2>1, <2>2 DEF Due
  <2>4. ASSUME NEW a \in Actions
        PROVE  applied'[a] + Cardinality(Performing(a)') <= raced' + torn' + Due(a)'
    BY <1>2, <1>3, <2>1, <2>2, <2>3
  <2> QED
    BY <1>3, <2>2, <2>4 DEF PaidInv
<1>7. CASE (raises(r) \/ kill(r)) /\ req[r].at = "perform"
  <2>1. /\ req'[r].at \notin {"perform", "record"} /\ req'[r].mine = req[r].mine
        /\ UNCHANGED <<ledger, applied, raced, torn>>
    BY <1>2, <1>7 DEF raises, kill, Moves, Request
  <2>2. ASSUME NEW a \in Actions, a # b
        PROVE  Performing(a)' = Performing(a) /\ Due(a)' = Due(a)
    <3>1. Performing(a)' = Performing(a) /\ Recording(a)' = Recording(a)
      BY <1>2, <1>7, <2>1, <2>2 DEF Performing, Recording
    <3> QED
      BY <2>1, <3>1 DEF Due
  <2>3. ASSUME b \in Actions
        PROVE  /\ IsFiniteSet(Performing(b)')
               /\ applied'[b] + Cardinality(Performing(b)') <= raced' + torn' + Due(b)'
    <3>1. Performing(b)' = Performing(b) \ {r} /\ r \in Performing(b)
      BY <1>2, <1>7, <2>1 DEF Performing
    <3>2. /\ IsFiniteSet(Performing(b)')
          /\ Cardinality(Performing(b)') = Cardinality(Performing(b)) - 1
      BY <1>3, <2>3, <3>1, FS_RemoveElement
    <3>3. Due(b) = 1 /\ Due(b)' \in {0, 1}
      BY <3>1 DEF Due
    <3> QED
      BY <1>2, <1>3, <2>1, <2>3, <3>2, <3>3
  <2>4. ASSUME NEW a \in Actions
        PROVE  /\ IsFiniteSet(Performing(a)')
               /\ applied'[a] + Cardinality(Performing(a)') <= raced' + torn' + Due(a)'
    BY <1>3, <2>1, <2>2, <2>3
  <2> QED
    BY <2>4 DEF PaidInv
<1>8. CASE kill(r) /\ req[r].at = "record"
  <2>1. /\ req'[r].at = "killed" /\ req'[r].mine = req[r].mine /\ torn' = torn + 1
        /\ UNCHANGED <<ledger, applied, raced>>
    BY <1>2, <1>8 DEF kill, Moves, Request
  <2>2. ASSUME NEW a \in Actions
        PROVE  /\ Performing(a)' = Performing(a)
               /\ a # b => Recording(a)' = Recording(a)
    BY <1>2, <1>8, <2>1 DEF Performing, Recording
  <2>3. ASSUME NEW a \in Actions PROVE Due(a)' \in {0, 1}
    BY DEF Due
  <2>4. ASSUME NEW a \in Actions
        PROVE  applied'[a] + Cardinality(Performing(a)') <= raced' + torn' + Due(a)'
    BY <1>2, <1>3, <2>1, <2>2, <2>3
  <2> QED
    BY <1>3, <2>2, <2>4 DEF PaidInv
<1>9. CASE (raises(r) \/ kill(r)) /\ req[r].at \notin {"perform", "record"}
  <2>1. req'[r].at \in {"raised", "killed"} /\ UNCHANGED <<ledger, applied, raced, torn>>
    BY <1>2, <1>9 DEF raises, kill, Moves, Request
  <2> QED
    BY <1>2, <1>9, <2>1, NotActing
<1>10. CASE \/ create_run(r) \/ pending_approval(r) \/ submit_decision(r) \/ refuse_decision(r)
            \/ resume_workflow(r) \/ upsert(r) \/ propose(r) \/ suspend(r)
            \/ await_approval(r) \/ executed(r) \/ verify(r)
  <2>1. UNCHANGED <<applied, raced, torn, ledger>> /\ req[r].at \notin {"perform", "record"}
    BY <1>10 DEF create_run, pending_approval, submit_decision, refuse_decision,
       resume_workflow, upsert, propose, suspend, await_approval, executed, verify,
       history
  <2>2. req'[r].at \notin {"perform", "record"}
    <3>1. ASSUME NEW m, Saves(r, m) PROVE req'[r].at \in {"returned", "driving"}
      BY <1>2, <3>1 DEF Saves, Request
    <3>2. CASE propose(r) \/ await_approval(r) \/ executed(r) \/ verify(r)
      BY <3>1, <3>2 DEF propose, await_approval, executed, verify
    <3>3. CASE create_run(r) \/ pending_approval(r) \/ submit_decision(r) \/ resume_workflow(r)
      BY <1>2, <3>3 DEF create_run, pending_approval, submit_decision, resume_workflow, Request
    <3>4. CASE refuse_decision(r) \/ upsert(r) \/ suspend(r)
      BY <1>2, <3>4 DEF refuse_decision, upsert, suspend, Moves, Request
    <3> QED
      BY <1>10, <3>2, <3>3, <3>4
  <2> QED
    BY <1>2, <2>1, <2>2, NotActing
<1> QED
  BY <1>1, <1>4, <1>5, <1>6, <1>7, <1>8, <1>9, <1>10 DEF Does, Serve, raises

-----------------------------------------------------------------------------
(* One request at a time.                                                  *)

LEMMA InitClean == Init => CleanInv
BY DEF Init, CleanInv, Told, NewThread, InFlight, InFlightAt

\* What CleanInv says of one request.
HasNewest(q) ==
  /\ req[q].at = "checked" => Told /\ row # NoVal
  /\ InFlight(q) /\ req[q].at # "checked" => req[q].mine = thread /\ thread.next # "none"

\* A request that saves a copy has the newest checkpoint.
LEMMA SavesClean ==
  ASSUME CopyInv, NEW r \in Requests, NEW m, m.next # "none", Saves(r, m)
  PROVE  HasNewest(r)' /\ InFlight(r)'
<1>1. /\ req'[r].at \in {"returned", "driving"} /\ req'[r].mine = m /\ thread' = m
  BY DEF Saves, CopyInv, ApiTypeOK, Request
<1> QED
  BY <1>1 DEF HasNewest, InFlight, InFlightAt

\* So has one that goes on with it.
LEMMA MovesClean ==
  ASSUME CopyInv, NEW r \in Requests, NEW at \in InFlightAt \ {"checked"}, Moves(r, at),
         HasNewest(r), InFlight(r), req[r].at # "checked", thread' = thread
  PROVE  HasNewest(r)' /\ InFlight(r)'
<1>1. /\ req'[r].at = at /\ req'[r].mine = req[r].mine
  BY DEF Moves, CopyInv, ApiTypeOK, Request
<1> QED
  BY <1>1 DEF HasNewest, InFlight

LEMMA NextClean == CopyInv /\ OverlapInv /\ CleanInv /\ [Next]_vars => CleanInv'
<1> SUFFICES ASSUME CopyInv, OverlapInv, CleanInv, Next, Clean' PROVE CleanInv'
  BY DEF vars, history, CleanInv, Clean, Told, InFlight
<1>1. PICK r \in Requests : Does(r)
  BY DEF Next, Does
<1>2. /\ \A q \in Requests \ {r} : req'[q] = req[q] /\ (InFlight(q)' <=> InFlight(q))
      /\ req \in [Requests -> Request] /\ req[r] \in Request /\ Placed(r)
      /\ ~overlapped
  BY <1>1, StepOfOne DEF Clean, CopyInv, ApiTypeOK, Request, InFlight
<1>3. ~lost /\ ~raises(r) /\ ~kill(r)
  <2>1. ~raises(r) /\ ~kill(r)
    BY DEF raises, kill, Clean
  <2>2. lost' = lost
    BY <1>1, <2>1 DEF Does, Serve, create_run, pending_approval, submit_decision,
       refuse_decision, resume_workflow, upsert, propose, suspend, await_approval, lookup,
       perform, record, executed, verify, history
  <2> QED
    BY <2>1, <2>2 DEF Clean
<1>4. /\ (\A q \in Requests : ~InFlight(q)) => Told
      /\ \A q \in Requests : HasNewest(q)
  BY <1>2, <1>3 DEF CleanInv, Clean, HasNewest
<1>5. SUFFICES /\ (\A q \in Requests : ~InFlight(q)') => Told'
               /\ \A q \in Requests : HasNewest(q)'
  BY DEF CleanInv, HasNewest
<1>6. CASE pending_approval(r) \/ refuse_decision(r)
  <2>1. UNCHANGED <<thread, row>> /\ ~InFlight(r) /\ req'[r].at \in {"looking", "refused"}
    BY <1>2, <1>6 DEF pending_approval, refuse_decision, Moves, Request, InFlight, InFlightAt
  <2>2. Told' = Told /\ ~InFlight(r)'
    BY <2>1 DEF Told, InFlight, InFlightAt
  <2>3. ASSUME NEW q \in Requests PROVE HasNewest(q)'
    BY <1>2, <1>4, <2>1, <2>2 DEF HasNewest
  <2> QED
    BY <1>2, <1>4, <2>1, <2>2, <2>3
<1>7. CASE create_run(r) \/ submit_decision(r)
  <2>1. /\ ~InFlight(r) /\ \A q \in Requests \ {r} : ~InFlight(q)
        /\ row' = row
    BY <1>2, <1>7 DEF create_run, submit_decision, Joins, Clean, InFlight, InFlightAt
  <2>2. Told
    BY <1>4, <2>1
  <2>3. CASE create_run(r)
    <3>1. req'[r].at = "driving" /\ req'[r].mine = thread' /\ thread'.next = "propose"
      BY <1>2, <2>3 DEF create_run, CopyInv, Coherent, Threads, Request
    <3> QED
      BY <1>2, <2>1, <3>1 DEF HasNewest, InFlight, InFlightAt
  <2>4. CASE submit_decision(r)
    <3>1. req'[r].at = "checked" /\ thread' = thread /\ row # NoVal
      BY <1>2, <2>4 DEF submit_decision, Listed, Known, Request
    <3> QED
      BY <1>2, <2>1, <2>2, <3>1 DEF HasNewest, InFlight, InFlightAt, Told
  <2> QED
    BY <1>7, <2>3, <2>4
<1>8. CASE Serve(r)
  <2>1. InFlight(r) /\ HasNewest(r)
    BY <1>4, <1>8 DEF Serve, resume_workflow, upsert, propose, suspend, await_approval, lookup,
       perform, record, executed, verify, raises, InFlight, InFlightAt
  <2>2. \A q \in Requests \ {r} : ~InFlight(q)' /\ HasNewest(q)'
    BY <1>2, <2>1 DEF OverlapInv, HasNewest, InFlight, InFlightAt
  <2>3. SUFFICES HasNewest(r)' /\ (~InFlight(r)' => Told')
    BY <2>2
  <2>4. CASE resume_workflow(r)
    <3>1. /\ req'[r].at \in {"returned", "driving"} /\ req'[r].mine = thread
          /\ UNCHANGED <<thread, row>>
      BY <1>2, <2>4 DEF resume_workflow, Request
    <3>2. Told /\ row # NoVal
      BY <2>1, <2>4 DEF resume_workflow, HasNewest
    <3> QED
      BY <3>1, <3>2 DEF HasNewest, InFlight, InFlightAt, Told
  <2>5. CASE upsert(r)
    <3>1. /\ row' = Response(req[r].mine) /\ thread' = thread /\ req'[r].at = "replied"
          /\ req[r].mine = thread /\ thread.next \in {"await_approval", "END"}
      BY <1>2, <2>1, <2>5 DEF upsert, Moves, Request, HasNewest, Placed
    <3> QED
      BY <3>1 DEF HasNewest, InFlight, InFlightAt, Told
  <2>6. CASE propose(r)
    <3>1. PICK m : m.next # "none" /\ Saves(r, m)
      BY <1>2, <2>6, ProposalCoherent DEF Placed
    <3> QED
      BY <3>1, SavesClean
  <2>7. CASE await_approval(r)
    <3>1. PICK m \in Answers(req[r].mine, req[r].decision) : Saves(r, m)
      BY <2>7 DEF await_approval
    <3>2. m.next # "none"
      BY <1>2, <2>7, AnswerCoherent DEF await_approval, Placed
    <3> QED
      BY <3>1, <3>2, SavesClean
  <2>8. CASE executed(r)
    <3> DEFINE m == [req[r].mine EXCEPT !.next = "verify"]
    <3>1. m.next # "none" /\ Saves(r, m)
      BY <1>2, <2>8 DEF executed, Placed, Coherent, Threads
    <3> HIDE DEF m
    <3> QED
      BY <3>1, SavesClean
  <2>9. CASE verify(r)
    <3>1. [req[r].mine EXCEPT !.next = "END", !.status = "COMPLETED"].next # "none"
      BY <1>2 DEF Placed, Coherent, Threads
    <3>2. Replanned(req[r].mine).next # "none"
      BY <1>2, <2>9, ReplanCoherent DEF verify, Placed, Coherent
    <3>3. PICK m : m.next # "none" /\ Saves(r, m)
      BY <2>9, <3>1, <3>2 DEF verify
    <3> QED
      BY <3>3, SavesClean
  <2>10. CASE suspend(r) \/ lookup(r) \/ perform(r) \/ record(r)
    <3>1. req[r].at # "checked" /\ thread' = thread
      BY <2>10 DEF suspend, lookup, perform, record
    <3>2. PICK at \in InFlightAt \ {"checked"} : Moves(r, at)
      BY <2>10 DEF suspend, lookup, perform, record, InFlightAt
    <3> QED
      BY <2>1, <3>1, <3>2, MovesClean
  <2> QED
    BY <1>3, <1>8, <2>4, <2>5, <2>6, <2>7, <2>8, <2>9, <2>10 DEF Serve
<1> QED
  BY <1>1, <1>3, <1>6, <1>7, <1>8 DEF Does

-----------------------------------------------------------------------------
(* The theorems.                                                           *)

\* The checkpoint, the registry and the requests keep their types; a row only
\* names a status a call returns with, and an action (_to_response).
THEOREM ApiTypes == Spec => []ApiTypeOK
<1>1. CopyInv => ApiTypeOK
  BY DEF CopyInv
<1> QED
  BY <1>1, InitCopy, NextCopy, PTL DEF Spec

LEMMA ApiInvHolds == Spec => [](CopyInv /\ OverlapInv /\ PaidInv /\ CleanInv)
<1>1. Init => CopyInv /\ OverlapInv /\ PaidInv /\ CleanInv
  BY InitCopy, InitOverlap, InitPaid, InitClean
<1>2. CopyInv /\ OverlapInv /\ PaidInv /\ CleanInv /\ [Next]_vars =>
        (CopyInv /\ OverlapInv /\ PaidInv /\ CleanInv)'
  BY NextCopy, NextOverlap, NextPaid, NextClean
<1> QED
  BY <1>1, <1>2, PTL DEF Spec

\* For any number of requests: a side effect is repeated only for a kill before
\* its ledger row or a lookup while another request acts, and the latter takes
\* two requests in flight at once (_run_idempotent).
THEOREM DuplicatesAreExcused == Spec => []DuplicateOnlyIfRacedOrTorn
<1>1. CopyInv /\ OverlapInv /\ PaidInv => DuplicateOnlyIfRacedOrTorn
  <2> SUFFICES ASSUME CopyInv, OverlapInv, PaidInv, NEW a \in Actions
               PROVE  applied[a] <= 1 + torn + raced
    BY DEF DuplicateOnlyIfRacedOrTorn, OverlapInv
  <2>1. /\ applied[a] \in Nat /\ raced \in Nat /\ torn \in Nat
        /\ Cardinality(Performing(a)) \in Nat /\ Due(a) \in {0, 1}
        /\ applied[a] + Cardinality(Performing(a)) <= raced + torn + Due(a)
    BY FS_CardinalityType DEF CopyInv, ApiTypeOK, PaidInv, Due
  <2> QED
    BY <2>1
<1> QED
  BY <1>1, ApiInvHolds, PTL

\* For any number of requests: while they come one at a time and none is killed
\* or fails, the queue lists the run exactly when it is suspended
\* (_sync_registry, list_pending_approval).
THEOREM TheQueueIsTrue == Spec => []QueueIsTrue
<1>1. CopyInv /\ CleanInv => QueueIsTrue
  <2> SUFFICES ASSUME CopyInv, CleanInv, ~overlapped, ~lost,
                      \A r \in Requests : ~InFlight(r)
               PROVE  /\ Known <=> thread.next # "none"
                      /\ Known => /\ row = Response(thread)
                                  /\ Listed <=> thread.next = "await_approval"
                                  /\ Listed \/ thread.next = "END"
    BY DEF QueueIsTrue
  <2>1. Told
    BY DEF CleanInv, Clean
  <2>2. CASE thread.next = "none" /\ row = NoVal
    BY <2>2 DEF Known
  <2>3. CASE thread.next \in {"await_approval", "END"} /\ row = Response(thread)
    <3>1. Response(thread) \in Rows /\ row.status = thread.status
      BY <2>3 DEF CopyInv, Coherent, Response, Rows
    <3>2. Known
      BY <2>3, <3>1, ApprovalApiAssumption DEF Known
    <3>3. Listed <=> thread.next = "await_approval"
      BY <2>3, <3>1, <3>2 DEF Listed, CopyInv, Coherent
    <3> QED
      BY <2>3, <3>2, <3>3
  <2> QED
    BY <2>1, <2>2, <2>3 DEF Told
<1> QED
  BY <1>1, ApiInvHolds, PTL
=============================================================================
