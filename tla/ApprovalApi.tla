---------------------------- MODULE ApprovalApi ----------------------------
(***************************************************************************)
(* Several HTTP requests over one run (src/api/main.py): POST /runs, the   *)
(* pending-approval queue a reviewer reads, POST /runs/{id}/decision, and  *)
(* the registry they keep (src/api/run_registry.py).  Nothing serializes   *)
(* the requests: each resume loads the newest checkpoint of the thread,    *)
(* goes on from its own copy of it and saves a checkpoint after each node, *)
(* and the checkpoint saved last is the one the next request loads.        *)
(*                                                                         *)
(* AgentGraph has the nodes in full for one process.  Here a run is what   *)
(* requests can disturb: the pending stage, the proposed action, the count *)
(* of replans.  The nodes from diagnose to mark_awaiting_approval, and     *)
(* those from verify to replan, are one step each: they touch nothing that *)
(* is shared but the checkpoint.  The store is the one the application is  *)
(* built with, PostgresExecutedActionsStore.                               *)
(***************************************************************************)
EXTENDS Naturals, FiniteSets

CONSTANTS
  Requests,          \* the HTTP requests that may arrive, one use each
  Actions,           \* the actions the reasoner may propose
  GatedActions,      \* those that need approval
  MAX_REPLAN_CYCLES,
  NoVal,
  MaxKills           \* bound of the model

VARIABLES
  thread,    \* the newest checkpoint
  ledger,    \* executed_actions: the keys that have a row
  row,       \* the run's row of the registry, if it has one
  req,       \* the requests: where each is, its copy of the thread, its
             \* decision, and the action its reviewer was shown
  (* History.                                                              *)
  applied,   \* how often each side effect happened
  raced,     \* lookups that found no row while another request was acting
  torn,      \* kills between a side effect and its row
  overlapped,\* two requests were in flight at once
  lost,      \* a request was killed or raised and never reached the registry
  kills

history == <<applied, raced, torn, overlapped, lost, kills>>
vars    == <<thread, ledger, row, req, history>>

Stages   == {"none", "propose", "await_approval", "execute", "verify", "END"}
Statuses == {"AWAITING_APPROVAL", "EXECUTING", "REPLANNING", "COMPLETED", "ESCALATED"}
Threads  == [next : Stages, status : Statuses \cup {NoVal},
             action : Actions \cup {NoVal}, replans : Nat]
Rows     == [status : {"AWAITING_APPROVAL", "COMPLETED", "ESCALATED"}, action : Actions]
Decisions == {"approved", "edited", "rejected", "timeout"}

ASSUME ApprovalApiAssumption ==
  /\ GatedActions \subseteq Actions /\ NoVal \notin Actions \cup Rows
  /\ MAX_REPLAN_CYCLES \in Nat \ {0} /\ MaxKills \in Nat

InFlightAt == {"checked", "driving", "perform", "record", "recorded", "returned"}
RequestAt  == {"new", "looking", "replied", "refused", "raised", "killed"} \cup InFlightAt

NewThread == [next |-> "none", status |-> NoVal, action |-> NoVal, replans |-> 0]

Init ==
  /\ thread = NewThread /\ ledger = {} /\ row = NoVal
  /\ req = [r \in Requests |-> [at |-> "new", mine |-> NewThread,
                                decision |-> NoVal, shown |-> NoVal]]
  /\ applied = [a \in Actions |-> 0]
  /\ raced = 0 /\ torn = 0 /\ overlapped = FALSE /\ lost = FALSE /\ kills = 0

InFlight(r) == req[r].at \in InFlightAt

Acting(r) == req[r].at \in {"perform", "record"}

Moves(r, at) == req' = [req EXCEPT ![r].at = at]

\* r goes in flight while others may be.
Joins(r) == overlapped' = (overlapped \/ \E q \in Requests \ {r} : InFlight(q))

\* r saves the checkpoint m and goes on, or returns at the end of the graph.
Saves(r, m) ==
  /\ thread' = m
  /\ req' = [req EXCEPT ![r].at = IF m.next = "END" THEN "returned" ELSE "driving",
                        ![r].mine = m, ![r].decision = NoVal]

-----------------------------------------------------------------------------
(* The registry.                                                           *)

\* get and list_pending_approval.
Known  == row # NoVal
Listed == Known /\ row.status = "AWAITING_APPROVAL"

\* What _to_response takes of the state a call returned with.
Response(m) == [status |-> m.status, action |-> m.action]

-----------------------------------------------------------------------------
(* The endpoints.                                                          *)

\* POST /runs: start_workflow, which sends an existing thread back to START
\* and keeps its state.
create_run(r) ==
  /\ req[r].at = "new"
  /\ thread' = [thread EXCEPT !.next = "propose"]
  /\ req' = [req EXCEPT ![r].at = "driving", ![r].mine = thread']
  /\ Joins(r)
  /\ UNCHANGED <<ledger, row, applied, raced, torn, lost, kills>>

\* GET /runs/pending-approval: the reviewer sees the run and its action.
pending_approval(r) ==
  /\ req[r].at = "new" /\ Listed
  /\ req' = [req EXCEPT ![r].at = "looking", ![r].shown = row.action]
  /\ UNCHANGED <<thread, ledger, row, history>>

\* POST /runs/{id}/decision up to its 404 and 409 checks.
submit_decision(r) ==
  /\ req[r].at = "looking" /\ Listed
  /\ \E d \in Decisions : req' = [req EXCEPT ![r].at = "checked", ![r].decision = d]
  /\ Joins(r)
  /\ UNCHANGED <<thread, ledger, row, applied, raced, torn, lost, kills>>

refuse_decision(r) ==
  /\ req[r].at = "looking" /\ ~Listed
  /\ Moves(r, "refused")
  /\ UNCHANGED <<thread, ledger, row, history>>

\* resume_workflow loads the newest checkpoint.  On a thread that has ended
\* there is nothing to run and the call returns the state.
resume_workflow(r) ==
  /\ req[r].at = "checked"
  /\ req' = [req EXCEPT ![r].at = IF thread.next = "END" THEN "returned" ELSE "driving",
                        ![r].mine = thread]
  /\ UNCHANGED <<thread, ledger, row, history>>

\* _sync_registry: the last upsert to arrive wins.
\* Mutant: DO NOTHING for DO UPDATE.
upsert_Once(r) ==
  /\ req[r].at = "returned"
  /\ row' = IF Known THEN row ELSE Response(req[r].mine)
  /\ Moves(r, "replied")
  /\ UNCHANGED <<thread, ledger, history>>

upsert(r) ==
  /\ req[r].at = "returned"
  /\ row' = Response(req[r].mine)
  /\ Moves(r, "replied")
  /\ UNCHANGED <<thread, ledger, history>>

-----------------------------------------------------------------------------
(* The graph, driven by one request from its own copy of the thread.       *)

\* interrupt() with nothing to resume it by: ainvoke returns.
suspend(r) ==
  /\ req[r].at = "driving" /\ req[r].mine.next = "await_approval"
  /\ req[r].decision = NoVal
  /\ Moves(r, "returned")
  /\ UNCHANGED <<thread, ledger, row, history>>

\* Mutants: the cycle is not counted; escalate keeps the status of replan.
Replanned_Uncounted(m) == [m EXCEPT !.next = "propose", !.status = "REPLANNING"]
Replanned_Unnamed(m) ==
  [m EXCEPT !.replans = @ + 1, !.status = "REPLANNING",
            !.next = IF m.replans + 1 >= MAX_REPLAN_CYCLES THEN "END" ELSE "propose"]

\* replan and route_after_replan.
Replanned(m) ==
  IF m.replans + 1 >= MAX_REPLAN_CYCLES
    THEN [m EXCEPT !.replans = @ + 1, !.next = "END", !.status = "ESCALATED"]
    ELSE [m EXCEPT !.replans = @ + 1, !.next = "propose", !.status = "REPLANNING"]

\* classify_risk and evaluate_gate.
Classified(m) == IF m.action \in GatedActions
                   THEN [m EXCEPT !.next = "await_approval", !.status = "AWAITING_APPROVAL"]
                   ELSE [m EXCEPT !.next = "execute", !.status = "EXECUTING"]

\* diagnose or replan to a classified proposal, or back to replan where the
\* observations do not bear the proposal out (route_after_proposal).  The
\* reasoner is free.
propose(r) ==
  /\ req[r].at = "driving" /\ req[r].mine.next = "propose"
  /\ \E a \in Actions : LET m == [req[r].mine EXCEPT !.action = a]
                         IN  Saves(r, Classified(m)) \/ Saves(r, Replanned(m))
  /\ UNCHANGED <<ledger, row, history>>

\* revalidate and prepare_execution: the world may have drifted.
Revalidated(m) == {[m EXCEPT !.next = "execute", !.status = "EXECUTING"], Replanned(m)}

\* The decision is for whatever action is pending in the copy.
Answers(m, d) ==
  CASE d = "approved" -> Revalidated(m)
    [] d = "edited"   -> UNION {Revalidated([m EXCEPT !.action = a]) : a \in Actions}
    [] d = "rejected" -> {Replanned(m)}
    [] OTHER          -> {[m EXCEPT !.next = "END", !.status = "ESCALATED"]}

await_approval(r) ==
  /\ req[r].at = "driving" /\ req[r].mine.next = "await_approval"
  /\ req[r].decision # NoVal
  /\ \E m \in Answers(req[r].mine, req[r].decision) : Saves(r, m)
  /\ UNCHANGED <<ledger, row, history>>

\* Mutant: the ledger is not consulted.
lookup_Unkeyed(r) ==
  /\ req[r].at = "driving" /\ req[r].mine.next = "execute"
  /\ Moves(r, "perform")
  /\ raced' = IF \E q \in Requests \ {r} : Acting(q) /\ req[q].mine.action = req[r].mine.action
                THEN raced + 1 ELSE raced
  /\ UNCHANGED <<thread, ledger, row, applied, torn, overlapped, lost, kills>>

\* _run_idempotent: look the key up.
lookup(r) ==
  /\ req[r].at = "driving" /\ req[r].mine.next = "execute"
  /\ req[r].mine.action \notin ledger
  /\ Moves(r, "perform")
  /\ raced' = IF \E q \in Requests \ {r} : Acting(q) /\ req[q].mine.action = req[r].mine.action
                THEN raced + 1 ELSE raced
  /\ UNCHANGED <<thread, ledger, row, applied, torn, overlapped, lost, kills>>

perform(r) ==
  /\ req[r].at = "perform"
  /\ applied' = [applied EXCEPT ![req[r].mine.action] = @ + 1]
  /\ Moves(r, "record")
  /\ UNCHANGED <<thread, ledger, row, raced, torn, overlapped, lost, kills>>

\* ON CONFLICT DO NOTHING.
record(r) ==
  /\ req[r].at = "record"
  /\ ledger' = ledger \cup {req[r].mine.action}
  /\ Moves(r, "recorded")
  /\ UNCHANGED <<thread, row, history>>

executed(r) ==
  /\ req[r].at = "recorded"
  /\ Saves(r, [req[r].mine EXCEPT !.next = "verify"])
  /\ UNCHANGED <<ledger, row, history>>

\* verify, and on failure the rollback and the replan.
verify(r) ==
  /\ req[r].at = "driving" /\ req[r].mine.next = "verify"
  /\ \/ Saves(r, [req[r].mine EXCEPT !.next = "END", !.status = "COMPLETED"])
     \/ Saves(r, Replanned(req[r].mine))
  /\ UNCHANGED <<ledger, row, history>>

\* The environment refuses the call, or the key has a row, whose result the
\* store hands back as text and MutationResult rejects: the request answers 500
\* and the registry is not told.
raises(r) ==
  /\ \/ req[r].at = "perform"
     \/ /\ req[r].at = "driving" /\ req[r].mine.next = "execute"
        /\ req[r].mine.action \in ledger
  /\ Moves(r, "raised") /\ lost' = TRUE
  /\ UNCHANGED <<thread, ledger, row, applied, raced, torn, overlapped, kills>>

\* The process that serves r is killed.
kill(r) ==
  /\ InFlight(r) /\ kills < MaxKills
  /\ Moves(r, "killed") /\ lost' = TRUE /\ kills' = kills + 1
  /\ torn' = IF req[r].at = "record" THEN torn + 1 ELSE torn
  /\ UNCHANGED <<thread, ledger, row, applied, raced, overlapped>>

Serve(r) ==
  \/ resume_workflow(r) \/ upsert(r) \/ propose(r) \/ suspend(r) \/ await_approval(r)
  \/ lookup(r) \/ perform(r) \/ record(r) \/ executed(r) \/ verify(r) \/ raises(r)

Next ==
  \E r \in Requests :
    \/ create_run(r) \/ pending_approval(r) \/ submit_decision(r) \/ refuse_decision(r)
    \/ Serve(r) \/ kill(r)

Spec == Init /\ [][Next]_vars

\* Each server keeps running the request it has accepted.
FairSpec == Spec /\ \A r \in Requests : WF_vars(Serve(r))

-----------------------------------------------------------------------------
(* What the API promises.                                                  *)

\* The checkpoint, the registry and the requests have their types; a row only
\* ever names a status a call can return with, suspended or ended, and the
\* action that goes with it (_to_response).
ApiTypeOK ==
  /\ thread \in Threads /\ ledger \subseteq Actions
  /\ row \in Rows \cup {NoVal}
  /\ req \in [Requests -> [at : RequestAt, mine : Threads,
                           decision : Decisions \cup {NoVal}, shown : Actions \cup {NoVal}]]
  /\ applied \in [Actions -> Nat] /\ raced \in Nat /\ torn \in Nat /\ kills \in Nat
  /\ overlapped \in BOOLEAN /\ lost \in BOOLEAN

\* However decisions, restarts and kills interleave, a side effect is repeated
\* only for a kill between it and its ledger row or for a request that looked
\* the key up while another was acting on it, and that takes two requests in
\* flight at once (_run_idempotent, submit_decision).
DuplicateOnlyIfRacedOrTorn ==
  /\ \A a \in Actions : applied[a] <= 1 + torn + raced
  /\ raced > 0 => overlapped

\* With one request in flight at a time, none of them killed or failed, the
\* registry tells the state of the run whenever nothing is in flight: the
\* queue lists it exactly when it is suspended, with the action that is
\* pending (_sync_registry, list_pending_approval).
QueueIsTrue ==
  ~overlapped /\ ~lost /\ (\A r \in Requests : ~InFlight(r)) =>
    /\ Known <=> thread.next # "none"
    /\ Known => /\ row = Response(thread)
                /\ Listed <=> thread.next = "await_approval"
                /\ Listed \/ thread.next = "END"

\* Every request that was accepted is answered: no run of replans keeps its
\* caller waiting for ever, whatever the other requests do (route_after_replan).
EveryCallReplies == \A r \in Requests : InFlight(r) ~> ~InFlight(r)

\* README.md:3: a human approves, edits or rejects the proposed action: what
\* an approval lets happen is the action its reviewer was shown, at least when
\* requests do not overlap.
ApprovedAsShown ==
  [][\A r \in Requests :
       ~overlapped /\ req[r].decision = "approved" /\ await_approval(r) /\ req'[r].mine.next = "execute"
         => req[r].mine.action = req[r].shown]_vars

=============================================================================
