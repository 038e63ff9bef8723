----------------------------- MODULE Settlement -----------------------------
(***************************************************************************)
(* How the services settle a milestone: HTTP handlers of an API, the CRE   *)
(* workflows they trigger, the transactions these submit to EscrowV3, and  *)
(* the database rows the handlers write around them.                       *)
(*                                                                         *)
(* The repository has two such stacks, told apart by Service:              *)
(*   "shiva": apps/shiva's ContractsController over apps/cre's workflows,  *)
(*   "api":   apps/api's agreements routes over packages/cre's lifecycle.  *)
(*                                                                         *)
(* A handler interleaves with every other at each await; here it moves one *)
(* pc per database write and hands its workflow a pc of its own, since a   *)
(* workflow runs on whether or not the handler that triggered it lives.    *)
(* No handler locks a row or conditions a write on what it read.           *)
(***************************************************************************)
EXTENDS EscrowV3

CONSTANTS
    Service,        \* the stack: "shiva" or "api"
    Requests,       \* the HTTP requests that will be made
    MaxFaults       \* bound on failed calls, lost writes and crashes

ASSUME ServiceAssumption == Service \in {"shiva", "api"} /\ MaxFaults \in Nat

\* initialize() requires milestoneAmounts.length > 0.
ASSUME MilestoneAssumption == Milestones # {}

VARIABLES
    row,        \* milestones table: state, and dispute_window_end (0 is null)
    cases,      \* disputes table, per milestone in order of created_at
    agreement,  \* escrow_agreements_v3.status
    req,        \* the handlers' and their workflows' progress
    faults,     \* failures still to come
    paid        \* history: executeDecision transactions mined per milestone

db == <<row, cases, agreement>>
svars == <<vars, row, cases, agreement, req, faults, paid>>

\* The contract's enum, and the code apps/cre has for RELEASED.
MilestoneStatus == <<"PENDING", "FUNDED", "SUBMITTED", "VERIFYING", "APPROVED",
                     "REJECTED", "DISPUTED", "RELEASED", "CANCELLED">>
ReleasedCode == 8
StatusOfCode(n) == MilestoneStatus[n + 1]

NoBps == -1         \* final_payee_bps is null

\* CHECK (status IN ...) of the disputes table.
CaseStatus == {"OPEN", "L2_RUNNING", "L3_RUNNING", "APPEAL", "FINAL"}

Idle == [kind |-> "none", m |-> CHOOSE m \in Milestones : TRUE, bps |-> 0,
         case |-> 0, pc |-> "idle", wf |-> "none"]

\* The agreement is signed, deployed and announced as funded; on chain the
\* payer funds each milestone when it likes.
SInit ==
    /\ Init
    /\ row = [m \in Milestones |-> [state |-> "FUNDED", windowEnd |-> 0]]
    /\ cases = [m \in Milestones |-> <<>>]
    /\ agreement = "ACTIVE"
    /\ req = [r \in Requests |-> Idle]
    /\ faults = MaxFaults
    /\ paid = [m \in Milestones |-> 0]

Goto(r, pc) == req' = [req EXCEPT ![r].pc = pc]
WfGoto(r, wf) == req' = [req EXCEPT ![r].wf = wf]

\* A request r arrives, and its handler reads what it needs.
Arrive(r, kind, m, bps, case, pc, wf) ==
    /\ req[r].pc = "idle"
    /\ req' = [req EXCEPT ![r] = [kind |-> kind, m |-> m, bps |-> bps,
                                  case |-> case, pc |-> pc, wf |-> wf]]

(* An update of a row.  When it fails, supabase-js returns an error value, *)
(* which no handler looks at: the write is lost and the handler goes on.   *)
Fault == faults > 0 /\ faults' = faults - 1
LostWrite == Fault /\ UNCHANGED db
WriteRow(m, new) ==
    \/ row' = [row EXCEPT ![m] = new] /\ UNCHANGED <<cases, agreement, faults>>
    \/ LostWrite
\* Mutant: the table takes any status.
WriteCaseUnchecked(m, i, status, bps) ==
    \/ /\ cases' = [cases EXCEPT ![m][i] = [status |-> status, finalBps |-> bps]]
       /\ UNCHANGED <<row, agreement, faults>>
    \/ LostWrite

\* A status the table's CHECK refuses is one more write that fails.
WriteCase(m, i, status, bps) ==
    \/ /\ cases' = IF status \in CaseStatus
                   THEN [cases EXCEPT ![m][i] = [status |-> status, finalBps |-> bps]]
                   ELSE cases
       /\ UNCHANGED <<row, agreement, faults>>
    \/ LostWrite
WriteAgreement(status) ==
    \/ agreement' = status /\ UNCHANGED <<row, cases, faults>>
    \/ LostWrite

-----------------------------------------------------------------------------
(* POST .../submit: whatever state the row is in, VERIFYING and, once the  *)
(* verification has answered, APPROVED with a window or REJECTED.          *)
SubmitDeliverable(r, m) ==
    /\ Arrive(r, "submit", m, 0, 0, "uploaded", "none")
    /\ UNCHANGED <<vars, db, faults, paid>>

MarkVerifying(r) ==
    /\ req[r].pc = "uploaded"
    /\ WriteRow(req[r].m, [row[req[r].m] EXCEPT !.state = "VERIFYING"])
    /\ Goto(r, "verifying")
    /\ UNCHANGED <<vars, paid>>

RecordVerification(r) ==
    /\ req[r].pc = "verifying"
    /\ \/ WriteRow(req[r].m, [state |-> "APPROVED", windowEnd |-> now + DisputeWindow])
       \/ WriteRow(req[r].m, [state |-> "REJECTED", windowEnd |-> 0])
    /\ Goto(r, "done")
    /\ UNCHANGED <<vars, paid>>

-----------------------------------------------------------------------------
(* POST .../dispute: a case for a milestone in any state, at any time.     *)
(* Only apps/cre's dispute workflow then locks the milestone on chain.     *)
FileDispute(r, m) ==
    /\ Arrive(r, "dispute", m, 0, Len(cases[m]) + 1, "filed",
              IF Service = "shiva" THEN "untriggered" ELSE "none")
    /\ cases' = [cases EXCEPT ![m] = Append(@, [status |-> "OPEN", finalBps |-> NoBps])]
    /\ UNCHANGED <<vars, row, agreement, faults, paid>>

MarkDisputed(r) ==
    /\ req[r].pc = "filed"
    /\ WriteRow(req[r].m, [row[req[r].m] EXCEPT !.state = "DISPUTED"])
    /\ req' = [req EXCEPT ![r].pc = "arbitrating",
                          ![r].wf = IF Service = "shiva" THEN "locking" ELSE "reporting"]
    /\ UNCHANGED <<vars, paid>>

RecordTribunal(r) ==
    /\ req[r].pc = "judged"
    /\ WriteCase(req[r].m, req[r].case,
                 IF Service = "shiva" THEN "L3_COMPLETE" ELSE "L3_RUNNING",
                 cases[req[r].m][req[r].case].finalBps)
    /\ Goto(r, "done")
    /\ UNCHANGED <<vars, paid>>

-----------------------------------------------------------------------------
(* POST .../finalize: the share is the caller's, or else the latest case's *)
(* last final share or 7000, or all of it when there is no case.           *)
DefaultBps(m) ==
    IF cases[m] = <<>> THEN 10000
    ELSE IF Last(cases[m]).finalBps = NoBps THEN 7000
    ELSE Last(cases[m]).finalBps

Finalize(r, m) ==
    /\ Service = "api" => cases[m] # <<>>
    /\ \E bps \in BpsInputs \cup {DefaultBps(m)} :
          Arrive(r, "finalize", m, bps, Len(cases[m]), "awaiting", "deciding")
    /\ UNCHANGED <<vars, db, faults, paid>>

(* POST .../release, which only "shiva" has: an APPROVED row whose window  *)
(* is over goes to the same workflow, in full.                             *)
Release(r, m) ==
    /\ Service = "shiva"
    /\ row[m].state = "APPROVED"
    /\ row[m].windowEnd <= now
    /\ Arrive(r, "release", m, 10000, 0, "awaiting", "deciding")
    /\ UNCHANGED <<vars, db, faults, paid>>

-----------------------------------------------------------------------------
(* A transaction has its effect or reverts.  The lifecycle workflow throws *)
(* when one reverts; apps/cre takes the hash and goes on.                  *)

\* Mutant: neither workflow looks at the outcome.
OnRevertIgnored(next) == next

OnRevert(next) == IF Service = "api" THEN "thrown" ELSE next

LockOnChain(r) ==
    /\ req[r].wf = "locking"
    /\ IF Lockable(req[r].m) THEN LockMilestone(req[r].m) ELSE UNCHANGED vars
    /\ WfGoto(r, "reporting")
    /\ UNCHANGED <<db, faults, paid>>

Decide(r) ==
    LET m == req[r].m
        accepted == req[r].bps \in Bps /\ ~decision[m].isSet
    IN  /\ req[r].wf = "deciding"
        /\ IF accepted THEN SetDecision(m, req[r].bps, 0, TRUE) ELSE UNCHANGED vars
        /\ WfGoto(r, IF accepted THEN "executing" ELSE OnRevert("executing"))
        /\ UNCHANGED <<db, faults, paid>>

\* Mutant: both workflows set the status themselves.
ExecutedAlwaysCloses == "closing"

\* The step after executeDecision: only apps/cre sets the status itself.
Executed == IF Service = "shiva" THEN "closing" ELSE "reporting"

Execute(r) ==
    LET m == req[r].m
    IN  /\ req[r].wf = "executing"
        /\ IF Executable(m)
           THEN /\ ExecuteDecision(m)
                /\ paid' = [paid EXCEPT ![m] = @ + 1]
                /\ WfGoto(r, Executed)
           ELSE /\ UNCHANGED <<vars, paid>>
                /\ WfGoto(r, OnRevert(Executed))
        /\ UNCHANGED <<db, faults>>

CloseStatus(r) ==
    /\ req[r].wf = "closing"
    /\ SetMilestoneStatus(req[r].m, StatusOfCode(ReleasedCode))
    /\ WfGoto(r, "reporting")
    /\ UNCHANGED <<db, faults, paid>>

\* Callbacks, attestations, documents: nothing the handlers read.
Report(r) ==
    /\ req[r].wf = "reporting"
    /\ WfGoto(r, "returned")
    /\ UNCHANGED <<vars, db, faults, paid>>

\* Any call a workflow makes may fail, before or after it took effect.
WorkflowThrows(r) ==
    /\ req[r].wf \in {"locking", "deciding", "executing", "closing", "reporting"}
    /\ Fault
    /\ WfGoto(r, "thrown")
    /\ UNCHANGED <<vars, db, paid>>

(* triggerCreWorkflow: the handler resumes on the answer.  When the        *)
(* workflow throws, or the connection to it breaks, "shiva" resumes all    *)
(* the same with the result of a fallback; "api" gives up.                 *)
Resume(r, pc) ==
    /\ req[r].pc \in {"awaiting", "arbitrating"}
    /\ Goto(r, pc)
    /\ UNCHANGED <<vars, db, paid>>

AfterCall(r) == IF req[r].pc = "awaiting" THEN "recording" ELSE "judged"

\* Mutant: both services go on without the workflow.
FallbackAlways(r) == AfterCall(r)

Fallback(r) == IF Service = "shiva" THEN AfterCall(r) ELSE "failed"

WorkflowAnswers(r) ==
    /\ \/ req[r].wf = "returned" /\ Resume(r, AfterCall(r))
       \/ req[r].wf = "thrown" /\ Resume(r, Fallback(r))
    /\ UNCHANGED faults

ConnectionBreaks(r) == Fault /\ Resume(r, Fallback(r))

-----------------------------------------------------------------------------
(* After the workflow: the case, the row, the agreement.                   *)
RecordFinal(r) ==
    /\ req[r].pc = "recording"
    /\ IF req[r].case = 0 THEN UNCHANGED <<db, faults>>
       ELSE WriteCase(req[r].m, req[r].case, "FINAL", req[r].bps)
    /\ Goto(r, "releasing")
    /\ UNCHANGED <<vars, paid>>

MarkReleased(r) ==
    /\ req[r].pc = "releasing"
    /\ WriteRow(req[r].m, [row[req[r].m] EXCEPT !.state = "RELEASED"])
    /\ Goto(r, IF Service = "shiva" THEN "counting" ELSE "completing")
    /\ UNCHANGED <<vars, paid>>

CountReleased(r) ==
    /\ req[r].pc = "counting"
    /\ Goto(r, IF \A m \in Milestones : row[m].state = "RELEASED"
               THEN "completing" ELSE "done")
    /\ UNCHANGED <<vars, db, faults, paid>>

Complete(r) ==
    /\ req[r].pc = "completing"
    /\ WriteAgreement("COMPLETED")
    /\ Goto(r, "done")
    /\ UNCHANGED <<vars, paid>>

\* The process dies, or the verifier or the tribunal throws.
HandlerDies(r) ==
    /\ req[r].pc \notin {"idle", "done", "failed"}
    /\ Fault
    /\ Goto(r, "failed")
    /\ UNCHANGED <<vars, db, paid>>

-----------------------------------------------------------------------------
\* What happens of itself once a request is in.
HandlerStep(r) ==
    \/ MarkVerifying(r) \/ RecordVerification(r)
    \/ MarkDisputed(r) \/ RecordTribunal(r)
    \/ WorkflowAnswers(r)
    \/ RecordFinal(r) \/ MarkReleased(r) \/ CountReleased(r) \/ Complete(r)

WorkflowStep(r) ==
    \/ LockOnChain(r) \/ Decide(r) \/ Execute(r) \/ CloseStatus(r) \/ Report(r)

Failure(r) == WorkflowThrows(r) \/ ConnectionBreaks(r) \/ HandlerDies(r)

Request(r) ==
    \E m \in Milestones :
        \/ SubmitDeliverable(r, m) \/ FileDispute(r, m)
        \/ Finalize(r, m) \/ Release(r, m)

\* The parties' own transactions, and time.
ChainStep ==
    /\ Tick \/ \E m \in Milestones : PartyNext(m)
    /\ UNCHANGED <<db, req, faults, paid>>

SNext ==
    \/ \E r \in Requests :
          Request(r) \/ HandlerStep(r) \/ WorkflowStep(r) \/ Failure(r)
    \/ ChainStep

SSpec == SInit /\ [][SNext]_svars

\* Nothing holds up a workflow: no step of it waits for anyone.
FairSSpec == SSpec /\ \A r \in Requests : WF_svars(WorkflowStep(r))

-----------------------------------------------------------------------------
(***************************************************************************)
(* Properties                                                              *)
(***************************************************************************)

\* Shapes of the tables and of the handlers' progress.
SettlementTypeOK ==
    /\ TypeOK
    /\ row \in [Milestones -> [state : Status, windowEnd : Nat]]
    /\ cases \in [Milestones -> Seq([status : CaseStatus, finalBps : Nat \cup {NoBps}])]
    /\ agreement \in {"ACTIVE", "COMPLETED"}
    /\ \A r \in Requests : req[r].case \in 0..Len(cases[req[r].m])
    /\ faults \in Nat
    /\ paid \in [Milestones -> Nat]

\* The escrow pays a milestone at most once, whatever requests overlap and
\* whatever fails (EscrowWithAgentV3.sol:322, "already released").
PaidOnce == \A m \in Milestones : paid[m] <= 1

\* A row only says RELEASED when the escrow has paid the milestone.
ReleasedMeansPaid ==
    \A m \in Milestones : row[m].state = "RELEASED" => paid[m] > 0

\* The share a FINAL case records is the share that was paid: of several
\* finalize requests only the one that set the decision records its share.
FinalMatchesChain ==
    \A m \in Milestones : \A i \in DOMAIN cases[m] :
        cases[m][i].status = "FINAL" =>
            paid[m] > 0 /\ decision[m].payeeBps = cases[m][i].finalBps

\* A milestone that is decided is paid by the next executeDecision, whatever
\* other milestones were paid and bonds taken before: no transaction of a
\* settlement reverts because another settlement emptied the pool.
DecidedIsExecutable ==
    \A m \in Milestones :
        (ms[m].funded /\ decision[m].isSet /\ ms[m].status # "RELEASED")
            => Executable(m)

\* A milestone that is funded and undecided when a workflow is about to decide
\* it gets paid, by that workflow or a competing one, also if the workflow's
\* own setDecision comes too late.  Two things keep it from that: a failed
\* call, and another milestone that was paid twice (run twice), the second
\* time out of this one's deposit.
SettlementPays ==
    \A m \in Milestones :
        (\E r \in Requests :
            /\ req[r].wf = "deciding" /\ req[r].m = m /\ req[r].bps \in Bps
            /\ ms[m].funded /\ ~decision[m].isSet)
        ~> (\/ paid[m] > 0
            \/ \E n \in Milestones : paid[n] > 1
            \/ faults < MaxFaults)

\* error-recovery-matrix.md:206 of a release that reverts, for one because
\* "Escrow not funded": "client.contracts.release() returns success: false".
SuccessMeansPaid ==
    \A r \in Requests :
        (req[r].kind = "release" /\ req[r].pc = "done") => paid[req[r].m] > 0

\* IEscrowWithAgentV3.sol:17, "DISPUTED, // Locked for arbitration": the
\* release of an undisputed milestone pays nothing once a dispute locked it.
ReleaseSparesDisputed ==
    [][\A r \in Requests :
          (req[r].kind = "release" /\ req'[r].wf # req[r].wf /\ ms[req[r].m].locked)
              => paid'[req[r].m] = paid[req[r].m]]_svars
=============================================================================
