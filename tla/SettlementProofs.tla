-------------------------- MODULE SettlementProofs --------------------------
(***************************************************************************)
(* Theorems about Settlement for any milestones, requests, faults and      *)
(* bounds.  Type correctness, and that the contract only ever takes steps  *)
(* of EscrowV3, hold of both services; that the rows agree with the chain, *)
(* that a milestone is paid once and that the others' payments never use   *)
(* up its tokens hold of apps/api alone, whose workflow stops at the first *)
(* revert and sets no status.                                              *)
(***************************************************************************)
EXTENDS Settlement, EscrowPoolProofs

-----------------------------------------------------------------------------
(* The types.                                                              *)

Row == [state : Status, windowEnd : Nat]
Case == [status : CaseStatus, finalBps : Nat \cup {NoBps}]
Kinds == {"none", "submit", "dispute", "finalize", "release"}
Pcs == {"idle", "uploaded", "verifying", "filed", "arbitrating", "judged",
        "awaiting", "recording", "releasing", "counting", "completing",
        "done", "failed"}
Wfs == {"none", "untriggered", "locking", "deciding", "executing", "closing",
        "reporting", "returned", "thrown"}
Progress == [kind : Kinds, m : Milestones, bps : Nat, case : Nat,
             pc : Pcs, wf : Wfs]

Tables ==
    /\ row \in [Milestones -> Row]
    /\ cases \in [Milestones -> Seq(Case)]
    /\ agreement \in {"ACTIVE", "COMPLETED"}
    /\ faults \in Nat

\* A request's case exists, and one that judges a dispute has a case.
CaseExists(r) ==
    /\ req[r].case <= Len(cases[req[r].m])
    /\ req[r].pc \in {"filed", "arbitrating", "judged"} => req[r].case >= 1

Handlers ==
    /\ req \in [Requests -> Progress]
    /\ \A r \in Requests : CaseExists(r)

STypeInv ==
    /\ TypeOK
    /\ Tables
    /\ Handlers
    /\ paid \in [Milestones -> Nat]

LEMMA STypeInvOK == STypeInv => SettlementTypeOK
<1> SUFFICES ASSUME STypeInv PROVE SettlementTypeOK
  OBVIOUS
<1>1. \A r \in Requests : req[r].case \in 0..Len(cases[req[r].m])
  BY DEF STypeInv, Handlers, CaseExists, Progress, Tables
<1> QED BY <1>1 DEF STypeInv, Tables, SettlementTypeOK, Row, Case

\* No case is ever deleted.
LongerCases == \A m \in Milestones : Len(cases[m]) <= Len(cases'[m])

LEMMA RequestType ==
    ASSUME STypeInv, NEW r \in Requests
    PROVE  /\ req[r] \in Progress
           /\ req[r].m \in Milestones /\ req[r].bps \in Nat /\ req[r].case \in Nat
           /\ CaseExists(r)
BY DEF STypeInv, Handlers, Progress

-----------------------------------------------------------------------------
(* Writes of the tables.                                                   *)

LEMMA SameTables ==
    ASSUME STypeInv, UNCHANGED db, faults' = faults
    PROVE  Tables' /\ LongerCases
<1>1. \A m \in Milestones : Len(cases[m]) \in Nat
  BY DEF STypeInv, Tables
<1> QED BY <1>1 DEF STypeInv, Tables, db, LongerCases

LEMMA LostTables ==
    ASSUME STypeInv, LostWrite
    PROVE  Tables' /\ LongerCases
<1>1. \A m \in Milestones : Len(cases[m]) \in Nat
  BY DEF STypeInv, Tables
<1>2. faults' \in Nat
  BY DEF LostWrite, Fault, STypeInv, Tables
<1> QED BY <1>1, <1>2 DEF STypeInv, Tables, db, LongerCases, LostWrite

LEMMA RowTables ==
    ASSUME STypeInv, NEW m \in Milestones, NEW new \in Row, WriteRow(m, new)
    PROVE  Tables' /\ LongerCases
<1>1. CASE LostWrite
  BY <1>1, LostTables
<1>2. CASE row' = [row EXCEPT ![m] = new] /\ UNCHANGED <<cases, agreement, faults>>
  <2>1. \A k \in Milestones : Len(cases[k]) \in Nat
    BY DEF STypeInv, Tables
  <2> QED BY <1>2, <2>1 DEF STypeInv, Tables, LongerCases
<1> QED BY <1>1, <1>2 DEF WriteRow

LEMMA CaseTables ==
    ASSUME STypeInv, NEW m \in Milestones, NEW i \in 1..Len(cases[m]),
           NEW status, NEW bps \in Nat \cup {NoBps}, WriteCase(m, i, status, bps)
    PROVE  Tables' /\ LongerCases
<1>1. CASE LostWrite
  BY <1>1, LostTables
<1>2. CASE cases' = cases /\ UNCHANGED <<row, agreement, faults>>
  BY <1>2, SameTables DEF db
<1>3. CASE /\ status \in CaseStatus
           /\ cases' = [cases EXCEPT ![m][i] = [status |-> status, finalBps |-> bps]]
           /\ UNCHANGED <<row, agreement, faults>>
  <2> DEFINE new == [cases[m] EXCEPT ![i] = [status |-> status, finalBps |-> bps]]
  <2>1. [status |-> status, finalBps |-> bps] \in Case
    BY <1>3 DEF Case
  <2>2. cases[m] \in Seq(Case)
    BY DEF STypeInv, Tables
  <2>3. new \in Seq(Case) /\ Len(new) = Len(cases[m])
    BY <2>1, <2>2
  <2>4. cases' = [cases EXCEPT ![m] = new]
    BY <1>3
  <2>5. \A k \in Milestones : Len(cases[k]) \in Nat
    BY DEF STypeInv, Tables
  <2> HIDE DEF new
  <2> QED BY <1>3, <2>3, <2>4, <2>5 DEF STypeInv, Tables, LongerCases
<1> QED BY <1>1, <1>2, <1>3 DEF WriteCase

LEMMA AgreementTables ==
    ASSUME STypeInv, WriteAgreement("COMPLETED")
    PROVE  Tables' /\ LongerCases
<1>1. CASE LostWrite
  BY <1>1, LostTables
<1>2. CASE agreement' = "COMPLETED" /\ UNCHANGED <<row, cases, faults>>
  <2>1. \A k \in Milestones : Len(cases[k]) \in Nat
    BY DEF STypeInv, Tables
  <2> QED BY <1>2, <2>1 DEF STypeInv, Tables, LongerCases
<1> QED BY <1>1, <1>2 DEF WriteAgreement

-----------------------------------------------------------------------------
(* Moves of the handlers.                                                  *)

\* A request moves to another pc or wf.
LEMMA MoveHandlers ==
    ASSUME STypeInv, LongerCases, Tables', NEW r \in Requests, NEW pc \in Pcs,
           NEW wf \in Wfs,
           req' = [req EXCEPT ![r].pc = pc, ![r].wf = wf],
           pc \in {"filed", "arbitrating", "judged"} => req[r].case >= 1
    PROVE  Handlers'
<1>1. req' \in [Requests -> Progress]
  BY DEF STypeInv, Handlers, Progress
<1>2. ASSUME NEW q \in Requests PROVE CaseExists(q)'
  <2>1. CaseExists(q) /\ req[q].m \in Milestones /\ req[q].case \in Nat
    BY RequestType
  <2>2. /\ req'[q].m = req[q].m /\ req'[q].case = req[q].case
        /\ q = r => req'[q].pc = pc
        /\ q # r => req'[q].pc = req[q].pc
    BY DEF STypeInv, Handlers, Progress
  <2>3. Len(cases[req[q].m]) <= Len(cases'[req[q].m])
    BY <2>1 DEF LongerCases
  <2>4. Len(cases[req[q].m]) \in Nat /\ Len(cases'[req[q].m]) \in Nat
    BY <2>1 DEF STypeInv, Tables
  <2> QED BY <2>1, <2>2, <2>3, <2>4 DEF CaseExists
<1> QED BY <1>1, <1>2 DEF Handlers

LEMMA GotoHandlers ==
    ASSUME STypeInv, LongerCases, Tables', NEW r \in Requests, NEW pc \in Pcs,
           Goto(r, pc),
           pc \in {"filed", "arbitrating", "judged"} => req[r].case >= 1
    PROVE  Handlers'
<1>1. req' = [req EXCEPT ![r].pc = pc, ![r].wf = req[r].wf] /\ req[r].wf \in Wfs
  BY DEF Goto, STypeInv, Handlers, Progress
<1> QED BY <1>1, MoveHandlers

LEMMA WfGotoHandlers ==
    ASSUME STypeInv, LongerCases, Tables', NEW r \in Requests, NEW wf \in Wfs,
           WfGoto(r, wf)
    PROVE  Handlers'
<1>1. req' = [req EXCEPT ![r].pc = req[r].pc, ![r].wf = wf] /\ req[r].pc \in Pcs
  BY DEF WfGoto, STypeInv, Handlers, Progress
<1>2. req[r].pc \in {"filed", "arbitrating", "judged"} => req[r].case >= 1
  BY RequestType DEF CaseExists
<1> QED BY <1>1, <1>2, MoveHandlers

LEMMA ArriveHandlers ==
    ASSUME STypeInv, LongerCases, Tables', NEW r \in Requests, NEW kind \in Kinds,
           NEW m \in Milestones, NEW bps \in Nat, NEW case \in Nat,
           NEW pc \in Pcs, NEW wf \in Wfs,
           Arrive(r, kind, m, bps, case, pc, wf),
           case <= Len(cases'[m]),
           pc \in {"filed", "arbitrating", "judged"} => case >= 1
    PROVE  Handlers'
<1> DEFINE new == [kind |-> kind, m |-> m, bps |-> bps, case |-> case,
                   pc |-> pc, wf |-> wf]
<1>1. new \in Progress
  BY DEF Progress
<1>2. req' = [req EXCEPT ![r] = new]
  BY DEF Arrive
<1>3. req' \in [Requests -> Progress]
  <2> HIDE DEF new
  <2> QED BY <1>1, <1>2 DEF STypeInv, Handlers
<1>4. ASSUME NEW q \in Requests PROVE CaseExists(q)'
  <2>1. CASE q = r
    <3>1. req'[q] = new
      BY <1>2, <2>1 DEF STypeInv, Handlers
    <3> QED BY <3>1 DEF CaseExists
  <2>2. CASE q # r
    <3>1. req'[q] = req[q]
      BY <1>2, <2>2 DEF STypeInv, Handlers
    <3>2. CaseExists(q) /\ req[q].m \in Milestones /\ req[q].case \in Nat
      BY RequestType
    <3>3. /\ Len(cases[req[q].m]) <= Len(cases'[req[q].m])
          /\ Len(cases[req[q].m]) \in Nat /\ Len(cases'[req[q].m]) \in Nat
      BY <3>2 DEF LongerCases, STypeInv, Tables
    <3> QED BY <3>1, <3>2, <3>3 DEF CaseExists
  <2> QED BY <2>1, <2>2
<1> QED BY <1>3, <1>4 DEF Handlers

-----------------------------------------------------------------------------
(* Type correctness, action by action.                                     *)

LEMMA SInitType == SInit => STypeInv
<1> SUFFICES ASSUME SInit PROVE STypeInv
  OBVIOUS
<1>1. TypeOK
  BY InitType DEF SInit
<1>2. Tables
  BY ServiceAssumption DEF SInit, Tables, Row, Status, Case
<1>3. Idle \in Progress
  BY MilestoneAssumption DEF Idle, Progress, Kinds, Pcs, Wfs
<1>4. Handlers
  <2>1. req \in [Requests -> Progress]
    BY <1>3 DEF SInit
  <2>2. ASSUME NEW r \in Requests PROVE CaseExists(r)
    BY <2>1 DEF SInit, Idle, CaseExists, Progress
  <2> QED BY <2>1, <2>2 DEF Handlers
<1>5. paid \in [Milestones -> Nat]
  BY DEF SInit
<1> QED BY <1>1, <1>2, <1>4, <1>5 DEF STypeInv

LEMMA SameChain ==
    ASSUME TypeOK, UNCHANGED vars
    PROVE  TypeOK'
BY DEF vars, TypeOK

\* A step of a handler: the chain and the history stay as they are.
LEMMA HandlerType ==
    ASSUME STypeInv, UNCHANGED vars, paid' = paid, Tables', Handlers'
    PROVE  STypeInv'
BY SameChain DEF STypeInv

LEMMA SubmitType ==
    ASSUME STypeInv, NEW r \in Requests,
           MarkVerifying(r) \/ RecordVerification(r)
    PROVE  STypeInv'
<1> DEFINE verifying == [row[req[r].m] EXCEPT !.state = "VERIFYING"]
           approved == [state |-> "APPROVED", windowEnd |-> now + DisputeWindow]
           rejected == [state |-> "REJECTED", windowEnd |-> 0]
<1>1. verifying \in Row /\ approved \in Row /\ rejected \in Row
  <2>1. row[req[r].m] \in Row /\ now + DisputeWindow \in Nat
    BY RequestType, WindowAssumption DEF STypeInv, TypeOK, Tables
  <2> QED BY <2>1 DEF Row, Status
<1> HIDE DEF verifying, approved, rejected
<1>2. Tables' /\ LongerCases
  <2>1. \E new \in Row : WriteRow(req[r].m, new)
    BY <1>1 DEF MarkVerifying, RecordVerification, verifying, approved, rejected
  <2> QED BY <2>1, RequestType, RowTables
<1>3. Goto(r, "verifying") \/ Goto(r, "done")
  BY DEF MarkVerifying, RecordVerification
<1>4. Handlers'
  BY <1>2, <1>3, GotoHandlers DEF Pcs
<1> QED BY <1>2, <1>4, HandlerType DEF MarkVerifying, RecordVerification

LEMMA DisputeCaseType ==
    ASSUME STypeInv, NEW r \in Requests, NEW m \in Milestones, FileDispute(r, m)
    PROVE  STypeInv'
<1> DEFINE open == [status |-> "OPEN", finalBps |-> NoBps]
           wf == IF Service = "shiva" THEN "untriggered" ELSE "none"
<1>1. open \in Case
  BY DEF Case, CaseStatus
<1>2. cases[m] \in Seq(Case) /\ \A k \in Milestones : Len(cases[k]) \in Nat
  BY DEF STypeInv, Tables
<1>3. cases' = [cases EXCEPT ![m] = Append(cases[m], open)]
  BY DEF FileDispute
<1> HIDE DEF open
<1>4. /\ Append(cases[m], open) \in Seq(Case)
      /\ Len(Append(cases[m], open)) = Len(cases[m]) + 1
  BY <1>1, <1>2
<1>5. Tables' /\ LongerCases /\ Len(cases'[m]) = Len(cases[m]) + 1
  BY <1>2, <1>3, <1>4 DEF FileDispute, STypeInv, Tables, LongerCases
<1>6. Arrive(r, "dispute", m, 0, Len(cases[m]) + 1, "filed", wf)
  BY DEF FileDispute
<1>7. Handlers'
  <2>1. wf \in Wfs
    BY DEF Wfs
  <2> HIDE DEF wf
  <2> QED BY <1>2, <1>5, <1>6, <2>1, ArriveHandlers DEF Pcs, Kinds
<1> QED BY <1>5, <1>7, HandlerType DEF FileDispute

LEMMA MarkDisputedType ==
    ASSUME STypeInv, NEW r \in Requests, MarkDisputed(r)
    PROVE  STypeInv'
<1> DEFINE disputed == [row[req[r].m] EXCEPT !.state = "DISPUTED"]
           wf == IF Service = "shiva" THEN "locking" ELSE "reporting"
<1>1. disputed \in Row
  BY RequestType DEF STypeInv, Tables, Row, Status
<1>2. Tables' /\ LongerCases
  BY <1>1, RequestType, RowTables DEF MarkDisputed
<1>3. req[r].case >= 1
  BY RequestType DEF CaseExists, MarkDisputed
<1>4. wf \in Wfs /\ req' = [req EXCEPT ![r].pc = "arbitrating", ![r].wf = wf]
  BY DEF MarkDisputed, Wfs
<1>5. Handlers'
  <2> HIDE DEF wf
  <2> QED BY <1>2, <1>3, <1>4, MoveHandlers DEF Pcs
<1> QED BY <1>2, <1>5, HandlerType DEF MarkDisputed

LEMMA RecordTribunalType ==
    ASSUME STypeInv, NEW r \in Requests, RecordTribunal(r)
    PROVE  STypeInv'
<1> DEFINE m == req[r].m
           i == req[r].case
<1>1. m \in Milestones /\ i \in 1..Len(cases[m]) /\ cases[m] \in Seq(Case)
  BY RequestType DEF CaseExists, RecordTribunal, STypeInv, Tables
<1>2. cases[m][i].finalBps \in Nat \cup {NoBps}
  <2>1. cases[m][i] \in Case
    <3> HIDE DEF m, i
    <3> QED BY <1>1
  <2> QED BY <2>1 DEF Case
<1>3. \E status : WriteCase(m, i, status, cases[m][i].finalBps)
  BY DEF RecordTribunal
<1>4. Tables' /\ LongerCases
  <2> HIDE DEF m, i
  <2> QED BY <1>1, <1>2, <1>3, CaseTables
<1>5. Goto(r, "done")
  BY DEF RecordTribunal
<1>6. Handlers'
  BY <1>4, <1>5, GotoHandlers DEF Pcs
<1> QED BY <1>4, <1>6, HandlerType DEF RecordTribunal

LEMMA RequestSettlementType ==
    ASSUME STypeInv, NEW r \in Requests, NEW m \in Milestones,
           SubmitDeliverable(r, m) \/ Finalize(r, m) \/ Release(r, m)
    PROVE  STypeInv'
<1>1. /\ UNCHANGED vars /\ UNCHANGED db /\ faults' = faults /\ paid' = paid
  BY DEF SubmitDeliverable, Finalize, Release
<1>2. Tables' /\ LongerCases
  BY <1>1, SameTables
<1>3. cases[m] \in Seq(Case) /\ Len(cases[m]) \in Nat
  BY DEF STypeInv, Tables
<1>4. DefaultBps(m) \in Nat
  <2>1. CASE cases[m] = <<>>
    BY <2>1 DEF DefaultBps
  <2>2. CASE cases[m] # <<>>
    <3>1. Last(cases[m]) \in Case
      BY <1>3, <2>2 DEF Last
    <3> QED BY <2>2, <3>1 DEF DefaultBps, Case
  <2> QED BY <2>1, <2>2
<1>5. \E kind \in Kinds, bps \in Nat, case \in {0, Len(cases[m])},
         pc \in {"uploaded", "awaiting"}, wf \in {"none", "deciding"} :
            Arrive(r, kind, m, bps, case, pc, wf)
  BY <1>4, InputAssumption DEF SubmitDeliverable, Finalize, Release,
                         Kinds, Pcs, Wfs
<1>6. cases' = cases
  BY <1>1 DEF db
<1>7. Handlers'
  BY <1>2, <1>3, <1>5, <1>6, ArriveHandlers DEF Pcs, Wfs
<1> QED BY <1>1, <1>2, <1>7, HandlerType
-----------------------------------------------------------------------------
(* The workflows' transactions, and the writes after them.                 *)

\* A step of a workflow writes no table.
LEMMA WorkflowType ==
    ASSUME STypeInv, NEW r \in Requests, NEW wf \in Wfs, WfGoto(r, wf),
           UNCHANGED db, faults' = faults, TypeOK',
           paid' \in [Milestones -> Nat]
    PROVE  STypeInv'
<1>1. Tables' /\ LongerCases
  BY SameTables
<1>2. Handlers'
  BY <1>1, WfGotoHandlers
<1> QED BY <1>1, <1>2 DEF STypeInv

LEMMA OnRevertType == \A wf \in Wfs : OnRevert(wf) \in Wfs
BY DEF OnRevert, Wfs

LEMMA LockOnChainType ==
    ASSUME STypeInv, NEW r \in Requests, LockOnChain(r)
    PROVE  STypeInv'
<1>1. TypeOK'
  <2>1. LockMilestone(req[r].m) \/ UNCHANGED vars
    BY DEF LockOnChain
  <2> QED BY <2>1, RequestType, LockMilestoneType, SameChain DEF STypeInv
<1>2. WfGoto(r, "reporting") /\ "reporting" \in Wfs
  BY DEF LockOnChain, Wfs
<1> QED BY <1>1, <1>2, WorkflowType DEF LockOnChain, STypeInv

\* The decision is in range, whichever the share asked for.
LEMMA DecideChain ==
    ASSUME TypeOK, NEW m \in Milestones, NEW bps, SetDecision(m, bps, 0, TRUE)
    PROVE  TypeOK'
<1> DEFINE d == [isSet |-> TRUE, payeeBps |-> bps, extra |-> 0, payable |-> TRUE]
<1>1. d \in Decision /\ decision' = [decision EXCEPT ![m] = d]
  BY DEF SetDecision, Decision
<1>2. decision' \in [Milestones -> Decision]
  <2> HIDE DEF d
  <2> QED BY <1>1 DEF TypeOK
<1> QED BY <1>2 DEF SetDecision, TypeOK

LEMMA DecideType ==
    ASSUME STypeInv, NEW r \in Requests, Decide(r)
    PROVE  STypeInv'
<1>1. TypeOK'
  <2>1. SetDecision(req[r].m, req[r].bps, 0, TRUE) \/ UNCHANGED vars
    BY DEF Decide
  <2> QED BY <2>1, RequestType, DecideChain, SameChain DEF STypeInv
<1>2. \E wf \in Wfs : WfGoto(r, wf)
  BY OnRevertType DEF Decide, Wfs
<1> QED BY <1>1, <1>2, WorkflowType DEF Decide, STypeInv

LEMMA ExecuteSettlementType ==
    ASSUME STypeInv, NEW r \in Requests, Execute(r)
    PROVE  STypeInv'
<1> DEFINE m == req[r].m
<1>1. m \in Milestones /\ paid \in [Milestones -> Nat]
  BY RequestType DEF STypeInv
<1>2. \/ ExecuteDecision(m) /\ paid' = [paid EXCEPT ![m] = @ + 1]
      \/ UNCHANGED vars /\ paid' = paid
  BY DEF Execute
<1>3. TypeOK' /\ paid' \in [Milestones -> Nat]
  <2> HIDE DEF m
  <2> QED BY <1>1, <1>2, ExecuteType, SameChain DEF STypeInv
<1>4. \E wf \in Wfs : WfGoto(r, wf)
  BY OnRevertType DEF Execute, Executed, Wfs
<1> QED BY <1>3, <1>4, WorkflowType DEF Execute

LEMMA CloseType ==
    ASSUME STypeInv, NEW r \in Requests, CloseStatus(r)
    PROVE  STypeInv'
<1>1. StatusOfCode(ReleasedCode) \in Status
  BY DEF StatusOfCode, ReleasedCode, MilestoneStatus, Status
<1>2. TypeOK'
  BY <1>1, RequestType, StatusType DEF CloseStatus, STypeInv
<1>3. WfGoto(r, "reporting") /\ "reporting" \in Wfs
  BY DEF CloseStatus, Wfs
<1> QED BY <1>2, <1>3, WorkflowType DEF CloseStatus, STypeInv

LEMMA ReportType ==
    ASSUME STypeInv, NEW r \in Requests, Report(r)
    PROVE  STypeInv'
<1>1. WfGoto(r, "returned") /\ "returned" \in Wfs
  BY DEF Report, Wfs
<1> QED BY <1>1, WorkflowType, SameChain DEF Report, STypeInv

\* A failure takes one of the faults left, and writes nothing.
LEMMA FaultTables ==
    ASSUME STypeInv, Fault, UNCHANGED db
    PROVE  Tables' /\ LongerCases
BY LostTables DEF LostWrite

LEMMA ThrowType ==
    ASSUME STypeInv, NEW r \in Requests, WorkflowThrows(r)
    PROVE  STypeInv'
<1>1. Tables' /\ LongerCases
  BY FaultTables DEF WorkflowThrows
<1>2. Handlers'
  BY <1>1, WfGotoHandlers DEF WorkflowThrows, Wfs
<1> QED BY <1>1, <1>2, HandlerType DEF WorkflowThrows

LEMMA ResumeType ==
    ASSUME STypeInv, NEW r \in Requests,
           WorkflowAnswers(r) \/ ConnectionBreaks(r) \/ HandlerDies(r)
    PROVE  STypeInv'
<1>1. UNCHANGED db /\ UNCHANGED vars /\ paid' = paid
  BY DEF WorkflowAnswers, ConnectionBreaks, HandlerDies, Resume
<1>2. Tables' /\ LongerCases
  BY <1>1, SameTables, FaultTables DEF WorkflowAnswers, ConnectionBreaks, HandlerDies
<1>3. AfterCall(r) = "judged" /\ Resume(r, AfterCall(r)) => req[r].case >= 1
  BY RequestType DEF AfterCall, Resume, CaseExists
<1>4. \/ Goto(r, AfterCall(r)) /\ Resume(r, AfterCall(r))
      \/ Goto(r, "failed")
  BY DEF WorkflowAnswers, ConnectionBreaks, HandlerDies, Fallback, Resume
<1>5. AfterCall(r) \in {"recording", "judged"}
  BY DEF AfterCall
<1>6. Handlers'
  BY <1>2, <1>3, <1>4, <1>5, GotoHandlers DEF Pcs
<1> QED BY <1>1, <1>2, <1>6, HandlerType

LEMMA RecordType ==
    ASSUME STypeInv, NEW r \in Requests, RecordFinal(r)
    PROVE  STypeInv'
<1> DEFINE m == req[r].m
           i == req[r].case
           bps == req[r].bps
<1>1. m \in Milestones /\ i \in Nat /\ bps \in Nat /\ i <= Len(cases[m])
  BY RequestType DEF CaseExists
<1>2. Tables' /\ LongerCases
  <2>1. CASE i = 0
    BY <2>1, SameTables DEF RecordFinal
  <2>2. CASE i # 0
    <3>1. WriteCase(m, i, "FINAL", bps)
      BY <2>2 DEF RecordFinal
    <3>2. i \in 1..Len(cases[m])
      <4>1. Len(cases[m]) \in Nat
        BY <1>1 DEF STypeInv, Tables
      <4> QED BY <1>1, <2>2, <4>1
    <3> HIDE DEF m, i, bps
    <3> QED BY <1>1, <3>1, <3>2, CaseTables
  <2> QED BY <2>1, <2>2
<1>3. Goto(r, "releasing")
  BY DEF RecordFinal
<1>4. Handlers'
  BY <1>2, <1>3, GotoHandlers DEF Pcs
<1> QED BY <1>2, <1>4, HandlerType DEF RecordFinal

LEMMA ReleaseRowType ==
    ASSUME STypeInv, NEW r \in Requests, MarkReleased(r)
    PROVE  STypeInv'
<1> DEFINE new == [row[req[r].m] EXCEPT !.state = "RELEASED"]
<1>1. new \in Row
  BY RequestType DEF STypeInv, Tables, Row, Status
<1>2. Tables' /\ LongerCases
  BY <1>1, RequestType, RowTables DEF MarkReleased
<1>3. \E pc \in {"counting", "completing"} : Goto(r, pc)
  BY DEF MarkReleased
<1>4. Handlers'
  BY <1>2, <1>3, GotoHandlers DEF Pcs
<1> QED BY <1>2, <1>4, HandlerType DEF MarkReleased

LEMMA CompleteType ==
    ASSUME STypeInv, NEW r \in Requests, CountReleased(r) \/ Complete(r)
    PROVE  STypeInv'
<1>1. Tables' /\ LongerCases
  BY SameTables, AgreementTables DEF CountReleased, Complete
<1>2. \E pc \in {"completing", "done"} : Goto(r, pc)
  BY DEF CountReleased, Complete
<1>3. Handlers'
  BY <1>1, <1>2, GotoHandlers DEF Pcs
<1> QED BY <1>1, <1>3, HandlerType DEF CountReleased, Complete

LEMMA PartyType ==
    ASSUME STypeInv, ChainStep
    PROVE  STypeInv'
<1>1. TypeOK'
  <2>1. Tick => TypeOK'
    BY DEF Tick, STypeInv, TypeOK
  <2>2. ASSUME NEW m \in Milestones, PartyNext(m) PROVE TypeOK'
    BY <2>2, FundType, DisputeType, AppealType DEF PartyNext, STypeInv
  <2> QED BY <2>1, <2>2 DEF ChainStep
<1>2. Tables' /\ LongerCases
  BY SameTables DEF ChainStep
<1>3. Handlers'
  BY DEF ChainStep, db, STypeInv, Handlers, CaseExists
<1> QED BY <1>1, <1>2, <1>3 DEF ChainStep, STypeInv

LEMMA STypeStep == STypeInv /\ [SNext]_svars => STypeInv'
<1> SUFFICES ASSUME STypeInv, [SNext]_svars PROVE STypeInv'
  OBVIOUS
<1>1. ASSUME NEW r \in Requests, Request(r) PROVE STypeInv'
  BY <1>1, DisputeCaseType, RequestSettlementType DEF Request
<1>2. ASSUME NEW r \in Requests, HandlerStep(r) PROVE STypeInv'
  BY <1>2, SubmitType, MarkDisputedType, RecordTribunalType, ResumeType,
     RecordType, ReleaseRowType, CompleteType DEF HandlerStep
<1>3. ASSUME NEW r \in Requests, WorkflowStep(r) PROVE STypeInv'
  BY <1>3, LockOnChainType, DecideType, ExecuteSettlementType, CloseType,
     ReportType DEF WorkflowStep
<1>4. ASSUME NEW r \in Requests, Failure(r) PROVE STypeInv'
  BY <1>4, ThrowType, ResumeType DEF Failure
<1>5. CASE ChainStep
  BY <1>5, PartyType
<1>6. CASE UNCHANGED svars
  BY <1>6 DEF svars, vars, STypeInv, TypeOK, Tables, Handlers, CaseExists
<1> QED BY <1>1, <1>2, <1>3, <1>4, <1>5, <1>6 DEF SNext

LEMMA STypeInvariant == SSpec => []STypeInv
BY SInitType, STypeStep, PTL DEF SSpec

\* The tables, the handlers' progress and the contract stay well typed under
\* every interleaving of requests and failures, in both services.
THEOREM SettlementTypeCorrect == SSpec => []SettlementTypeOK
BY STypeInvariant, STypeInvOK, PTL
-----------------------------------------------------------------------------
(* The contract under the settlement is EscrowV3: whatever the workflows   *)
(* send, it only takes steps of its own specification, so that its         *)
(* theorems hold of it.  The workflows' decisions carry no extra payouts   *)
(* and any share in range.                                                 *)

AnyShare == Bps \subseteq BpsInputs /\ 0 \in ExtraInputs

LEMMA EscrowStep ==
    ASSUME AnyShare, STypeInv, [SNext]_svars
    PROVE  [Next]_vars
<1>1. ASSUME NEW r \in Requests, Request(r) PROVE [Next]_vars
  BY <1>1 DEF Request, SubmitDeliverable, FileDispute, Finalize, Release
<1>2. ASSUME NEW r \in Requests, HandlerStep(r) PROVE [Next]_vars
  BY <1>2 DEF HandlerStep, MarkVerifying, RecordVerification, MarkDisputed,
              RecordTribunal, WorkflowAnswers, Resume, RecordFinal,
              MarkReleased, CountReleased, Complete
<1>3. ASSUME NEW r \in Requests, WorkflowStep(r) PROVE [Next]_vars
  <2>1. req[r].m \in Milestones
    BY RequestType
  <2>2. CASE LockOnChain(r)
    BY <2>1, <2>2 DEF LockOnChain, Next, ExecutorNext
  <2>3. CASE Decide(r)
    <3>1. SetDecision(req[r].m, req[r].bps, 0, TRUE) => req[r].bps \in BpsInputs
      BY DEF SetDecision, AnyShare
    <3>2. SetDecision(req[r].m, req[r].bps, 0, TRUE) => ExecutorNext(req[r].m)
      BY <3>1 DEF AnyShare, ExecutorNext
    <3> QED BY <2>1, <2>3, <3>2 DEF Decide, Next
  <2>4. CASE Execute(r)
    BY <2>1, <2>4 DEF Execute, Next, ExecutorNext
  <2>5. CASE CloseStatus(r)
    <3>1. StatusOfCode(ReleasedCode) \in Status
      BY DEF StatusOfCode, ReleasedCode, MilestoneStatus, Status
    <3> QED BY <2>1, <2>5, <3>1 DEF CloseStatus, Next, ExecutorNext
  <2>6. CASE Report(r)
    BY <2>6 DEF Report
  <2> QED BY <1>3, <2>2, <2>3, <2>4, <2>5, <2>6 DEF WorkflowStep
<1>4. ASSUME NEW r \in Requests, Failure(r) PROVE [Next]_vars
  BY <1>4 DEF Failure, WorkflowThrows, ConnectionBreaks, HandlerDies, Resume
<1>5. CASE ChainStep
  BY <1>5 DEF ChainStep, Next
<1>6. CASE UNCHANGED svars
  BY <1>6 DEF svars
<1> QED BY <1>1, <1>2, <1>3, <1>4, <1>5, <1>6 DEF SNext

\* Both services use the escrow as its specification allows, and no step of
\* theirs has an effect on it that a call of its functions does not have.
THEOREM SettlementImplementsEscrow == AnyShare => (SSpec => Spec)
<1> SUFFICES ASSUME AnyShare PROVE SSpec => Spec
  OBVIOUS
<1>1. SInit => Init
  BY DEF SInit
<1>2. STypeInv /\ [SNext]_svars => [Next]_vars
  BY EscrowStep
<1> QED BY <1>1, <1>2, STypeInvariant, PTL DEF SSpec, Spec

\* Even where a milestone is paid twice, no token is made or lost, and nobody
\* is charged twice for one dispute.
THEOREM SettlementConserves == AnyShare => (SSpec => [](Conserved /\ NoDoubleStake))
<1> SUFFICES ASSUME AnyShare PROVE SSpec => [](Conserved /\ NoDoubleStake)
  OBVIOUS
<1> QED BY SettlementImplementsEscrow, EscrowConserved, EscrowNoDoubleStake, PTL

-----------------------------------------------------------------------------
(* apps/api.  A request that settles has either not got its decision, or   *)
(* has its share decided; from the moment its workflow has executed it,    *)
(* the milestone is paid.                                                  *)

Settled(r) ==
    /\ paid[req[r].m] > 0
    /\ decision[req[r].m].isSet
    /\ decision[req[r].m].payeeBps = req[r].bps

ApiRequest(r) ==
    /\ req[r].wf \notin {"untriggered", "locking", "closing"}
    /\ req[r].wf = "executing" => /\ decision[req[r].m].isSet
                                  /\ decision[req[r].m].payeeBps = req[r].bps
    /\ req[r].pc = "awaiting" /\ req[r].wf \in {"reporting", "returned"}
          => Settled(r)
    /\ req[r].pc \in {"recording", "releasing", "counting", "completing"} => Settled(r)

ApiRow(m) == row[m].state = "RELEASED" => paid[m] > 0

ApiCases(m) ==
    \A i \in DOMAIN cases[m] :
        cases[m][i].status = "FINAL" =>
            /\ paid[m] > 0 /\ decision[m].isSet
            /\ decision[m].payeeBps = cases[m][i].finalBps

\* Nothing takes a milestone out of RELEASED but CloseStatus.
ApiPaid(m) ==
    /\ paid[m] > 0 => ms[m].status = "RELEASED"
    /\ paid[m] <= 1

ApiInv ==
    /\ STypeInv
    /\ \A r \in Requests : ApiRequest(r)
    /\ \A m \in Milestones : ApiRow(m) /\ ApiCases(m) /\ ApiPaid(m)

\* What holds of a milestone's payment and decision goes on holding.
Monotone ==
    \A m \in Milestones :
        /\ paid[m] <= paid'[m]
        /\ decision[m].isSet => decision'[m] = decision[m]

LEMMA SInitApi == Service = "api" /\ SInit => ApiInv
<1> SUFFICES ASSUME SInit PROVE ApiInv
  OBVIOUS
<1>1. STypeInv
  BY SInitType
<1>2. \A r \in Requests : ApiRequest(r)
  BY DEF SInit, Idle, ApiRequest
<1>3. \A m \in Milestones : ApiRow(m) /\ ApiCases(m) /\ ApiPaid(m)
  BY DEF SInit, ApiRow, ApiCases, ApiPaid
<1> QED BY <1>1, <1>2, <1>3 DEF ApiInv

\* Requests, rows, cases and payments a step leaves alone.
LEMMA RequestKept ==
    ASSUME ApiInv, Monotone, STypeInv', NEW r \in Requests, req'[r] = req[r]
    PROVE  ApiRequest(r)'
<1>1. ApiRequest(r) /\ req[r].m \in Milestones
  BY RequestType DEF ApiInv
<1>2. paid[req[r].m] \in Nat /\ paid'[req[r].m] \in Nat
  BY <1>1 DEF ApiInv, STypeInv
<1> QED BY <1>1, <1>2 DEF Monotone, ApiRequest, Settled

LEMMA RowKept ==
    ASSUME ApiInv, Monotone, STypeInv', NEW m \in Milestones, row'[m] = row[m]
    PROVE  ApiRow(m)'
<1>1. ApiRow(m) /\ paid[m] \in Nat /\ paid'[m] \in Nat
  BY DEF ApiInv, STypeInv
<1> QED BY <1>1 DEF Monotone, ApiRow

LEMMA CasesKept ==
    ASSUME ApiInv, Monotone, STypeInv', NEW m \in Milestones,
           \A i \in DOMAIN cases'[m] :
              cases'[m][i].status = "FINAL" =>
                 i \in DOMAIN cases[m] /\ cases'[m][i] = cases[m][i]
    PROVE  ApiCases(m)'
<1>1. ApiCases(m) /\ paid[m] \in Nat /\ paid'[m] \in Nat
  BY DEF ApiInv, STypeInv
<1> QED BY <1>1 DEF Monotone, ApiCases

LEMMA PaidKept ==
    ASSUME ApiInv, NEW m \in Milestones, paid'[m] = paid[m],
           ms'[m].status = ms[m].status \/ ms[m].status # "RELEASED"
    PROVE  ApiPaid(m)'
BY DEF ApiInv, ApiPaid
\* A step of one request, put together.
LEMMA OneRequest ==
    ASSUME ApiInv, STypeInv', Monotone, NEW r \in Requests,
           \A q \in Requests \ {r} : req'[q] = req[q],
           ApiRequest(r)',
           \A m \in Milestones : ApiRow(m)' /\ ApiCases(m)' /\ ApiPaid(m)'
    PROVE  ApiInv'
<1>1. \A q \in Requests : ApiRequest(q)'
  BY RequestKept
<1> QED BY <1>1 DEF ApiInv

\* A step that leaves the chain alone.
LEMMA ChainKept ==
    ASSUME ApiInv, UNCHANGED vars, paid' = paid
    PROVE  /\ Monotone
           /\ \A m \in Milestones : ApiPaid(m)'
<1>1. /\ \A m \in Milestones : paid[m] \in Nat
      /\ ms' = ms /\ decision' = decision
  BY DEF ApiInv, STypeInv, vars
<1>2. Monotone
  BY <1>1 DEF Monotone
<1> QED BY <1>1, <1>2, PaidKept

\* A step that leaves the tables alone.
LEMMA TablesKept ==
    ASSUME ApiInv, STypeInv', Monotone, UNCHANGED db
    PROVE  \A m \in Milestones : ApiRow(m)' /\ ApiCases(m)'
BY RowKept, CasesKept DEF db

\* Only a write of a RELEASED row of a milestone that is not paid could spoil
\* the rows, and only that of a FINAL case the cases.
LEMMA RowWritten ==
    ASSUME ApiInv, STypeInv', Monotone, NEW k \in Milestones, NEW new \in Row,
           WriteRow(k, new), new.state = "RELEASED" => paid'[k] > 0
    PROVE  \A m \in Milestones : ApiRow(m)' /\ ApiCases(m)'
<1>1. CASE LostWrite
  BY <1>1, TablesKept DEF LostWrite
<1>2. CASE row' = [row EXCEPT ![k] = new] /\ UNCHANGED <<cases, agreement, faults>>
  <2>1. row \in [Milestones -> Row]
    BY DEF ApiInv, STypeInv, Tables
  <2>2. ASSUME NEW m \in Milestones PROVE ApiRow(m)'
    <3>1. CASE m = k
      BY <1>2, <2>1, <3>1 DEF ApiRow
    <3>2. CASE m # k
      BY <1>2, <2>1, <3>2, RowKept
    <3> QED BY <3>1, <3>2
  <2>3. \A m \in Milestones : ApiCases(m)'
    BY <1>2, CasesKept
  <2> QED BY <2>2, <2>3
<1> QED BY <1>1, <1>2 DEF WriteRow

LEMMA CaseWritten ==
    ASSUME ApiInv, STypeInv', Monotone, NEW k \in Milestones,
           NEW i \in 1..Len(cases[k]), NEW status, NEW bps,
           WriteCase(k, i, status, bps),
           status = "FINAL" => /\ paid'[k] > 0 /\ decision'[k].isSet
                               /\ decision'[k].payeeBps = bps
    PROVE  \A m \in Milestones : ApiRow(m)' /\ ApiCases(m)'
<1>1. CASE LostWrite
  BY <1>1, TablesKept DEF LostWrite
<1>2. CASE cases' = cases /\ UNCHANGED <<row, agreement, faults>>
  BY <1>2, TablesKept DEF db
<1>3. CASE /\ cases' = [cases EXCEPT ![k][i] = [status |-> status, finalBps |-> bps]]
           /\ UNCHANGED <<row, agreement, faults>>
  <2> DEFINE new == [status |-> status, finalBps |-> bps]
             seq == [cases[k] EXCEPT ![i] = new]
  <2>1. cases \in [Milestones -> Seq(Case)] /\ cases[k] \in Seq(Case)
    BY DEF ApiInv, STypeInv, Tables
  <2>2. cases' = [cases EXCEPT ![k] = seq]
    BY <1>3
  <2>3. /\ DOMAIN seq = DOMAIN cases[k] /\ seq[i] = new
        /\ \A j \in DOMAIN seq \ {i} : seq[j] = cases[k][j]
    BY <2>1
  <2>4. ASSUME NEW m \in Milestones PROVE ApiCases(m)'
    <3> HIDE DEF seq
    <3>1. CASE m # k
      BY <2>1, <2>2, <3>1, CasesKept
    <3>2. CASE m = k
      <4>1. cases'[m] = seq
        BY <2>1, <2>2, <3>2
      <4>2. CASE status # "FINAL"
        BY <2>3, <3>2, <4>1, <4>2, CasesKept
      <4>3. CASE status = "FINAL"
        <5>1. \A j \in DOMAIN seq \ {i} :
                 seq[j].status = "FINAL" =>
                    /\ paid'[m] > 0 /\ decision'[m].isSet
                    /\ decision'[m].payeeBps = seq[j].finalBps
          <6>1. ApiCases(m) /\ paid[m] \in Nat /\ paid'[m] \in Nat
            BY DEF ApiInv, STypeInv
          <6> QED BY <2>3, <3>2, <6>1 DEF ApiCases, Monotone
        <5> QED BY <2>3, <3>2, <4>1, <4>3, <5>1 DEF ApiCases
      <4> QED BY <4>2, <4>3
    <3> QED BY <3>1, <3>2
  <2>5. \A m \in Milestones : ApiRow(m)'
    BY <1>3, RowKept
  <2> QED BY <2>4, <2>5
<1> QED BY <1>1, <1>2, <1>3 DEF WriteCase

LEMMA MoveOne ==
    ASSUME NEW p \in Progress, NEW pc, NEW wf
    PROVE  /\ [p EXCEPT !.pc = pc] = [p EXCEPT !.pc = pc, !.wf = p.wf]
           /\ [p EXCEPT !.wf = wf] = [p EXCEPT !.pc = p.pc, !.wf = wf]
BY DEF Progress

\* How a step moves its request, and that it moves no other.
LEMMA Moved ==
    ASSUME STypeInv, NEW r \in Requests
    PROVE  /\ \A pc : Goto(r, pc) =>
                 /\ \A q \in Requests \ {r} : req'[q] = req[q]
                 /\ req'[r] = [req[r] EXCEPT !.pc = pc, !.wf = req[r].wf]
           /\ \A wf : WfGoto(r, wf) =>
                 /\ \A q \in Requests \ {r} : req'[q] = req[q]
                 /\ req'[r] = [req[r] EXCEPT !.pc = req[r].pc, !.wf = wf]
<1>1. /\ \A pc : Goto(r, pc) =>
            /\ \A q \in Requests \ {r} : req'[q] = req[q]
            /\ req'[r] = [req[r] EXCEPT !.pc = pc]
      /\ \A wf : WfGoto(r, wf) =>
            /\ \A q \in Requests \ {r} : req'[q] = req[q]
            /\ req'[r] = [req[r] EXCEPT !.wf = wf]
  BY DEF STypeInv, Handlers, Goto, WfGoto
<1>2. req[r] \in Progress
  BY RequestType
<1>3. ASSUME NEW pc, Goto(r, pc)
      PROVE  req'[r] = [req[r] EXCEPT !.pc = pc, !.wf = req[r].wf]
  <2>1. req'[r] = [req[r] EXCEPT !.pc = pc]
    BY <1>1, <1>3
  <2> QED BY <1>2, <2>1, MoveOne
<1>4. ASSUME NEW wf, WfGoto(r, wf)
      PROVE  req'[r] = [req[r] EXCEPT !.pc = req[r].pc, !.wf = wf]
  <2>1. req'[r] = [req[r] EXCEPT !.wf = wf]
    BY <1>1, <1>4
  <2> QED BY <1>2, <2>1, MoveOne
<1> QED BY <1>1, <1>3, <1>4

\* A move to a pc or a wf of which nothing is claimed, or that keeps the
\* claim, with the payment and the decision as they are.
LEMMA ClaimKept ==
    ASSUME ApiInv, NEW r \in Requests, Monotone, STypeInv', NEW pc, NEW wf,
           req'[r] = [req[r] EXCEPT !.pc = pc, !.wf = wf],
           wf \notin {"untriggered", "locking", "closing"},
           wf = "executing" => req[r].wf = "executing",
           pc = "awaiting" => req[r].pc = "awaiting",
           (pc = "awaiting" /\ wf \in {"reporting", "returned"})
              => req[r].wf \in {"reporting", "returned"},
           pc \in {"recording", "releasing", "counting", "completing"} => Settled(r)
    PROVE  ApiRequest(r)'
<1>1. /\ ApiRequest(r) /\ req[r].m \in Milestones /\ req[r] \in Progress
      /\ paid[req[r].m] \in Nat /\ paid'[req[r].m] \in Nat
  BY RequestType DEF ApiInv, STypeInv
<1>2. /\ req'[r].m = req[r].m /\ req'[r].bps = req[r].bps
      /\ req'[r].pc = pc /\ req'[r].wf = wf
  BY <1>1 DEF Progress
<1>3. Settled(r) => Settled(r)'
  BY <1>1, <1>2 DEF Settled, Monotone
<1>4. wf = "executing" => /\ decision'[req[r].m].isSet
                          /\ decision'[req[r].m].payeeBps = req[r].bps
  BY <1>1 DEF ApiRequest, Monotone
<1> QED BY <1>1, <1>2, <1>3, <1>4 DEF ApiRequest
-----------------------------------------------------------------------------
(* apps/api, action by action.                                             *)

LEMMA ArriveApi ==
    ASSUME Service = "api", ApiInv, STypeInv', NEW r \in Requests, Request(r)
    PROVE  ApiInv'
<1>1. PICK m \in Milestones : \/ SubmitDeliverable(r, m) \/ FileDispute(r, m)
                              \/ Finalize(r, m) \/ Release(r, m)
  BY DEF Request
<1>2. UNCHANGED vars /\ paid' = paid /\ row' = row
  BY <1>1 DEF SubmitDeliverable, FileDispute, Finalize, Release, db
<1>3. Monotone /\ \A k \in Milestones : ApiPaid(k)'
  BY <1>2, ChainKept
<1>4. \E kind, bps, case, pc, wf :
         /\ Arrive(r, kind, m, bps, case, pc, wf)
         /\ pc \in {"uploaded", "filed", "awaiting"} /\ wf \in {"none", "deciding"}
  BY <1>1 DEF SubmitDeliverable, FileDispute, Finalize, Release
<1>5. /\ \A q \in Requests \ {r} : req'[q] = req[q]
      /\ req'[r].pc \in {"uploaded", "filed", "awaiting"}
      /\ req'[r].wf \in {"none", "deciding"}
  BY <1>4 DEF Arrive, ApiInv, STypeInv, Handlers
<1>6. ApiRequest(r)'
  BY <1>5 DEF ApiRequest
<1>7. ASSUME NEW k \in Milestones PROVE ApiCases(k)'
  <2>1. CASE cases' = cases
    BY <1>3, <2>1, CasesKept
  <2>2. CASE FileDispute(r, m)
    <3> DEFINE open == [status |-> "OPEN", finalBps |-> NoBps]
    <3>1. cases \in [Milestones -> Seq(Case)] /\ cases[k] \in Seq(Case)
      BY DEF ApiInv, STypeInv, Tables
    <3>2. cases'[k] = IF k = m THEN Append(cases[k], open) ELSE cases[k]
      BY <2>2, <3>1 DEF FileDispute
    <3>3. \A i \in DOMAIN cases'[k] :
             cases'[k][i] = open \/ (i \in DOMAIN cases[k] /\ cases'[k][i] = cases[k][i])
      <4> HIDE DEF open
      <4> QED BY <3>1, <3>2
    <3> QED BY <1>3, <3>3, CasesKept
  <2> QED BY <1>1, <2>1, <2>2 DEF SubmitDeliverable, Finalize, Release, db
<1>8. \A k \in Milestones : ApiRow(k)'
  BY <1>2, <1>3, RowKept
<1> QED BY <1>3, <1>5, <1>6, <1>7, <1>8, OneRequest

\* A handler that moves on, having written a row.
LEMMA RowApi ==
    ASSUME ApiInv, STypeInv', NEW r \in Requests,
           \/ MarkVerifying(r) \/ RecordVerification(r)
           \/ MarkDisputed(r) /\ Service = "api"
           \/ MarkReleased(r)
    PROVE  ApiInv'
<1> DEFINE m == req[r].m
<1>1. UNCHANGED vars /\ paid' = paid
  BY DEF MarkVerifying, RecordVerification, MarkDisputed, MarkReleased
<1>2. Monotone /\ \A k \in Milestones : ApiPaid(k)'
  BY <1>1, ChainKept
<1>3. /\ m \in Milestones /\ row[m] \in Row /\ now + DisputeWindow \in Nat
      /\ ApiRequest(r) /\ req[r] \in Progress
  BY RequestType, WindowAssumption DEF ApiInv, STypeInv, Tables, TypeOK
<1>4. MarkReleased(r) => Settled(r)
  BY <1>3 DEF MarkReleased, ApiRequest
<1>5. \E new \in Row : /\ WriteRow(m, new)
                       /\ new.state = "RELEASED" => paid'[m] > 0
  <2>1. CASE MarkVerifying(r)
    <3> DEFINE new == [row[m] EXCEPT !.state = "VERIFYING"]
    <3>1. new \in Row /\ new.state # "RELEASED"
      BY <1>3 DEF Row, Status
    <3> QED BY <2>1, <3>1 DEF MarkVerifying
  <2>2. CASE RecordVerification(r)
    <3> DEFINE approved == [state |-> "APPROVED", windowEnd |-> now + DisputeWindow]
               rejected == [state |-> "REJECTED", windowEnd |-> 0]
    <3>1. approved \in Row /\ rejected \in Row
      BY <1>3 DEF Row, Status
    <3>2. WriteRow(m, approved) \/ WriteRow(m, rejected)
      BY <2>2 DEF RecordVerification
    <3> QED BY <3>1, <3>2
  <2>3. CASE MarkDisputed(r)
    <3> DEFINE new == [row[m] EXCEPT !.state = "DISPUTED"]
    <3>1. new \in Row /\ new.state # "RELEASED"
      BY <1>3 DEF Row, Status
    <3> QED BY <2>3, <3>1 DEF MarkDisputed
  <2>4. CASE MarkReleased(r)
    <3> DEFINE new == [row[m] EXCEPT !.state = "RELEASED"]
    <3>1. new \in Row
      BY <1>3 DEF Row, Status
    <3> QED BY <1>1, <1>4, <2>4, <3>1 DEF MarkReleased, Settled
  <2> QED BY <2>1, <2>2, <2>3, <2>4
<1>6. \A k \in Milestones : ApiRow(k)' /\ ApiCases(k)'
  BY <1>2, <1>3, <1>5, RowWritten
<1>7. \A q \in Requests \ {r} : req'[q] = req[q]
  BY DEF MarkVerifying, RecordVerification, MarkDisputed, MarkReleased, Goto,
         ApiInv, STypeInv, Handlers
<1>8. ApiRequest(r)'
  <2> DEFINE Moves(pc, wf) ==
               /\ req'[r] = [req[r] EXCEPT !.pc = pc, !.wf = wf]
               /\ wf = req[r].wf \/ (wf = "reporting" /\ pc = "arbitrating")
               /\ pc \in {"verifying", "done", "arbitrating", "counting", "completing"}
               /\ pc \in {"counting", "completing"} => Settled(r)
  <2>1. ASSUME MarkDisputed(r), Service = "api" PROVE \E pc, wf : Moves(pc, wf)
    <3>1. req'[r] = [req[r] EXCEPT !.pc = "arbitrating", !.wf = "reporting"]
      BY <2>1 DEF MarkDisputed, ApiInv, STypeInv, Handlers
    <3>2. Moves("arbitrating", "reporting")
      BY <3>1
    <3> QED BY <3>2
  <2>2. ASSUME MarkVerifying(r) \/ RecordVerification(r) \/ MarkReleased(r)
        PROVE  \E pc, wf : Moves(pc, wf)
    <3>1. \A pc : Goto(r, pc) => req'[r] = [req[r] EXCEPT !.pc = pc, !.wf = req[r].wf]
      BY Moved DEF ApiInv
    <3>2. \E pc \in {"verifying", "done", "counting", "completing"} :
             Goto(r, pc) /\ (pc \in {"counting", "completing"} => Settled(r))
      BY <1>4, <2>2 DEF MarkVerifying, RecordVerification, MarkReleased
    <3>3. \E pc : Moves(pc, req[r].wf)
      BY <3>1, <3>2
    <3> QED BY <3>3
  <2>3. ASSUME NEW pc, NEW wf, Moves(pc, wf) PROVE ApiRequest(r)'
    BY <1>2, <1>3, <2>3, ClaimKept DEF ApiRequest
  <2> QED BY <2>1, <2>2, <2>3
<1> QED BY <1>2, <1>6, <1>7, <1>8, OneRequest

\* A handler that moves on, having written a case, the agreement or nothing.
LEMMA CaseApi ==
    ASSUME ApiInv, STypeInv', NEW r \in Requests,
           RecordTribunal(r) \/ RecordFinal(r)
    PROVE  ApiInv'
<1> DEFINE m == req[r].m
           i == req[r].case
<1>1. UNCHANGED vars /\ paid' = paid
  BY DEF RecordTribunal, RecordFinal
<1>2. Monotone /\ \A k \in Milestones : ApiPaid(k)'
  BY <1>1, ChainKept
<1>3. /\ m \in Milestones /\ CaseExists(r) /\ i \in Nat /\ Len(cases[m]) \in Nat
      /\ ApiRequest(r) /\ req[r] \in Progress
  BY RequestType DEF ApiInv, STypeInv, Tables
<1>4. RecordFinal(r) => Settled(r)
  BY <1>3 DEF RecordFinal, ApiRequest
<1>5. \A k \in Milestones : ApiRow(k)' /\ ApiCases(k)'
  <2>1. CASE UNCHANGED db
    BY <1>2, <2>1, TablesKept
  <2>2. CASE RecordTribunal(r)
    <3>1. i \in 1..Len(cases[m])
      BY <1>3, <2>2 DEF CaseExists, RecordTribunal
    <3>2. \E status, bps : WriteCase(m, i, status, bps) /\ status # "FINAL"
      BY <2>2 DEF RecordTribunal
    <3> HIDE DEF m, i
    <3> QED BY <1>2, <1>3, <3>1, <3>2, CaseWritten
  <2>3. CASE RecordFinal(r) /\ i # 0
    <3>1. i \in 1..Len(cases[m]) /\ WriteCase(m, i, "FINAL", req[r].bps)
      BY <1>3, <2>3 DEF CaseExists, RecordFinal
    <3>2. paid'[m] > 0 /\ decision'[m].isSet /\ decision'[m].payeeBps = req[r].bps
      BY <1>1, <1>4, <2>3 DEF Settled, vars
    <3> HIDE DEF m, i
    <3> QED BY <1>2, <1>3, <3>1, <3>2, CaseWritten
  <2> QED BY <2>1, <2>2, <2>3 DEF RecordFinal
<1>6. \/ Goto(r, "done")
      \/ Goto(r, "releasing") /\ Settled(r)
  BY <1>4 DEF RecordTribunal, RecordFinal
<1>7. \A q \in Requests \ {r} : req'[q] = req[q]
  BY <1>6, Moved DEF ApiInv
<1>8. ApiRequest(r)'
  <2>1. \A pc : Goto(r, pc) => req'[r] = [req[r] EXCEPT !.pc = pc, !.wf = req[r].wf]
    BY Moved DEF ApiInv
  <2>2. \E pc : /\ req'[r] = [req[r] EXCEPT !.pc = pc, !.wf = req[r].wf]
                /\ pc = "done" \/ (pc = "releasing" /\ Settled(r))
    BY <1>6, <2>1
  <2> QED BY <1>2, <1>3, <2>2, ClaimKept DEF ApiRequest
<1> QED BY <1>2, <1>5, <1>7, <1>8, OneRequest

LEMMA MoveOnApi ==
    ASSUME Service = "api", ApiInv, STypeInv', NEW r \in Requests,
           \/ CountReleased(r) \/ Complete(r)
           \/ WorkflowAnswers(r) \/ ConnectionBreaks(r) \/ HandlerDies(r)
    PROVE  ApiInv'
<1>1. UNCHANGED vars /\ paid' = paid /\ row' = row /\ cases' = cases
  BY DEF CountReleased, Complete, WorkflowAnswers, ConnectionBreaks,
         HandlerDies, Resume, WriteAgreement, LostWrite, db
<1>2. Monotone /\ \A k \in Milestones : ApiPaid(k)'
  BY <1>1, ChainKept
<1>3. \A k \in Milestones : ApiRow(k)' /\ ApiCases(k)'
  BY <1>1, <1>2, RowKept, CasesKept
<1>4. ApiRequest(r) /\ req[r] \in Progress
  BY RequestType DEF ApiInv
<1>5. \E pc \in {"completing", "done", "recording", "judged", "failed"} :
         /\ Goto(r, pc)
         /\ pc \in {"completing", "recording"} => Settled(r)
  <2>1. CASE CountReleased(r)
    BY <1>4, <2>1 DEF CountReleased, ApiRequest
  <2>2. CASE Complete(r)
    BY <2>2 DEF Complete
  <2>3. CASE WorkflowAnswers(r)
    BY <1>4, <2>3 DEF WorkflowAnswers, Resume, AfterCall, Fallback, ApiRequest
  <2>4. CASE ConnectionBreaks(r)
    BY <2>4 DEF ConnectionBreaks, Resume, Fallback
  <2>5. CASE HandlerDies(r)
    BY <2>5 DEF HandlerDies
  <2> QED BY <2>1, <2>2, <2>3, <2>4, <2>5
<1>6. \A q \in Requests \ {r} : req'[q] = req[q]
  BY <1>5, Moved DEF ApiInv
<1>7. ApiRequest(r)'
  <2>1. \A pc : Goto(r, pc) => req'[r] = [req[r] EXCEPT !.pc = pc, !.wf = req[r].wf]
    BY Moved DEF ApiInv
  <2>2. \E pc \in {"completing", "done", "recording", "judged", "failed"} :
           /\ req'[r] = [req[r] EXCEPT !.pc = pc, !.wf = req[r].wf]
           /\ pc \in {"completing", "recording"} => Settled(r)
    BY <1>5, <2>1
  <2> QED BY <1>2, <1>4, <2>2, ClaimKept DEF ApiRequest
<1> QED BY <1>2, <1>3, <1>6, <1>7, OneRequest
\* Without a transaction, a workflow reports or throws.
LEMMA WorkflowOnApi ==
    ASSUME ApiInv, STypeInv', NEW r \in Requests,
           Report(r) \/ WorkflowThrows(r)
    PROVE  ApiInv'
<1>1. UNCHANGED vars /\ paid' = paid /\ UNCHANGED db
  BY DEF Report, WorkflowThrows
<1>2. Monotone /\ \A k \in Milestones : ApiPaid(k)'
  BY <1>1, ChainKept
<1>3. \A k \in Milestones : ApiRow(k)' /\ ApiCases(k)'
  BY <1>1, <1>2, TablesKept
<1>4. \E wf : /\ WfGoto(r, wf)
              /\ \/ wf = "thrown"
                 \/ wf = "returned" /\ req[r].wf = "reporting"
  BY DEF Report, WorkflowThrows
<1>5. ApiRequest(r)
  BY DEF ApiInv
<1>6. ASSUME NEW wf, WfGoto(r, wf),
             wf = "thrown" \/ (wf = "returned" /\ req[r].wf = "reporting")
      PROVE  ApiRequest(r)' /\ \A q \in Requests \ {r} : req'[q] = req[q]
  <2>1. /\ \A q \in Requests \ {r} : req'[q] = req[q]
        /\ req'[r] = [req[r] EXCEPT !.pc = req[r].pc, !.wf = wf]
    BY <1>6, Moved DEF ApiInv
  <2>2. req[r].pc \in {"recording", "releasing", "counting", "completing"} => Settled(r)
    BY <1>5 DEF ApiRequest
  <2>3. ApiRequest(r)'
    BY <1>2, <1>6, <2>1, <2>2, ClaimKept
  <2> QED BY <2>1, <2>3
<1> QED BY <1>2, <1>3, <1>4, <1>6, OneRequest

\* The decision a workflow sets is the one its request asked for; whoever
\* finds one set gives up.
LEMMA DecideApi ==
    ASSUME Service = "api", ApiInv, STypeInv', NEW r \in Requests, Decide(r)
    PROVE  ApiInv'
<1> DEFINE m == req[r].m
           bps == req[r].bps
<1>1. /\ m \in Milestones /\ req[r] \in Progress /\ ApiRequest(r)
      /\ decision \in [Milestones -> Decision]
  BY RequestType DEF ApiInv, STypeInv, TypeOK
<1>2. CASE WfGoto(r, "thrown") /\ UNCHANGED vars
  <2>1. UNCHANGED db /\ paid' = paid
    BY DEF Decide
  <2>2. Monotone /\ \A k \in Milestones : ApiPaid(k)' /\ ApiRow(k)' /\ ApiCases(k)'
    BY <1>2, <2>1, ChainKept, TablesKept
  <2>3. /\ \A q \in Requests \ {r} : req'[q] = req[q]
        /\ req'[r] = [req[r] EXCEPT !.pc = req[r].pc, !.wf = "thrown"]
    BY <1>2, Moved DEF ApiInv
  <2>4. ApiRequest(r)'
    <3>1. req[r].pc \in {"recording", "releasing", "counting", "completing"} => Settled(r)
      BY <1>1 DEF ApiRequest
    <3> QED BY <2>2, <2>3, <3>1, ClaimKept
  <2> QED BY <2>2, <2>3, <2>4, OneRequest
<1>3. CASE WfGoto(r, "executing") /\ SetDecision(m, bps, 0, TRUE)
  <2>1. ms' = ms /\ UNCHANGED db /\ paid' = paid
    BY <1>3 DEF Decide, SetDecision
  <2>2. /\ ~decision[m].isSet
        /\ decision'[m].isSet /\ decision'[m].payeeBps = bps
        /\ \A k \in Milestones \ {m} : decision'[k] = decision[k]
    <3> HIDE DEF m, bps
    <3> QED BY <1>1, <1>3 DEF SetDecision
  <2>3. Monotone
    <3>1. \A k \in Milestones : paid[k] \in Nat
      BY DEF ApiInv, STypeInv
    <3> QED BY <2>1, <2>2, <3>1 DEF Monotone
  <2>4. \A k \in Milestones : ApiPaid(k)' /\ ApiRow(k)' /\ ApiCases(k)'
    BY <2>1, <2>3, PaidKept, TablesKept
  <2>5. /\ \A q \in Requests \ {r} : req'[q] = req[q]
        /\ req'[r] = [req[r] EXCEPT !.pc = req[r].pc, !.wf = "executing"]
    BY <1>3, Moved DEF ApiInv
  <2>6. ApiRequest(r)'
    <3>1. /\ req'[r].m = m /\ req'[r].bps = bps
          /\ req'[r].pc = req[r].pc /\ req'[r].wf = "executing"
      BY <1>1, <2>5 DEF Progress
    <3>2. Settled(r) => FALSE
      BY <2>2 DEF Settled
    <3> QED BY <1>1, <2>2, <3>1, <3>2 DEF ApiRequest
  <2> QED BY <2>3, <2>4, <2>5, <2>6, OneRequest
<1> QED BY <1>2, <1>3 DEF Decide, OnRevert

\* What executes is the decision the request had made, and only once.
LEMMA ExecuteApi ==
    ASSUME Service = "api", ApiInv, STypeInv', NEW r \in Requests, Execute(r)
    PROVE  ApiInv'
<1> DEFINE m == req[r].m
<1>1. /\ m \in Milestones /\ req[r] \in Progress /\ ApiRequest(r)
      /\ paid \in [Milestones -> Nat] /\ ms \in [Milestones -> Milestone]
  BY RequestType DEF ApiInv, STypeInv, TypeOK
<1>2. CASE WfGoto(r, "thrown") /\ UNCHANGED vars /\ paid' = paid
  <2>1. UNCHANGED db
    BY DEF Execute
  <2>2. Monotone /\ \A k \in Milestones : ApiPaid(k)' /\ ApiRow(k)' /\ ApiCases(k)'
    BY <1>2, <2>1, ChainKept, TablesKept
  <2>3. /\ \A q \in Requests \ {r} : req'[q] = req[q]
        /\ req'[r] = [req[r] EXCEPT !.pc = req[r].pc, !.wf = "thrown"]
    BY <1>2, Moved DEF ApiInv
  <2>4. ApiRequest(r)'
    <3>1. req[r].pc \in {"recording", "releasing", "counting", "completing"} => Settled(r)
      BY <1>1 DEF ApiRequest
    <3> QED BY <2>2, <2>3, <3>1, ClaimKept
  <2> QED BY <2>2, <2>3, <2>4, OneRequest
<1>3. CASE /\ WfGoto(r, "reporting") /\ ExecuteDecision(m)
           /\ paid' = [paid EXCEPT ![m] = @ + 1]
  <2>1. decision' = decision /\ UNCHANGED db
    BY <1>3 DEF Execute, ExecuteDecision
  <2>2. /\ ms[m].status # "RELEASED" /\ ms'[m].status = "RELEASED"
        /\ \A k \in Milestones \ {m} : ms'[k] = ms[k]
    <3> HIDE DEF m
    <3> QED BY <1>1, <1>3 DEF ExecuteDecision, Executable, Milestone
  <2>3. /\ paid[m] = 0 /\ paid'[m] = 1
        /\ \A k \in Milestones \ {m} : paid'[k] = paid[k]
    <3>1. ApiPaid(m)
      BY <1>1 DEF ApiInv
    <3> HIDE DEF m
    <3> QED BY <1>1, <1>3, <2>2, <3>1 DEF ApiPaid
  <2>4. Monotone
    <3>1. \A k \in Milestones : paid[k] \in Nat
      BY <1>1
    <3> QED BY <2>1, <2>3, <3>1 DEF Monotone
  <2>5. ASSUME NEW k \in Milestones PROVE ApiPaid(k)'
    <3>1. CASE k = m
      BY <2>2, <2>3, <3>1 DEF ApiPaid
    <3>2. CASE k # m
      BY <2>2, <2>3, <3>2, PaidKept
    <3> QED BY <3>1, <3>2
  <2>6. \A k \in Milestones : ApiRow(k)' /\ ApiCases(k)'
    BY <2>1, <2>4, TablesKept
  <2>7. /\ \A q \in Requests \ {r} : req'[q] = req[q]
        /\ req'[r] = [req[r] EXCEPT !.pc = req[r].pc, !.wf = "reporting"]
    BY <1>3, Moved DEF ApiInv
  <2>8. ApiRequest(r)'
    <3>1. /\ req'[r].m = m /\ req'[r].bps = req[r].bps
          /\ req'[r].pc = req[r].pc /\ req'[r].wf = "reporting"
      BY <1>1, <2>7 DEF Progress
    <3>2. decision[m].isSet /\ decision[m].payeeBps = req[r].bps
      BY <1>1 DEF Execute, ApiRequest
    <3>3. Settled(r)'
      BY <2>1, <2>3, <3>1, <3>2 DEF Settled
    <3> QED BY <3>1, <3>3 DEF ApiRequest
  <2> QED BY <2>4, <2>5, <2>6, <2>7, <2>8, OneRequest
<1> QED BY <1>2, <1>3 DEF Execute, Executed, OnRevert

LEMMA ChainApi ==
    ASSUME ApiInv, STypeInv', ChainStep
    PROVE  ApiInv'
<1>1. UNCHANGED db /\ paid' = paid /\ req' = req
  BY DEF ChainStep
<1>2. decision' = decision
  BY DEF ChainStep, Tick, PartyNext, FundMilestone, DisputeWithBond, AppealWithBond
<1>3. ASSUME NEW k \in Milestones
      PROVE  ms'[k].status = ms[k].status \/ ms[k].status # "RELEASED"
  <2>1. ms \in [Milestones -> Milestone]
    BY DEF ApiInv, STypeInv, TypeOK
  <2>2. CASE ms' = ms
    BY <2>2
  <2>3. ASSUME NEW m \in Milestones, FundMilestone(m)
        PROVE  k = m \/ ms'[k] = ms[k]
    BY <2>1, <2>3 DEF FundMilestone
  <2>4. ASSUME NEW m \in Milestones, NEW p \in Parties, DisputeWithBond(m, p)
        PROVE  k = m \/ ms'[k] = ms[k]
    BY <2>1, <2>4 DEF DisputeWithBond, Lock
  <2> QED BY <2>2, <2>3, <2>4 DEF ChainStep, Tick, PartyNext, FundMilestone,
                                  DisputeWithBond, AppealWithBond
<1>4. Monotone
  <2>1. \A k \in Milestones : paid[k] \in Nat
    BY DEF ApiInv, STypeInv
  <2> QED BY <1>1, <1>2, <2>1 DEF Monotone
<1>5. \A k \in Milestones : ApiPaid(k)' /\ ApiRow(k)' /\ ApiCases(k)'
  BY <1>1, <1>3, <1>4, PaidKept, TablesKept
<1>6. \A q \in Requests : ApiRequest(q)'
  BY <1>1, <1>4, RequestKept
<1> QED BY <1>5, <1>6 DEF ApiInv

LEMMA ApiStep ==
    ASSUME Service = "api", ApiInv, [SNext]_svars
    PROVE  ApiInv'
<1>1. STypeInv'
  BY STypeStep DEF ApiInv
<1>2. ASSUME NEW r \in Requests, Request(r) PROVE ApiInv'
  BY <1>1, <1>2, ArriveApi
<1>3. ASSUME NEW r \in Requests, HandlerStep(r) PROVE ApiInv'
  BY <1>1, <1>3, RowApi, CaseApi, MoveOnApi DEF HandlerStep
<1>4. ASSUME NEW r \in Requests, WorkflowStep(r) PROVE ApiInv'
  <2>1. ~LockOnChain(r) /\ ~CloseStatus(r)
    BY DEF ApiInv, ApiRequest, LockOnChain, CloseStatus
  <2> QED BY <1>1, <1>4, <2>1, DecideApi, ExecuteApi, WorkflowOnApi DEF WorkflowStep
<1>5. ASSUME NEW r \in Requests, Failure(r) PROVE ApiInv'
  BY <1>1, <1>5, WorkflowOnApi, MoveOnApi DEF Failure
<1>6. CASE ChainStep
  BY <1>1, <1>6, ChainApi
<1>7. CASE UNCHANGED svars
  BY <1>7 DEF svars, vars, ApiInv, STypeInv, TypeOK, Tables, Handlers, CaseExists,
              ApiRequest, Settled, ApiRow, ApiCases, ApiPaid
<1> QED BY <1>2, <1>3, <1>4, <1>5, <1>6, <1>7 DEF SNext

LEMMA ApiInvariant == Service = "api" => (SSpec => []ApiInv)
<1> SUFFICES ASSUME Service = "api" PROVE SSpec => []ApiInv
  OBVIOUS
<1>1. SInit => ApiInv
  BY SInitApi
<1>2. ApiInv /\ [SNext]_svars => ApiInv'
  BY ApiStep
<1> QED BY <1>1, <1>2, PTL DEF SSpec

\* apps/api writes RELEASED into a row only when the escrow has paid, although
\* its workflow outlives the handler and updates get lost.
THEOREM ApiReleasedMeansPaid == Service = "api" => (SSpec => []ReleasedMeansPaid)
<1> SUFFICES ASSUME Service = "api" PROVE SSpec => []ReleasedMeansPaid
  OBVIOUS
<1>1. ApiInv => ReleasedMeansPaid
  BY DEF ApiInv, ApiRow, ReleasedMeansPaid
<1> QED BY <1>1, ApiInvariant, PTL

\* The share apps/api records in a FINAL case is the share that was paid,
\* however many finalize requests compete.
THEOREM ApiFinalMatchesChain == Service = "api" => (SSpec => []FinalMatchesChain)
<1> SUFFICES ASSUME Service = "api" PROVE SSpec => []FinalMatchesChain
  OBVIOUS
<1>1. ApiInv => FinalMatchesChain
  BY DEF ApiInv, ApiCases, FinalMatchesChain
<1> QED BY <1>1, ApiInvariant, PTL

\* Under apps/api, which sets no status by hand, the escrow pays a milestone
\* at most once; the run of apps/shiva shows that it may pay again.
THEOREM ApiPaidOnce == Service = "api" => (SSpec => []PaidOnce)
<1> SUFFICES ASSUME Service = "api" PROVE SSpec => []PaidOnce
  OBVIOUS
<1>1. ApiInv => PaidOnce
  BY DEF ApiInv, ApiPaid, PaidOnce
<1> QED BY <1>1, ApiInvariant, PTL

-----------------------------------------------------------------------------
(* apps/api never sets a status by hand.  Under it the contract is         *)
(* EscrowV3 without status updates, which keeps its books.                 *)

Quiet == INSTANCE EscrowPoolProofs WITH
            StatusUpdates <- {}, BpsInputs <- Bps, ExtraInputs <- {0}

LEMMA SameFunctions ==
    /\ Quiet!Init = Init /\ Quiet!vars = vars
    /\ Quiet!Tick = Tick
    /\ \A m : Quiet!PartyNext(m) = PartyNext(m)
    /\ \A m : Quiet!LockMilestone(m) = LockMilestone(m)
    /\ \A m, bps : Quiet!SetDecision(m, bps, 0, TRUE) = SetDecision(m, bps, 0, TRUE)
    /\ \A m : Quiet!ExecuteDecision(m) = ExecuteDecision(m)
    /\ Quiet!DecisionExecutable = DecisionExecutable
BY DEF Init, Quiet!Init, vars, Quiet!vars, Tick, Quiet!Tick,
       PartyNext, Quiet!PartyNext, FundMilestone, Quiet!FundMilestone,
       Pull, Quiet!Pull, Lock, Quiet!Lock, Lockable, Quiet!Lockable,
       DisputeWithBond, Quiet!DisputeWithBond, AppealWithBond, Quiet!AppealWithBond,
       Last, Quiet!Last, LockMilestone, Quiet!LockMilestone,
       SetDecision, Quiet!SetDecision, ExecuteDecision, Quiet!ExecuteDecision,
       Executable, Quiet!Executable, Distributable, Quiet!Distributable,
       PayeeAmount, Quiet!PayeeAmount, PayerAmount, Quiet!PayerAmount,
       Loser, Quiet!Loser, Winner, Quiet!Winner, ForfeitTo, Quiet!ForfeitTo,
       StakedTotal, Quiet!StakedTotal, Outflow, Quiet!Outflow, PaidOut, Quiet!PaidOut,
       Credit, Quiet!Credit, SettleBonds, Quiet!SettleBonds, Parties, Quiet!Parties,
       Bps, Quiet!Bps, DecisionExecutable, Quiet!DecisionExecutable

LEMMA QuietStep ==
    ASSUME Service = "api", ApiInv, [SNext]_svars
    PROVE  [Quiet!Next]_(Quiet!vars)
<1>1. CASE UNCHANGED vars
  BY <1>1 DEF vars, Quiet!vars
<1>2. ASSUME NEW r \in Requests, Decide(r) PROVE [Quiet!Next]_(Quiet!vars)
  <2>1. req[r].m \in Milestones
    BY RequestType DEF ApiInv
  <2>2. CASE SetDecision(req[r].m, req[r].bps, 0, TRUE)
    <3>1. req[r].bps \in Bps
      BY <2>2 DEF SetDecision
    <3>2. Quiet!SetDecision(req[r].m, req[r].bps, 0, TRUE)
      BY <2>2, SameFunctions
    <3>3. Quiet!ExecutorNext(req[r].m)
      BY <3>1, <3>2 DEF Quiet!ExecutorNext
    <3> QED BY <2>1, <3>3 DEF Quiet!Next
  <2> QED BY <1>1, <1>2, <2>2 DEF Decide
<1>3. ASSUME NEW r \in Requests, Execute(r) PROVE [Quiet!Next]_(Quiet!vars)
  <2>1. req[r].m \in Milestones
    BY RequestType DEF ApiInv
  <2>2. CASE ExecuteDecision(req[r].m)
    <3>1. Quiet!ExecutorNext(req[r].m)
      BY <2>2, SameFunctions DEF Quiet!ExecutorNext
    <3> QED BY <2>1, <3>1 DEF Quiet!Next
  <2> QED BY <1>1, <1>3, <2>2 DEF Execute
<1>4. ASSUME NEW r \in Requests, WorkflowStep(r) PROVE [Quiet!Next]_(Quiet!vars)
  <2>1. ~LockOnChain(r) /\ ~CloseStatus(r)
    BY DEF ApiInv, ApiRequest, LockOnChain, CloseStatus
  <2>2. Report(r) => UNCHANGED vars
    BY DEF Report
  <2> QED BY <1>1, <1>2, <1>3, <1>4, <2>1, <2>2 DEF WorkflowStep
<1>5. ASSUME NEW r \in Requests, Request(r) \/ HandlerStep(r) \/ Failure(r)
      PROVE  UNCHANGED vars
  BY <1>5 DEF Request, SubmitDeliverable, FileDispute, Finalize, Release,
              HandlerStep, MarkVerifying, RecordVerification, MarkDisputed,
              RecordTribunal, WorkflowAnswers, Resume, RecordFinal,
              MarkReleased, CountReleased, Complete,
              Failure, WorkflowThrows, ConnectionBreaks, HandlerDies
<1>6. CASE ChainStep
  <2>1. Tick => Quiet!Next
    BY SameFunctions DEF Quiet!Next
  <2>2. \A m \in Milestones : PartyNext(m) => Quiet!Next
    BY SameFunctions DEF Quiet!Next
  <2> QED BY <1>6, <2>1, <2>2 DEF ChainStep
<1>7. CASE UNCHANGED svars
  BY <1>1, <1>7 DEF svars
<1> QED BY <1>1, <1>4, <1>5, <1>6, <1>7 DEF SNext

\* What EscrowV3 assumes of its constants holds without status updates.
LEMMA QuietAssumptions ==
    /\ Quiet!IsFiniteSet(Milestones)
    /\ Funds \in [Quiet!Accounts -> Nat]
    /\ ZeroAddress \notin Quiet!Parties
    /\ Bps \subseteq Nat /\ {0} \subseteq Nat
    /\ {} \subseteq Quiet!Status \X Quiet!Status
    /\ Quiet!ReleaseOnlyByExecution
<1>1. Quiet!IsFiniteSet(Milestones)
  BY MilestonesAssumption DEF IsFiniteSet, Quiet!IsFiniteSet
<1>2. Quiet!Parties = Parties /\ Quiet!Accounts = Accounts
  BY DEF Quiet!Parties, Parties, Quiet!Accounts, Accounts
<1>3. Quiet!ReleaseOnlyByExecution
  BY DEF Quiet!ReleaseOnlyByExecution
<1>4. Bps \subseteq Nat
  BY DEF Bps
<1> QED BY <1>1, <1>2, <1>3, <1>4, InputAssumption, PartiesAssumption

LEMMA QuietBehaviour == Service = "api" => (SSpec => Quiet!Spec)
<1> SUFFICES ASSUME Service = "api" PROVE SSpec => Quiet!Spec
  OBVIOUS
<1>1. SInit => Quiet!Init
  BY SameFunctions DEF SInit
<1>2. ApiInv /\ [SNext]_svars => [Quiet!Next]_(Quiet!vars)
  BY QuietStep
<1> QED BY <1>1, <1>2, ApiInvariant, PTL DEF SSpec, Quiet!Spec

\* The decisions of a settlement have no extra payouts.
Plain == \A m \in Milestones : decision[m].payable /\ decision[m].extra = 0

LEMMA PlainStep == STypeInv /\ Plain /\ [SNext]_svars => Plain'
<1> SUFFICES ASSUME STypeInv, Plain, [SNext]_svars PROVE Plain'
  OBVIOUS
<1>1. CASE decision' = decision
  BY <1>1 DEF Plain
<1>2. ASSUME NEW r \in Requests, Decide(r) PROVE Plain'
  <2>1. decision \in [Milestones -> Decision]
    BY DEF STypeInv, TypeOK
  <2>2. CASE SetDecision(req[r].m, req[r].bps, 0, TRUE)
    BY <2>1, <2>2 DEF SetDecision, Plain
  <2> QED BY <1>1, <1>2, <2>2 DEF Decide, vars
<1>3. ASSUME NEW r \in Requests, WorkflowStep(r), ~Decide(r) PROVE decision' = decision
  BY <1>3 DEF WorkflowStep, LockOnChain, LockMilestone, Execute, ExecuteDecision,
              CloseStatus, SetMilestoneStatus, Report, vars
<1>4. ASSUME NEW r \in Requests, Request(r) \/ HandlerStep(r) \/ Failure(r)
      PROVE  decision' = decision
  BY <1>4 DEF Request, SubmitDeliverable, FileDispute, Finalize, Release,
              HandlerStep, MarkVerifying, RecordVerification, MarkDisputed,
              RecordTribunal, WorkflowAnswers, Resume, RecordFinal,
              MarkReleased, CountReleased, Complete,
              Failure, WorkflowThrows, ConnectionBreaks, HandlerDies, vars
<1>5. CASE ChainStep
  BY <1>1, <1>5 DEF ChainStep, Tick, PartyNext, FundMilestone, DisputeWithBond,
                    AppealWithBond
<1>6. CASE UNCHANGED svars
  BY <1>1, <1>6 DEF svars, vars
<1> QED BY <1>1, <1>2, <1>3, <1>4, <1>5, <1>6 DEF SNext

LEMMA PlainInvariant == SSpec => []Plain
<1>1. SInit => Plain
  BY DEF SInit, Init, Plain
<1> QED BY <1>1, PlainStep, STypeInvariant, PTL DEF SSpec

\* Under apps/api no settlement takes tokens another one needs: whatever
\* requests compete, fail and are repeated, a decided milestone is payable.
THEOREM ApiDecidedIsExecutable == Service = "api" => (SSpec => []DecidedIsExecutable)
<1> SUFFICES ASSUME Service = "api" PROVE SSpec => []DecidedIsExecutable
  OBVIOUS
<1>1. Quiet!Spec => []Quiet!DecisionExecutable
  BY QuietAssumptions, AmountAssumption, BondAssumption, WindowAssumption,
     InputAssumption, Quiet!EscrowDecisionExecutable
<1>2. Quiet!DecisionExecutable => DecisionExecutable
  BY SameFunctions
<1>3. STypeInv /\ Plain /\ DecisionExecutable => DecidedIsExecutable
  <2> SUFFICES ASSUME STypeInv, Plain, DecisionExecutable, NEW m \in Milestones,
                      ms[m].funded, decision[m].isSet, ms[m].status # "RELEASED"
               PROVE  Executable(m)
    BY DEF DecidedIsExecutable
  <2>1. decision[m].payable /\ decision[m].extra = 0 /\ Amount[m] \in Nat
    BY AmountAssumption DEF Plain
  <2>2. balance >= Outflow(m) /\ PayeeAmount(m) \in 0 .. Distributable(m)
    BY <2>1 DEF DecisionExecutable
  <2>3. Distributable(m) \in Int
    BY <2>1 DEF Distributable
  <2>4. PayeeAmount(m) <= Distributable(m)
    BY <2>2, <2>3
  <2> QED BY <2>1, <2>2, <2>4 DEF Executable
<1> QED BY <1>1, <1>2, <1>3, QuietBehaviour, PlainInvariant, STypeInvariant, PTL

LEMMA SameSums == \A f : Quiet!SumFunction(f) = SumFunction(f)
<1>1. \A f, S : Quiet!SumFunctionOnSet(f, S) = SumFunctionOnSet(f, S)
  BY DEF Quiet!SumFunctionOnSet, Quiet!FoldFunctionOnSet, Quiet!MapThenFoldSet,
         SumFunctionOnSet, FoldFunctionOnSet, MapThenFoldSet
<1> QED BY <1>1 DEF Quiet!SumFunction, SumFunction

\* Under apps/api what the escrow holds is exactly what it owes, whatever
\* requests compete, fail and are repeated.
THEOREM ApiSolvent == Service = "api" => (SSpec => []Solvent)
<1> SUFFICES ASSUME Service = "api" PROVE SSpec => []Solvent
  OBVIOUS
<1>1. Quiet!Spec => []Quiet!Solvent
  BY QuietAssumptions, AmountAssumption, BondAssumption, WindowAssumption,
     InputAssumption, Quiet!EscrowSolvent
<1>2. Quiet!Solvent => Solvent
  BY SameSums DEF Quiet!Solvent, Solvent, Quiet!Owed, Owed,
                  Quiet!StakedTotal, StakedTotal
<1> QED BY <1>1, <1>2, QuietBehaviour, PTL

LEMMA SameVault ==
    /\ Quiet!Vault!Init => Vault!Init
    /\ [Quiet!Vault!Next]_(Quiet!Vault!vars) => [Vault!Next]_(Vault!vars)
BY DEF Quiet!Vault!Init, Vault!Init, Quiet!Vault!Next, Vault!Next,
       Quiet!Vault!vars, Vault!vars, Quiet!Vault!Deposit, Vault!Deposit,
       Quiet!Vault!PayOutAll, Vault!PayOutAll

\* Under apps/api each milestone is one vault, emptied once and completely.
THEOREM ApiImplementsVault == Service = "api" => (SSpec => VaultSpec)
<1> SUFFICES ASSUME Service = "api" PROVE SSpec => VaultSpec
  OBVIOUS
<1>1. Quiet!Spec => Quiet!VaultSpec
  BY QuietAssumptions, AmountAssumption, BondAssumption, WindowAssumption,
     InputAssumption, Quiet!EscrowImplementsVault
<1>2. Quiet!VaultSpec => VaultSpec
  BY SameVault, PTL DEF Quiet!VaultSpec, VaultSpec, Quiet!Vault!Spec, Vault!Spec
<1> QED BY <1>1, <1>2, QuietBehaviour, PTL
=============================================================================
