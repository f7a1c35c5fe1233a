----------------------- MODULE HandoffDeliveryProofs -----------------------
(***************************************************************************)
(* The safety of HandoffDelivery, for any number of hand-offs and deaths.  *)
(***************************************************************************)
EXTENDS HandoffDelivery, TLAPS

\* A brief that reached an agent and whose repetition nobody answers for.
Unexcused(n) == n \in landed /\ n \notin excused

\* What holds of the instance and of its row alike.  Hand-offs are numbered, so
\* a mission is that of the agent on record and not the stored prompt; a mission
\* that is certainly undelivered belongs to a runtime that is known.
RecordOK(m, n, got) ==
    /\ m \in Instances
    /\ m.verdict = "none" <=> m.mission = 0
    /\ m.mission \in {0, m.prog}
    /\ m.mission # 0 => m.prompt # m.mission
    /\ m.prog <= n /\ m.prompt <= n
    /\ m.verdict = "NotDelivered" => ~m.unknown
    /\ m.verdict = "Delivered" => m.mission \in got

\* The brief of the agent on record is owed, stored or received.
Briefed(m, got) == m.prog \in {0, m.mission, m.prompt} \/ m.prog \in got

\* The swap: the record already names an agent that nothing else knows of.
SwapOK ==
    /\ job.by = "handoff" /\ job.fenced /\ mem.op = "Replacing"
    /\ begun > 0 /\ mem.prog = begun /\ mem.mission = 0 /\ mem.prompt < begun
    /\ disk.prog < begun /\ job.from < begun
    /\ \A n \in landed : n < begun
    /\ job.from \in {0, mem.prompt} \/ job.from \in landed

\* Before a submission: the fence is the one found at admission, and the
\* verdict is the one that admitted the attempt.
UnsentOK ==
    /\ job.fenced <=> mem.op = "Replacing"
    /\ job.by = "retry" => mem.verdict = "Ambiguous" /\ mem.op = "None"
    /\ job.by # "retry" => mem.verdict = "NotDelivered"

\* The submission: the row says that it may have happened.
SubmitOK ==
    /\ mem.verdict = "Ambiguous" /\ disk.verdict = "Ambiguous"
    /\ disk.mission = mem.mission
    /\ job.by # "retry" => ~Unexcused(mem.mission)

SettleOK ==
    /\ job.got # "none"
    /\ job.got # "sent" => /\ mem.verdict = "Ambiguous"
                           /\ job.fenced <=> mem.op = "Replacing"

JobOK ==
    /\ job.pc = "idle" <=> job = NoJob
    /\ job.by = "none" <=> job = NoJob
    /\ job.pc # "idle" => ~mem.unknown
    /\ job.wasUnknown => job.by = "retry"
    /\ job.pc \notin {"idle", "swap"} => mem.mission # 0
    /\ job.pc = "swap" => SwapOK
    /\ job.pc \in {"checkpoint", "wait", "mark"} => UnsentOK
    /\ job.pc = "checkpoint" => job.by = "handoff"
    /\ job.pc = "submit" => SubmitOK
    /\ job.pc = "settle" => SettleOK

\* Without an attempt a fence stands over a certain verdict.
FenceOK ==
    job.pc = "idle" /\ mem.op = "Replacing" =>
        mem.verdict \in {"NotDelivered", "Delivered"}

\* A row that still owes what the instance does not is owed a write.
OwesRow == disk.mission \notin {0, mem.mission} => owed

\* What a fresh load or the recovery pass would submit has not landed.
FreshMission == mem.verdict = "NotDelivered" => ~Unexcused(mem.mission)
FreshRow ==
    disk.verdict = "NotDelivered" /\ disk.mission = mem.mission =>
        ~Unexcused(disk.mission)

Basics ==
    /\ owed \in BOOLEAN /\ pane \in Panes /\ tick \in Passes /\ job \in Jobs
    /\ begun \in 0..MaxHandoffs /\ crashes \in 0..MaxCrashes
    /\ landed \subseteq Missions /\ excused \subseteq Missions
    /\ \A n \in landed : n <= begun

IInv ==
    /\ Basics
    /\ RecordOK(mem, begun, landed) /\ RecordOK(disk, begun, landed) /\ disk.op = "None"
    /\ Briefed(disk, landed)
    /\ job.pc # "swap" => Briefed(mem, landed)
    /\ JobOK /\ FenceOK /\ OwesRow /\ FreshMission /\ FreshRow

-----------------------------------------------------------------------------
\* A record of no attempt is an attempt record, and the only idle one.
LEMMA NoJobFacts ==
    /\ NoJob \in Jobs
    /\ NoJob.by = "none" /\ NoJob.pc = "idle" /\ ~NoJob.wasUnknown /\ ~NoJob.fenced
    /\ NoJob.got = "none" /\ NoJob.from = 0
  BY BoundsAssumption DEF NoJob, Jobs, BoundsAssumption

\* The fields of a record of the instance, and what an update must keep.
LEMMA InstanceFields ==
    ASSUME NEW m \in Instances
    PROVE  /\ m.prog \in 0..MaxHandoffs /\ m.mission \in 0..MaxHandoffs
           /\ m.prompt \in 0..MaxHandoffs /\ m.verdict \in Verdicts
           /\ m.lv \in {"Running", "Ready", "Limit", "Lost"}
           /\ m.unknown \in BOOLEAN /\ m.op \in {"None", "Replacing"}
  BY DEF Instances

\* The numbers of a record are natural numbers.
LEMMA InstanceNats ==
    ASSUME NEW m \in Instances
    PROVE  m.prog \in Nat /\ m.mission \in Nat /\ m.prompt \in Nat
  BY InstanceFields, BoundsAssumption DEF BoundsAssumption

\* What the single-field operations leave.
LEMMA UpdateFields ==
    ASSUME NEW m \in Instances
    PROVE  /\ \A o \in {"None", "Replacing"} :
                LET r == [m EXCEPT !.op = o]
                IN  /\ r \in Instances /\ r.op = o /\ r.prog = m.prog /\ r.mission = m.mission
                    /\ r.verdict = m.verdict /\ r.prompt = m.prompt /\ r.lv = m.lv
                    /\ r.unknown = m.unknown
           /\ \A l \in {"Running", "Ready", "Limit", "Lost"} :
                LET r == [m EXCEPT !.lv = l]
                IN  /\ r \in Instances /\ r.lv = l /\ r.prog = m.prog /\ r.mission = m.mission
                    /\ r.verdict = m.verdict /\ r.prompt = m.prompt /\ r.op = m.op
                    /\ r.unknown = m.unknown
           /\ \A v \in Verdicts :
                LET r == [m EXCEPT !.verdict = v]
                IN  /\ r \in Instances /\ r.verdict = v /\ r.prog = m.prog
                    /\ r.mission = m.mission /\ r.prompt = m.prompt /\ r.lv = m.lv
                    /\ r.unknown = m.unknown /\ r.op = m.op
  BY DEF Instances

\* What a row keeps of the instance in memory.
LEMMA RowFields ==
    ASSUME NEW m \in Instances
    PROVE  /\ Row(m) \in Instances /\ Row(m).op = "None" /\ Row(m).prog = m.prog
           /\ Row(m).mission = m.mission /\ Row(m).verdict = m.verdict
           /\ Row(m).prompt = m.prompt /\ Row(m).lv = m.lv /\ Row(m).unknown = m.unknown
  BY DEF Instances, Row

\* Marking the start unknown drops the fence and keeps the brief.
LEMMA MarkFields ==
    ASSUME NEW m \in Instances
    PROVE  LET r == MarkStartupStateUnknown(m)
           IN  /\ r \in Instances /\ r.op = "None" /\ r.unknown = TRUE /\ r.prog = m.prog
               /\ r.mission = m.mission /\ r.verdict = m.verdict
               /\ r.prompt = m.prompt /\ r.lv = m.lv
  BY DEF Instances, MarkStartupStateUnknown

\* Resolving the start keeps the fence and the brief.
LEMMA ResolveFields ==
    ASSUME NEW m \in Instances
    PROVE  LET r == ResolveStartupState(m)
           IN  /\ r \in Instances /\ r.op = m.op /\ r.unknown = FALSE /\ r.prog = m.prog
               /\ r.mission = m.mission /\ r.verdict = m.verdict
               /\ r.prompt = m.prompt /\ r.lv = m.lv
  BY DEF Instances, ResolveStartupState

\* Clearing the mission takes its verdict along.
LEMMA ClearFields ==
    ASSUME NEW m \in Instances
    PROVE  LET r == ClearPendingHandoffMission(m)
           IN  /\ r \in Instances /\ r.op = m.op /\ r.unknown = m.unknown /\ r.prog = m.prog
               /\ r.mission = 0 /\ r.verdict = "none"
               /\ r.prompt = m.prompt /\ r.lv = m.lv
  <1>1. 0 \in 0..MaxHandoffs /\ "none" \in Verdicts
    BY BoundsAssumption DEF Verdicts, BoundsAssumption
  <1>2. QED
    BY <1>1 DEF Instances, ClearPendingHandoffMission

\* Committing a hand-off drops the fence and keeps the brief.
LEMMA CommitFields ==
    ASSUME NEW m \in Instances
    PROVE  LET r == CommitHandoff(m)
           IN  /\ r \in Instances /\ r.op = "None" /\ r.unknown = m.unknown /\ r.prog = m.prog
               /\ r.mission = m.mission /\ r.verdict = m.verdict
               /\ r.prompt = m.prompt
  BY DEF Instances, CommitHandoff

\* At the usage limit the mission becomes the parked prompt.
LEMMA TransferFields ==
    ASSUME NEW m \in Instances
    PROVE  LET r == TransferToLimit(m)
           IN  /\ r \in Instances /\ r.op = "None" /\ r.unknown = m.unknown /\ r.prog = m.prog
               /\ r.mission = 0 /\ r.verdict = "none"
               /\ r.prompt = m.mission /\ r.lv = "Limit"
  <1> DEFINE p == [m EXCEPT !.prompt = m.mission, !.lv = "Limit", !.op = "None"]
  <1>1. /\ p \in Instances /\ p.op = "None" /\ p.unknown = m.unknown /\ p.prog = m.prog
        /\ p.prompt = m.mission /\ p.lv = "Limit"
    BY DEF Instances
  <1> HIDE DEF p
  <1>2. TransferToLimit(m) = ClearPendingHandoffMission(p)
    BY DEF TransferToLimit, p
  <1>3. QED
    BY <1>1, <1>2, ClearFields

\* A load keeps the row and raises the fence over an owed brief.
LEMMA LoadFields ==
    ASSUME NEW d \in Instances
    PROVE  LET r == FromInstanceData(d)
           IN  /\ r \in Instances /\ r.unknown = d.unknown /\ r.prog = d.prog
               /\ r.mission = d.mission /\ r.verdict = d.verdict
               /\ r.prompt = d.prompt /\ r.lv = d.lv
               /\ r.op = "Replacing" <=> pendingHandoffMissionNeedsFence(d)
  <1>1. CASE pendingHandoffMissionNeedsFence(d)
    BY <1>1 DEF Instances, FromInstanceData
  <1>2. CASE ~pendingHandoffMissionNeedsFence(d)
    BY <1>2 DEF Instances, FromInstanceData
  <1>3. QED
    BY <1>1, <1>2

\* A copy of a good record without the operation is a good row.
LEMMA RowKeeps ==
    ASSUME NEW m, NEW n, NEW got, RecordOK(m, n, got)
    PROVE  /\ RecordOK(Row(m), n, got)
           /\ Briefed(m, got) => Briefed(Row(m), got)
  BY RowFields DEF RecordOK, Briefed

\* Later hand-offs and later deliveries spoil no record.
LEMMA LaterKeeps ==
    ASSUME NEW m, NEW n \in Nat, NEW k \in Nat, NEW got, NEW more,
           n <= k, got \subseteq more
    PROVE  /\ RecordOK(m, n, got) => RecordOK(m, k, more)
           /\ Briefed(m, got) => Briefed(m, more)
  BY InstanceNats DEF RecordOK, Briefed

\* An update that keeps the brief's fields keeps a record good.
LEMMA SameBrief ==
    ASSUME NEW m, NEW r, NEW n, NEW got,
           r \in Instances, r.prog = m.prog, r.mission = m.mission, r.prompt = m.prompt,
           r.verdict = m.verdict, r.unknown = m.unknown
    PROVE  /\ RecordOK(m, n, got) => RecordOK(r, n, got)
           /\ Briefed(m, got) => Briefed(r, got)
  BY DEF RecordOK, Briefed

\* Handing the brief to the wall, or retiring one that arrived, keeps it somewhere.
LEMMA Parked ==
    ASSUME NEW m, NEW r, NEW n, NEW got, RecordOK(m, n, got), m.mission # 0,
           r \in Instances, r.prog = m.prog, r.mission = 0, r.verdict = "none",
           r.prompt \in {m.mission, m.prompt},
           r.prompt = m.mission \/ m.mission \in got
    PROVE  RecordOK(r, n, got) /\ Briefed(r, got)
  BY InstanceFields DEF RecordOK, Briefed

\* The invariant at the start.
LEMMA InitIInv == Init => IInv
  <1> SUFFICES ASSUME Init PROVE IInv
    OBVIOUS
  <1>1. /\ mem.prog = 0 /\ mem.mission = 0 /\ mem.verdict = "none" /\ mem.prompt = 0
        /\ mem.lv = "Running" /\ mem.unknown = FALSE /\ mem.op = "None" /\ disk = mem
        /\ mem \in Instances
    BY BoundsAssumption DEF Init, Instances, Verdicts, BoundsAssumption
  <1>2. Basics
    <2>1. owed \in BOOLEAN /\ pane \in Panes /\ tick \in Passes /\ job \in Jobs
      BY NoJobFacts DEF Init, Panes, Passes
    <2>2. begun \in 0..MaxHandoffs /\ crashes \in 0..MaxCrashes
      BY BoundsAssumption DEF Init, BoundsAssumption
    <2>3. landed \subseteq Missions /\ excused \subseteq Missions /\ \A n \in landed : n <= begun
      BY DEF Init
    <2>4. QED
      BY <2>1, <2>2, <2>3 DEF Basics
  <1>3. RecordOK(mem, begun, landed) /\ RecordOK(disk, begun, landed) /\ Briefed(disk, landed) /\ Briefed(mem, landed)
    BY <1>1, <1>2, BoundsAssumption DEF Init, RecordOK, Briefed, BoundsAssumption
  <1>4. JobOK /\ FenceOK
    BY <1>1, NoJobFacts DEF Init, JobOK, FenceOK
  <1>5. OwesRow /\ FreshMission /\ FreshRow
    BY <1>1 DEF OwesRow, FreshMission, FreshRow
  <1>6. QED
    BY <1>1, <1>2, <1>3, <1>4, <1>5 DEF IInv

-----------------------------------------------------------------------------
(* One lemma per action.                                                   *)

\* Types that every step needs.
LEMMA Known ==
    IInv => /\ mem \in Instances /\ disk \in Instances /\ job \in Jobs
            /\ mem.prog \in Nat /\ mem.mission \in Nat /\ mem.prompt \in Nat
            /\ disk.prog \in Nat /\ disk.mission \in Nat /\ disk.prompt \in Nat
            /\ job.from \in Nat /\ begun \in Nat
            /\ \A n \in landed : n \in Nat /\ n # 0 /\ n <= begun
  BY InstanceNats, BoundsAssumption
     DEF IInv, Basics, RecordOK, Jobs, Missions, BoundsAssumption

\* HandoffSession keeps the invariant.
LEMMA HandoffSessionKeeps == IInv /\ HandoffSession => IInv'
  <1> SUFFICES ASSUME IInv, HandoffSession PROVE IInv'
    OBVIOUS
  <1> USE Known DEF hist
  <1>1. /\ begun' = begun + 1 /\ begun' \in 0..MaxHandoffs /\ begun' \in Nat
        /\ disk' = disk /\ owed' = owed /\ landed' = landed /\ excused' = excused
        /\ mem.mission = 0 /\ mem.verdict = "none" /\ mem.unknown = FALSE /\ job.pc = "idle"
    BY BoundsAssumption, NoJobFacts
       DEF HandoffSession, IInv, Basics, RecordOK, JobOK, BoundsAssumption, Instances
  <1>2. /\ mem' \in Instances /\ mem'.op = "Replacing" /\ mem'.prog = begun + 1
        /\ mem'.mission = 0 /\ mem'.verdict = "none" /\ mem'.prompt = mem.prompt
        /\ mem'.unknown = FALSE
    BY <1>1 DEF HandoffSession, Instances
  <1>3. /\ job' \in Jobs /\ job'.by = "handoff" /\ job'.pc = "swap" /\ job'.fenced = TRUE
        /\ job'.wasUnknown = FALSE /\ job'.from = mem.prog /\ job' # NoJob
    BY NoJobFacts DEF HandoffSession, Jobs, Instances
  <1>4. Basics'
    BY <1>1, <1>3 DEF HandoffSession, IInv, Basics
  <1>5. RecordOK(mem, begun, landed)'
    BY <1>1, <1>2 DEF IInv, RecordOK
  <1>6. RecordOK(disk, begun, landed)' /\ Briefed(disk, landed)' /\ disk'.op = "None"
    BY <1>1, LaterKeeps DEF IInv
  <1>7. JobOK'
    BY <1>1, <1>2, <1>3 DEF IInv, RecordOK, JobOK, SwapOK, Briefed
  <1>8. FenceOK' /\ OwesRow' /\ FreshMission' /\ FreshRow'
    BY <1>1, <1>2, <1>3 DEF IInv, RecordOK, FenceOK, OwesRow, FreshMission, FreshRow, Unexcused
  <1>9. QED
    BY <1>3, <1>4, <1>5, <1>6, <1>7, <1>8 DEF IInv

\* SwapFails keeps the invariant.
LEMMA SwapFailsKeeps == IInv /\ SwapFails => IInv'
  <1> SUFFICES ASSUME IInv, SwapFails PROVE IInv'
    OBVIOUS
  <1> USE Known DEF hist
  <1>1. /\ begun' = begun /\ disk' = disk /\ owed' = owed /\ landed' = landed
        /\ excused' = excused /\ crashes' = crashes /\ tick' = tick
        /\ job' = NoJob /\ SwapOK /\ mem.unknown = FALSE /\ mem.verdict = "none"
    BY DEF SwapFails, IInv, JobOK, SwapOK, RecordOK, Instances
  <1>2. /\ mem' \in Instances /\ mem'.op = "None" /\ mem'.prog = job.from
        /\ mem'.mission = 0 /\ mem'.verdict = "none" /\ mem'.prompt = mem.prompt
        /\ mem'.unknown = FALSE
    BY <1>1 DEF SwapFails, Instances, SwapOK, Jobs
  <1>3. Basics'
    BY <1>1, NoJobFacts DEF SwapFails, IInv, Basics, Panes
  <1>4. RecordOK(mem, begun, landed)' /\ Briefed(mem, landed)'
    BY <1>1, <1>2 DEF IInv, RecordOK, Briefed, SwapOK
  <1>5. JobOK'
    BY <1>1, NoJobFacts DEF JobOK
  <1>6. FenceOK' /\ OwesRow' /\ FreshMission' /\ FreshRow'
    BY <1>1, <1>2 DEF IInv, SwapOK, FenceOK, OwesRow, FreshMission, FreshRow, Unexcused
  <1>7. QED
    BY <1>1, <1>3, <1>4, <1>5, <1>6 DEF IInv

\* SwapAgent keeps the invariant.
LEMMA SwapAgentKeeps == IInv /\ SwapAgent => IInv'
  <1> SUFFICES ASSUME IInv, SwapAgent PROVE IInv'
    OBVIOUS
  <1> USE Known DEF hist
  <1>1. /\ begun' = begun /\ disk' = disk /\ owed' = owed /\ landed' = landed
        /\ excused' = excused /\ crashes' = crashes /\ tick' = tick /\ pane' = "busy"
        /\ SwapOK /\ mem.unknown = FALSE /\ job.wasUnknown = FALSE
    BY DEF SwapAgent, IInv, JobOK, SwapOK, Jobs, Instances
  <1>2. /\ mem' \in Instances /\ mem'.op = "Replacing" /\ mem'.prog = begun
        /\ mem'.mission = begun /\ mem'.verdict = "NotDelivered" /\ mem'.prompt < begun
        /\ mem'.unknown = FALSE
    <2>1. PICK prompt \in {mem.prompt, 0} :
             mem' = [ClearLimitReached(mem) EXCEPT !.mission = mem.prog,
                                                   !.verdict = "NotDelivered",
                                                   !.prompt = prompt]
      BY DEF SwapAgent
    <2>2. prompt \in 0..MaxHandoffs /\ prompt < begun
      BY <1>1, BoundsAssumption DEF SwapOK, Instances, BoundsAssumption
    <2>3. ClearLimitReached(mem) \in Instances /\ ClearLimitReached(mem).op = mem.op
          /\ ClearLimitReached(mem).prog = mem.prog /\ ClearLimitReached(mem).unknown = mem.unknown
      BY DEF ClearLimitReached, Instances
    <2>4. "NotDelivered" \in Verdicts /\ mem.prog \in 0..MaxHandoffs
      BY DEF Verdicts, Instances
    <2>5. QED
      BY <1>1, <2>1, <2>2, <2>3, <2>4 DEF Instances, SwapOK
  <1>3. /\ job' \in Jobs /\ job'.by = "handoff" /\ job'.pc = "checkpoint" /\ job'.fenced = TRUE
        /\ job'.wasUnknown = FALSE /\ job' # NoJob
    BY <1>1, NoJobFacts DEF SwapAgent, Jobs, SwapOK
  <1>4. Basics'
    BY <1>1, <1>3 DEF IInv, Basics, Panes
  <1>5. RecordOK(mem, begun, landed)' /\ Briefed(mem, landed)'
    BY <1>1, <1>2, InstanceNats DEF RecordOK, Briefed, SwapOK
  <1>6. JobOK'
    BY <1>1, <1>2, <1>3 DEF JobOK, UnsentOK, SwapOK
  <1>7. FenceOK' /\ OwesRow' /\ FreshMission' /\ FreshRow'
    BY <1>1, <1>2, <1>3
       DEF IInv, RecordOK, SwapOK, FenceOK, OwesRow, FreshMission, FreshRow, Unexcused
  <1>8. QED
    BY <1>1, <1>4, <1>5, <1>6, <1>7 DEF IInv

\* Checkpoint keeps the invariant.
LEMMA CheckpointKeeps == IInv /\ Checkpoint => IInv'
  <1> SUFFICES ASSUME IInv, Checkpoint PROVE IInv'
    OBVIOUS
  <1> USE Known DEF hist
  <1> DEFINE m == [mem EXCEPT !.lv = "Running"]
  <1>1. /\ begun' = begun /\ mem' = mem /\ owed' = owed /\ landed' = landed /\ pane' = pane
        /\ excused' = excused /\ crashes' = crashes /\ tick' = tick /\ disk' \in {disk, Row(m)}
        /\ UnsentOK /\ job.by = "handoff" /\ mem.verdict = "NotDelivered" /\ mem.mission # 0
        /\ mem.unknown = FALSE /\ job.wasUnknown = FALSE
    BY DEF Checkpoint, bestEffort, IInv, JobOK, UnsentOK, Jobs, Instances
  <1>2. /\ m \in Instances /\ m.prog = mem.prog /\ m.mission = mem.mission
        /\ m.verdict = mem.verdict /\ m.prompt = mem.prompt /\ m.unknown = mem.unknown
    BY UpdateFields
  <1> HIDE DEF m
  <1>3. /\ job' \in Jobs /\ job'.by = "handoff" /\ job'.pc = "wait" /\ job'.fenced = job.fenced
        /\ job'.wasUnknown = FALSE /\ job' # NoJob
    BY <1>1, NoJobFacts DEF Checkpoint, Jobs
  <1>4. Basics'
    BY <1>1, <1>3 DEF IInv, Basics
  <1>5. RecordOK(mem, begun, landed) /\ Briefed(mem, landed)
    BY <1>1, NoJobFacts DEF IInv, Checkpoint
  <1>6. RecordOK(Row(m), begun, landed) /\ Briefed(Row(m), landed) /\ Row(m).op = "None"
        /\ Row(m).mission = mem.mission /\ Row(m).verdict = mem.verdict
    BY <1>2, <1>5, SameBrief, RowKeeps, RowFields
  <1>7. RecordOK(disk, begun, landed)' /\ Briefed(disk, landed)' /\ disk'.op = "None"
    BY <1>1, <1>6 DEF IInv
  <1>8. JobOK'
    BY <1>1, <1>3 DEF JobOK, UnsentOK
  <1>9. FenceOK' /\ OwesRow' /\ FreshMission' /\ FreshRow'
    BY <1>1, <1>3, <1>6 DEF IInv, FenceOK, OwesRow, FreshMission, FreshRow, Unexcused
  <1>10. QED
    BY <1>1, <1>4, <1>5, <1>7, <1>8, <1>9 DEF IInv

\* WaitForReady keeps the invariant.
LEMMA WaitForReadyKeeps == IInv /\ WaitForReady => IInv'
  <1> SUFFICES ASSUME IInv, WaitForReady PROVE IInv'
    OBVIOUS
  <1> USE Known DEF hist
  <1>1. /\ begun' = begun /\ disk' = disk /\ owed' = owed /\ landed' = landed /\ pane' = pane
        /\ excused' = excused /\ crashes' = crashes /\ tick' = tick
        /\ job.pc = "wait" /\ UnsentOK /\ mem.mission # 0 /\ mem.unknown = FALSE
        /\ job.by # "none"
        /\ job.wasUnknown => job.by = "retry"
    BY NoJobFacts DEF WaitForReady, IInv, JobOK, Instances
  <1>2. RecordOK(mem, begun, landed) /\ Briefed(mem, landed)
    BY <1>1 DEF IInv
  <1>3. CASE mem' = mem /\ job' = [job EXCEPT !.pc = "mark"]
    <2>1. /\ job' \in Jobs /\ job'.by = job.by /\ job'.pc = "mark" /\ job'.fenced = job.fenced
          /\ job'.wasUnknown = job.wasUnknown /\ job' # NoJob
      BY <1>1, <1>3, NoJobFacts DEF Jobs
    <2>2. Basics'
      BY <1>1, <2>1 DEF IInv, Basics
    <2>3. JobOK'
      BY <1>1, <1>3, <2>1 DEF JobOK, UnsentOK
    <2>4. FenceOK' /\ OwesRow' /\ FreshMission' /\ FreshRow'
      BY <1>1, <1>3, <2>1 DEF IInv, FenceOK, OwesRow, FreshMission, FreshRow, Unexcused
    <2>5. QED
      BY <1>1, <1>2, <1>3, <2>2, <2>3, <2>4 DEF IInv
  <1>4. CASE /\ mem' = [mem EXCEPT !.verdict = "Ambiguous"]
             /\ \E g \in {"limit", "unready"} : job' = [job EXCEPT !.pc = "settle", !.got = g]
    <2>1. /\ job' \in Jobs /\ job'.by = job.by /\ job'.pc = "settle" /\ job'.fenced = job.fenced
          /\ job'.wasUnknown = job.wasUnknown /\ job' # NoJob /\ job'.got \in {"limit", "unready"}
      BY <1>1, <1>4, NoJobFacts DEF Jobs
    <2>2. /\ mem' \in Instances /\ mem'.verdict = "Ambiguous" /\ mem'.prog = mem.prog
          /\ mem'.mission = mem.mission /\ mem'.prompt = mem.prompt
          /\ mem'.unknown = FALSE /\ mem'.op = mem.op
      BY <1>1, <1>4, UpdateFields, ZenonT(60) DEF Verdicts
    <2>3. Basics'
      BY <1>1, <2>1 DEF IInv, Basics
    <2>4. RecordOK(mem, begun, landed)' /\ Briefed(mem, landed)'
      BY <1>1, <1>2, <2>2 DEF RecordOK, Briefed
    <2>5. JobOK'
      BY <1>1, <2>1, <2>2 DEF JobOK, UnsentOK, SettleOK
    <2>6. FenceOK' /\ OwesRow' /\ FreshMission' /\ FreshRow'
      BY <1>1, <2>1, <2>2 DEF IInv, FenceOK, OwesRow, FreshMission, FreshRow, Unexcused
    <2>7. QED
      BY <1>1, <2>3, <2>4, <2>5, <2>6 DEF IInv
  <1>5. QED
    BY <1>3, <1>4 DEF WaitForReady

\* beginHandoffMissionDelivery keeps the invariant.
LEMMA beginHandoffMissionDeliveryKeeps == IInv /\ beginHandoffMissionDelivery => IInv'
  <1> SUFFICES ASSUME IInv, beginHandoffMissionDelivery PROVE IInv'
    OBVIOUS
  <1> USE Known DEF hist
  <1>1. /\ begun' = begun /\ landed' = landed /\ pane' = pane
        /\ excused' = excused /\ crashes' = crashes /\ tick' = tick
        /\ job.pc = "mark" /\ UnsentOK /\ mem.mission # 0 /\ mem.unknown = FALSE
        /\ job.by # "none"
        /\ job.wasUnknown => job.by = "retry"
    BY NoJobFacts DEF beginHandoffMissionDelivery, IInv, JobOK, Instances
  <1>2. RecordOK(mem, begun, landed) /\ Briefed(mem, landed)
    BY <1>1 DEF IInv
  \* The marker is written.
  <1>3. CASE /\ mem' = [mem EXCEPT !.verdict = "Ambiguous"]
             /\ disk' = Row(mem') /\ owed' = FALSE
             /\ job' = [NoJob EXCEPT !.by = job.by, !.pc = "submit"]
    <2>1. /\ job' \in Jobs /\ job'.by = job.by /\ job'.pc = "submit"
          /\ job'.wasUnknown = FALSE /\ job' # NoJob
      BY <1>1, <1>3, NoJobFacts DEF Jobs
    <2>2. /\ mem' \in Instances /\ mem'.verdict = "Ambiguous" /\ mem'.prog = mem.prog
          /\ mem'.mission = mem.mission /\ mem'.prompt = mem.prompt
          /\ mem'.unknown = FALSE /\ mem'.op = mem.op
      BY <1>1, <1>3, UpdateFields, ZenonT(60) DEF Verdicts
    <2>3. Basics'
      BY <1>1, <1>3, <2>1 DEF IInv, Basics
    <2>4. RecordOK(mem, begun, landed)' /\ Briefed(mem, landed)'
      BY <1>1, <1>2, <2>2 DEF RecordOK, Briefed
    <2>5. /\ RecordOK(disk, begun, landed)' /\ Briefed(disk, landed)' /\ disk'.op = "None"
          /\ disk'.verdict = "Ambiguous" /\ disk'.mission = mem'.mission
      BY <1>1, <1>3, <2>2, <2>4, RowKeeps, RowFields
    <2>6. JobOK'
      BY <1>1, <2>1, <2>2, <2>5 DEF IInv, JobOK, UnsentOK, SubmitOK, FreshMission, Unexcused
    <2>7. FenceOK' /\ OwesRow' /\ FreshMission' /\ FreshRow'
      BY <1>1, <2>1, <2>2, <2>5 DEF FenceOK, OwesRow, FreshMission, FreshRow
    <2>8. QED
      BY <2>3, <2>4, <2>5, <2>6, <2>7 DEF IInv
  \* It is not: the attempt ends as it began.
  <1>4. CASE /\ mem' = LET m == [mem EXCEPT !.verdict = PreviousVerdict]
                       IN  IF job.wasUnknown THEN MarkStartupStateUnknown(m) ELSE m
             /\ owed' = TRUE /\ disk' = disk /\ job' = NoJob
    <2>1. /\ mem' \in Instances /\ mem'.verdict = mem.verdict /\ mem'.prog = mem.prog
          /\ mem'.mission = mem.mission /\ mem'.prompt = mem.prompt
          /\ job.by # "retry" => mem'.unknown = FALSE
          /\ mem'.op = mem.op \/ mem'.op = "None"
      <3> DEFINE m == [mem EXCEPT !.verdict = PreviousVerdict]
      <3>1. /\ m \in Instances /\ m.prog = mem.prog /\ m.mission = mem.mission
            /\ m.verdict = mem.verdict /\ m.prompt = mem.prompt /\ m.unknown = mem.unknown
            /\ m.op = mem.op
        BY DEF PreviousVerdict, Instances
      <3>2. mem' = IF job.wasUnknown THEN MarkStartupStateUnknown(m) ELSE m
        BY <1>4
      <3> HIDE DEF m
      <3>3. QED
        BY <1>1, <3>1, <3>2, MarkFields DEF Jobs
    <2>2. Basics'
      BY <1>1, <1>4, NoJobFacts DEF IInv, Basics
    <2>3. RecordOK(mem, begun, landed)' /\ Briefed(mem, landed)'
      BY <1>1, <1>2, <2>1 DEF RecordOK, Briefed, UnsentOK
    <2>4. JobOK'
      BY <1>4, NoJobFacts DEF JobOK
    <2>5. FenceOK' /\ OwesRow' /\ FreshMission' /\ FreshRow'
      BY <1>1, <1>4, <2>1
         DEF IInv, UnsentOK, FenceOK, OwesRow, FreshMission, FreshRow, Unexcused
    <2>6. QED
      BY <1>1, <1>4, <2>2, <2>3, <2>4, <2>5 DEF IInv
  <1>5. QED
    BY <1>3, <1>4 DEF beginHandoffMissionDelivery

\* SubmitMission keeps the invariant.
LEMMA SubmitMissionKeeps == IInv /\ SubmitMission => IInv'
  <1> SUFFICES ASSUME IInv, SubmitMission PROVE IInv'
    OBVIOUS
  <1> USE Known DEF hist
  <1>1. /\ begun' = begun /\ disk' = disk /\ owed' = owed /\ pane' = pane
        /\ crashes' = crashes /\ tick' = tick
        /\ job.pc = "submit" /\ SubmitOK /\ mem.mission # 0 /\ mem.unknown = FALSE
        /\ job.by # "none"
        /\ job.wasUnknown => job.by = "retry"
        /\ mem.mission \in Missions /\ mem.mission <= begun
        /\ excused' = IF job.by = "retry" THEN excused \cup {mem.mission} ELSE excused
    BY NoJobFacts, BoundsAssumption
       DEF SubmitMission, IInv, JobOK, Instances, Missions, RecordOK, BoundsAssumption
  <1>2. RecordOK(mem, begun, landed) /\ Briefed(mem, landed)
    BY <1>1 DEF IInv
  <1>3. PICK verdict \in Verdicts \ {"none"}, lands \in BOOLEAN :
          /\ verdict = "Delivered" => lands
          /\ verdict = "NotDelivered" => ~lands
          /\ mem' = [mem EXCEPT !.verdict = verdict]
          /\ landed' = IF lands THEN landed \cup {mem.mission} ELSE landed
    BY DEF SubmitMission
  <1>4. /\ job' \in Jobs /\ job'.by = job.by /\ job'.pc = "settle" /\ job'.got = "sent"
        /\ job'.wasUnknown = job.wasUnknown /\ job' # NoJob
    BY <1>1, NoJobFacts DEF SubmitMission, Jobs
  <1>5. /\ mem' \in Instances /\ mem'.verdict = verdict /\ mem'.prog = mem.prog
        /\ mem'.mission = mem.mission /\ mem'.prompt = mem.prompt
        /\ mem'.unknown = FALSE /\ mem'.op = mem.op
    BY <1>1, <1>3 DEF Instances
  <1>6. Basics'
    BY <1>1, <1>3, <1>4 DEF IInv, Basics
  <1>7. RecordOK(mem, begun, landed)' /\ Briefed(mem, landed)'
    BY <1>1, <1>2, <1>3, <1>5 DEF RecordOK, Briefed
  <1>8. RecordOK(disk, begun, landed)' /\ Briefed(disk, landed)' /\ disk'.op = "None"
    BY <1>1, <1>3, LaterKeeps DEF IInv
  <1>9. JobOK'
    BY <1>1, <1>4, <1>5 DEF IInv, JobOK, SettleOK
  <1>10. FenceOK' /\ OwesRow' /\ FreshMission' /\ FreshRow'
    BY <1>1, <1>3, <1>4, <1>5
       DEF IInv, SubmitOK, FenceOK, OwesRow, FreshMission, FreshRow, Unexcused
  <1>11. QED
    BY <1>6, <1>7, <1>8, <1>9, <1>10 DEF IInv

\* A settlement that is written or owed: what it needs of the new instance, and
\* what it leaves of the row.
LEMMA PersistKeeps ==
    ASSUME IInv, begun' = begun, landed \subseteq landed', persistSettlement(mem'),
           RecordOK(mem, begun, landed)', Briefed(mem, landed)'
    PROVE  /\ RecordOK(disk, begun, landed)' /\ Briefed(disk, landed)' /\ disk'.op = "None"
           /\ owed' \in BOOLEAN /\ OwesRow'
           /\ \/ disk' = disk
              \/ disk'.mission = mem'.mission /\ disk'.verdict = mem'.verdict
  <1> USE Known
  <1>1. CASE disk' = Row(mem') /\ owed' = FALSE
    <2>1. mem' \in Instances
      BY DEF RecordOK
    <2>2. QED
      BY <1>1, <2>1, RowKeeps, RowFields DEF OwesRow
  <1>2. CASE disk' = disk /\ owed' = TRUE
    BY <1>2, LaterKeeps DEF IInv, OwesRow
  <1>3. QED
    BY <1>1, <1>2 DEF persistSettlement

\* What the end of an attempt, or a step outside one, still has to show when the
\* instance it leaves owes nothing any more.
LEMMA PaidKeeps ==
    ASSUME IInv, begun' = begun, crashes' = crashes, landed \subseteq landed',
           landed' \subseteq Missions, \A n \in landed' : n <= begun, excused' = excused,
           pane' \in Panes, tick' \in Passes, job' = NoJob, persistSettlement(mem'),
           RecordOK(mem, begun, landed)', Briefed(mem, landed)',
           mem'.mission = 0, mem'.op = "None"
    PROVE  IInv'
  <1> USE Known
  <1>1. Basics'
    BY PersistKeeps, NoJobFacts DEF IInv, Basics
  <1>2. mem'.verdict = "none"
    BY DEF RecordOK
  <1>3. JobOK'
    BY NoJobFacts DEF JobOK
  <1>4. FenceOK' /\ FreshMission'
    BY <1>2 DEF FenceOK, FreshMission
  <1>5. FreshRow'
    BY <1>2, PersistKeeps DEF FreshRow, RecordOK
  <1>6. QED
    BY <1>1, <1>3, <1>4, <1>5, PersistKeeps DEF IInv

\* SettleLimit keeps the invariant.
LEMMA SettleLimitKeeps == IInv /\ SettleLimit => IInv'
  <1> SUFFICES ASSUME IInv, SettleLimit PROVE IInv'
    OBVIOUS
  <1> USE Known DEF hist
  <1>1. /\ begun' = begun /\ landed' = landed /\ pane' = pane /\ excused' = excused
        /\ crashes' = crashes /\ tick' = tick /\ job' = NoJob /\ persistSettlement(mem')
        /\ mem' = TransferToLimit(mem) /\ mem.mission # 0 /\ mem.unknown = FALSE
        /\ job.pc = "settle"
    BY DEF SettleLimit, IInv, JobOK, Instances
  <1>2. RecordOK(mem, begun, landed)' /\ Briefed(mem, landed)'
    BY <1>1, TransferFields, Parked DEF IInv
  <1>3. QED
    BY <1>1, <1>2, TransferFields, PaidKeeps DEF IInv, Basics

\* SettleUnready keeps the invariant.
LEMMA SettleUnreadyKeeps == IInv /\ SettleUnready => IInv'
  <1> SUFFICES ASSUME IInv, SettleUnready PROVE IInv'
    OBVIOUS
  <1> USE Known DEF hist
  <1>1. /\ begun' = begun /\ landed' = landed /\ pane' = pane /\ excused' = excused
        /\ crashes' = crashes /\ tick' = tick /\ job' = NoJob /\ owed' = owed
        /\ mem.mission # 0 /\ mem.verdict = "Ambiguous" /\ job.pc = "settle"
        /\ job.fenced <=> mem.op = "Replacing"
    BY DEF SettleUnready, bestEffort, IInv, JobOK, SettleOK
  <1>2. /\ mem' \in Instances /\ mem'.verdict = "Ambiguous" /\ mem'.prog = mem.prog
        /\ mem'.mission = mem.mission /\ mem'.prompt = mem.prompt /\ mem'.op = "None"
        /\ disk' \in {disk, Row(mem')}
    <2>1. CASE job.fenced \/ job.wasUnknown
      BY <1>1, <2>1, MarkFields, ZenonT(60) DEF SettleUnready, bestEffort
    <2>2. CASE ~(job.fenced \/ job.wasUnknown)
      BY <1>1, <2>2 DEF SettleUnready, Instances
    <2>3. QED
      BY <2>1, <2>2
  <1>3. Basics'
    BY <1>1, NoJobFacts DEF IInv, Basics
  <1>4. RecordOK(mem, begun, landed)' /\ Briefed(mem, landed)'
    BY <1>1, <1>2 DEF IInv, RecordOK, Briefed
  <1>5. RecordOK(disk, begun, landed)' /\ Briefed(disk, landed)' /\ disk'.op = "None"
    BY <1>1, <1>2, <1>4, RowKeeps, RowFields DEF IInv
  <1>6. JobOK'
    BY <1>1, NoJobFacts DEF JobOK
  <1>7. FenceOK' /\ OwesRow' /\ FreshMission' /\ FreshRow'
    BY <1>1, <1>2, RowFields DEF IInv, FenceOK, OwesRow, FreshMission, FreshRow, Unexcused
  <1>8. QED
    BY <1>3, <1>4, <1>5, <1>6, <1>7 DEF IInv

\* SettleSend keeps the invariant.
LEMMA SettleSendKeeps == IInv /\ SettleSend => IInv'
  <1> SUFFICES ASSUME IInv, SettleSend PROVE IInv'
    OBVIOUS
  <1> USE Known DEF hist
  <1>1. /\ begun' = begun /\ landed' = landed /\ pane' = pane /\ excused' = excused
        /\ crashes' = crashes /\ tick' = tick /\ job' = NoJob /\ persistSettlement(mem')
        /\ mem' = AfterSend(mem) /\ mem.mission # 0 /\ job.pc = "settle"
    BY DEF SettleSend, IInv, JobOK
  <1>2. RecordOK(mem, begun, landed) /\ Briefed(mem, landed)
    BY <1>1 DEF IInv
  <1>3. CASE mem.verdict = "Delivered"
    <2>1. /\ mem' \in Instances /\ mem'.prog = mem.prog /\ mem'.mission = 0
          /\ mem'.verdict = "none" /\ mem'.prompt = mem.prompt /\ mem'.op = "None"
      BY <1>1, <1>3, CommitFields, ClearFields DEF AfterSend
    <2>2. RecordOK(mem, begun, landed)' /\ Briefed(mem, landed)'
      BY <1>1, <1>2, <1>3, <2>1, Parked DEF RecordOK
    <2>3. QED
      BY <1>1, <2>1, <2>2, PaidKeeps DEF IInv, Basics
  <1>4. CASE mem.verdict \in {"Ambiguous", "NotDelivered"}
    <2>1. /\ mem' \in Instances /\ mem'.prog = mem.prog /\ mem'.mission = mem.mission
          /\ mem'.verdict = mem.verdict /\ mem'.prompt = mem.prompt
          /\ mem'.unknown = mem.unknown
          /\ mem.verdict = "Ambiguous" => mem'.op = "None"
      BY <1>1, <1>4, CommitFields DEF AfterSend
    <2>2. RecordOK(mem, begun, landed)' /\ Briefed(mem, landed)'
      BY <1>1, <1>2, <2>1, SameBrief
    <2>3. Basics'
      BY <1>1, <2>2, PersistKeeps, NoJobFacts DEF IInv, Basics
    <2>4. JobOK'
      BY <1>1, NoJobFacts DEF JobOK
    <2>5. FenceOK' /\ FreshMission' /\ FreshRow'
      BY <1>1, <1>4, <2>1, <2>2, PersistKeeps
         DEF IInv, FenceOK, FreshMission, FreshRow, Unexcused
    <2>6. QED
      BY <1>1, <2>2, <2>3, <2>4, <2>5, PersistKeeps DEF IInv
  <1>5. QED
    BY <1>2, <1>3, <1>4, <1>1, InstanceFields DEF RecordOK, Verdicts

\* An attempt that is admitted: nothing but its own record is new.
LEMMA AttemptKeeps ==
    ASSUME IInv, NEW who \in {"auto", "retry"}, job = NoJob, job' = Attempt(who),
           begun' = begun, crashes' = crashes, landed' = landed, excused' = excused,
           disk' = disk, owed' = owed, pane' \in Panes, tick' \in Passes,
           mem' \in Instances, mem'.prog = mem.prog, mem'.mission = mem.mission,
           mem'.verdict = mem.verdict, mem'.prompt = mem.prompt, mem'.op = mem.op,
           mem'.unknown = FALSE, mem.mission # 0,
           who = "retry" => mem.verdict = "Ambiguous",
           who = "auto" => mem.verdict = "NotDelivered" /\ mem.unknown = FALSE
    PROVE  IInv'
  <1> USE Known
  <1>1. /\ job' \in Jobs /\ job'.by = who /\ job'.pc = "wait" /\ job' # NoJob
        /\ job'.fenced = (mem.op = "Replacing") /\ job'.wasUnknown = mem.unknown
    BY NoJobFacts, ZenonT(60) DEF Attempt, Jobs, Instances
  <1>2. Basics'
    BY <1>1 DEF IInv, Basics
  <1>3. job.pc = "idle" /\ (mem.op = "Replacing" => mem.verdict # "Ambiguous")
    BY NoJobFacts DEF IInv, FenceOK
  <1>4. RecordOK(mem, begun, landed)' /\ Briefed(mem, landed)'
    BY <1>3 DEF IInv, RecordOK, Briefed
  <1>5. JobOK'
    BY <1>1, <1>3, InstanceFields DEF JobOK, UnsentOK
  <1>6. FenceOK' /\ OwesRow' /\ FreshMission' /\ FreshRow'
    BY <1>1 DEF IInv, FenceOK, OwesRow, FreshMission, FreshRow, Unexcused
  <1>7. QED
    BY <1>2, <1>4, <1>5, <1>6 DEF IInv

\* ExplicitRetry keeps the invariant.
LEMMA ExplicitRetryKeeps == IInv /\ ExplicitRetry => IInv'
  <1> SUFFICES ASSUME IInv, ExplicitRetry PROVE IInv'
    OBVIOUS
  <1> USE Known DEF hist
  <1>1. /\ begun' = begun /\ landed' = landed /\ pane' = pane /\ excused' = excused
        /\ crashes' = crashes /\ tick' = tick /\ job = NoJob
        /\ mem.mission # 0 /\ mem.verdict = "Ambiguous"
    BY DEF ExplicitRetry, CanRetryPendingHandoffMissionDelivery
  <1> DEFINE m == ResolveStartupState(mem)
  <1>2. /\ m \in Instances /\ m.op = mem.op /\ m.unknown = FALSE /\ m.prog = mem.prog
        /\ m.mission = mem.mission /\ m.verdict = mem.verdict /\ m.prompt = mem.prompt
    BY ResolveFields
  <1>3. CASE mem.lv = "Limit"
    <2>1. mem' = TransferToLimit(m) /\ persistSettlement(mem') /\ job' = NoJob
      BY <1>1, <1>3 DEF ExplicitRetry
    <2> HIDE DEF m
    <2>2. /\ mem' \in Instances /\ mem'.prog = mem.prog /\ mem'.mission = 0
          /\ mem'.verdict = "none" /\ mem'.prompt = mem.mission /\ mem'.op = "None"
      BY <1>2, <2>1, TransferFields
    <2>3. RecordOK(mem, begun, landed)' /\ Briefed(mem, landed)'
      BY <1>1, <2>2, Parked DEF IInv
    <2>4. QED
      BY <1>1, <2>1, <2>2, <2>3, PaidKeeps DEF IInv, Basics
  <1>4. CASE mem.lv # "Limit"
    <2>1. mem' = m /\ job' = Attempt("retry") /\ disk' = disk /\ owed' = owed
      BY <1>4 DEF ExplicitRetry
    <2> HIDE DEF m
    <2>2. pane' \in Panes /\ tick' \in Passes
      BY <1>1 DEF IInv, Basics
    <2>3. QED
      BY <1>1, <1>2, <2>1, <2>2, AttemptKeeps
  <1>5. QED
    BY <1>3, <1>4

\* ConfirmHandoffDelivery keeps the invariant.
LEMMA ConfirmHandoffDeliveryKeeps == IInv /\ ConfirmHandoffDelivery => IInv'
  <1> SUFFICES ASSUME IInv, ConfirmHandoffDelivery PROVE IInv'
    OBVIOUS
  <1> USE Known DEF hist
  <1> DEFINE r == ResolveStartupState(mem)
             m == [r EXCEPT !.op = "None", !.lv = IF @ = "Limit" THEN "Limit" ELSE "Running"]
  <1>1. /\ begun' = begun /\ landed' = landed \cup {mem.mission} /\ pane' = pane
        /\ excused' = excused /\ crashes' = crashes /\ tick' = tick /\ job' = NoJob
        /\ persistSettlement(mem') /\ mem.mission # 0 /\ mem' = ClearPendingHandoffMission(m)
    BY DEF ConfirmHandoffDelivery, CanConfirmPendingHandoffDelivery
  <1>2. /\ r \in Instances /\ r.prog = mem.prog /\ r.prompt = mem.prompt
    BY ResolveFields
  <1> HIDE DEF r
  <1>3. m \in Instances /\ m.prog = mem.prog /\ m.prompt = mem.prompt /\ m.op = "None"
    BY <1>2 DEF Instances
  <1> HIDE DEF m
  <1>4. /\ mem' \in Instances /\ mem'.prog = mem.prog /\ mem'.mission = 0
        /\ mem'.verdict = "none" /\ mem'.prompt = mem.prompt /\ mem'.op = "None"
    BY <1>1, <1>3, ClearFields
  <1>5. mem.mission \in Missions /\ mem.mission <= begun /\ landed' \subseteq Missions
        /\ \A n \in landed' : n <= begun
    <2>1. mem.mission \in Missions
      BY <1>1, InstanceFields, BoundsAssumption DEF Missions, BoundsAssumption
    <2>2. mem.mission <= begun
      BY <1>1 DEF IInv, RecordOK
    <2>3. QED
      BY <1>1, <2>1, <2>2 DEF IInv, Basics
  <1>6. RecordOK(mem, begun, landed') /\ mem.mission \in landed'
    BY <1>1, LaterKeeps DEF IInv
  <1>7. RecordOK(mem, begun, landed)' /\ Briefed(mem, landed)'
    BY <1>1, <1>4, <1>6, Parked
  <1>8. QED
    BY <1>1, <1>4, <1>5, <1>7, PaidKeeps DEF IInv, Basics

\* Steps that leave the brief's fields of the instance alone while no attempt
\* runs, and write the row or owe the write.
LEMMA SameKeeps ==
    ASSUME IInv, begun' = begun, crashes' = crashes, landed \subseteq landed',
           landed' \subseteq Missions, \A n \in landed' : n <= begun, excused' = excused,
           pane' \in Panes, tick' \in Passes, job = NoJob, job' = NoJob,
           persistSettlement(mem'),
           mem' \in Instances, mem'.prog = mem.prog, mem'.mission = mem.mission,
           mem'.verdict = mem.verdict, mem'.prompt = mem.prompt, mem'.op = mem.op,
           mem'.unknown = mem.unknown,
           \A n \in landed' \ landed : n # mem.mission
    PROVE  IInv'
  <1> USE Known
  <1>1. RecordOK(mem, begun, landed)' /\ Briefed(mem, landed)'
    BY SameBrief, LaterKeeps, NoJobFacts DEF IInv
  <1>2. Basics'
    BY <1>1, PersistKeeps, NoJobFacts DEF IInv, Basics
  <1>3. JobOK'
    BY NoJobFacts DEF JobOK
  <1>4. FenceOK' /\ FreshMission' /\ FreshRow'
    BY <1>1, PersistKeeps DEF IInv, FenceOK, FreshMission, FreshRow, Unexcused
  <1>5. QED
    BY <1>1, <1>2, <1>3, <1>4, PersistKeeps DEF IInv

\* The prompt that a resume sends again is not the mission: whoever owes one has
\* another prompt.
LEMMA ResumeFromLimitKeeps == IInv /\ ResumeFromLimit /\ tick' \in Passes => IInv'
  <1> SUFFICES ASSUME IInv, ResumeFromLimit, tick' \in Passes PROVE IInv'
    OBVIOUS
  <1> USE Known
  <1>1. /\ begun' = begun /\ landed' \in {landed, landed \cup ({mem.prompt} \ {0})}
        /\ pane' \in Panes /\ excused' = excused /\ crashes' = crashes /\ job = NoJob
        /\ job' = NoJob /\ persistSettlement(mem')
    BY DEF ResumeFromLimit, IInv, Basics, Panes
  <1>2. /\ mem' \in Instances /\ mem'.prog = mem.prog /\ mem'.mission = mem.mission
        /\ mem'.verdict = mem.verdict /\ mem'.prompt = mem.prompt /\ mem'.op = mem.op
        /\ mem'.unknown = mem.unknown
    BY DEF ResumeFromLimit, ClearLimitReached, Instances
  <1>3. /\ landed \subseteq landed' /\ landed' \subseteq Missions
        /\ \A n \in landed' : n <= begun
        /\ \A n \in landed' \ landed : n # mem.mission
    BY <1>1, BoundsAssumption
       DEF IInv, Basics, RecordOK, Instances, Missions, BoundsAssumption
  <1>4. QED
    BY <1>1, <1>2, <1>3, SameKeeps

\* Steps of the poll and of the pane that touch none of it.
LEMMA QuietKeeps ==
    ASSUME IInv, UNCHANGED <<mem, disk, owed, job, begun, crashes, hist>>,
           pane' \in Panes, tick' \in Passes
    PROVE  IInv'
  <1> USE DEF hist
  <1>1. Basics'
    BY DEF IInv, Basics
  <1>2. JobOK' /\ FenceOK' /\ OwesRow' /\ FreshMission' /\ FreshRow'
    BY DEF IInv, JobOK, SwapOK, UnsentOK, SubmitOK, SettleOK, FenceOK, OwesRow, FreshMission,
           FreshRow, Unexcused
  <1>3. QED
    BY <1>1, <1>2 DEF IInv

\* PollObserve keeps the invariant.
LEMMA PollObserveKeeps == IInv /\ PollObserve => IInv'
  <1> SUFFICES ASSUME IInv, PollObserve PROVE IInv'
    OBVIOUS
  <1> USE Known DEF hist
  <1>1. CASE /\ Pass("observe", "persist") /\ mem.op = "None" /\ ~mem.unknown
             /\ mem' = [mem EXCEPT !.lv = Observed[pane]]
             /\ UNCHANGED <<disk, owed, pane, job, begun, crashes, hist>>
    <2>1. /\ mem' \in Instances /\ mem'.prog = mem.prog /\ mem'.mission = mem.mission
          /\ mem'.verdict = mem.verdict /\ mem'.prompt = mem.prompt /\ mem'.op = mem.op
          /\ mem'.unknown = mem.unknown
      <3>1. Observed[pane] \in {"Running", "Ready", "Limit", "Lost"}
        BY DEF IInv, Basics, Panes, Observed
      <3>2. QED
        BY <1>1, <3>1 DEF Instances
    <2>2. Basics'
      BY <1>1 DEF Pass, Passes, IInv, Basics
    <2>3. RecordOK(mem, begun, landed)' /\ (job'.pc # "swap" => Briefed(mem, landed)')
      BY <1>1, <2>1, SameBrief DEF IInv
    <2>4. JobOK' /\ FenceOK' /\ OwesRow' /\ FreshMission' /\ FreshRow'
      BY <1>1, <2>1 DEF IInv, JobOK, SwapOK, UnsentOK, SubmitOK, SettleOK, FenceOK, OwesRow,
                        FreshMission, FreshRow, Unexcused
    <2>5. QED
      BY <1>1, <2>2, <2>3, <2>4 DEF IInv
  <1>2. CASE /\ Pass("observe", "restore")
             /\ UNCHANGED <<mem, disk, owed, pane, job, begun, crashes, hist>>
    <2>1. pane' \in Panes /\ tick' \in Passes
      BY <1>2 DEF Pass, Passes, IInv, Basics
    <2>2. QED
      BY <1>2, <2>1, QuietKeeps
  <1>3. QED
    BY <1>1, <1>2 DEF PollObserve

\* A whole-row write of the instance as it stands, outside a swap.
LEMMA WriteKeeps ==
    ASSUME IInv, UNCHANGED <<mem, job, begun, crashes, hist>>,
           pane' \in Panes, tick' \in Passes, owed' \in BOOLEAN, job.pc # "swap",
           disk' = Row(mem)
    PROVE  IInv'
  <1> USE Known DEF hist
  <1>1. Basics'
    BY DEF IInv, Basics
  <1>2. /\ disk'.mission = mem.mission /\ disk'.verdict = mem.verdict
        /\ RecordOK(disk, begun, landed)' /\ Briefed(disk, landed)' /\ disk'.op = "None"
    BY RowKeeps, RowFields DEF IInv
  <1>3. JobOK'
    BY <1>2 DEF IInv, JobOK, SwapOK, UnsentOK, SubmitOK, SettleOK, Unexcused
  <1>4. FenceOK' /\ OwesRow' /\ FreshMission' /\ FreshRow'
    BY <1>2 DEF IInv, FenceOK, OwesRow, FreshMission, FreshRow, Unexcused
  <1>5. QED
    BY <1>1, <1>2, <1>3, <1>4 DEF IInv

\* The poll's write cedes to a fence, and a swap raises one.
LEMMA PollPersistKeeps == IInv /\ PollPersist => IInv'
  <1> SUFFICES ASSUME IInv, PollPersist PROVE IInv'
    OBVIOUS
  <1> USE Known DEF hist
  <1>1. pane' \in Panes /\ tick' \in Passes /\ owed' \in BOOLEAN
    BY DEF PollPersist, Pass, Passes, IInv, Basics
  <1>2. CASE PollMayWrite /\ disk' = Row(mem)
    <2>1. job.pc # "swap"
      BY <1>2 DEF PollMayWrite, IInv, JobOK, SwapOK
    <2>2. QED
      BY <1>1, <1>2, <2>1, WriteKeeps DEF PollPersist
  <1>3. CASE owed' \in {owed, TRUE} /\ UNCHANGED disk
    <2>1. Basics'
      BY <1>1, <1>3 DEF PollPersist, IInv, Basics
    <2>2. JobOK' /\ FenceOK' /\ OwesRow' /\ FreshMission' /\ FreshRow'
      BY <1>3, ZenonT(60) DEF PollPersist, IInv, JobOK, SwapOK, UnsentOK, SubmitOK,
         SettleOK, FenceOK,
                  OwesRow, FreshMission, FreshRow, Unexcused
    <2>3. QED
      BY <1>3, <2>1, <2>2 DEF PollPersist, IInv
  <1>4. QED
    BY <1>2, <1>3 DEF PollPersist

\* PollRestore keeps the invariant.
LEMMA PollRestoreKeeps == IInv /\ PollRestore => IInv'
  <1> SUFFICES ASSUME IInv, PollRestore PROVE IInv'
    OBVIOUS
  <1> USE Known DEF hist
  <1>1. pane' \in Panes /\ tick' \in Passes
    BY DEF PollRestore, Pass, Passes, IInv, Basics, Panes
  <1>2. CASE UNCHANGED <<mem, disk, owed, pane, job, begun, crashes, hist>>
    BY <1>1, <1>2, QuietKeeps
  <1>3. CASE /\ job = NoJob /\ mem' = [mem EXCEPT !.lv = "Running"] /\ persistSettlement(mem')
             /\ UNCHANGED <<job, begun, crashes, hist>>
    <2>1. /\ mem' \in Instances /\ mem'.prog = mem.prog /\ mem'.mission = mem.mission
          /\ mem'.verdict = mem.verdict /\ mem'.prompt = mem.prompt /\ mem'.op = mem.op
          /\ mem'.unknown = mem.unknown
      BY <1>3 DEF Instances
    <2>2. landed' \subseteq Missions /\ \A n \in landed' : n <= begun
      BY <1>3 DEF IInv, Basics
    <2>3. QED
      BY <1>1, <1>3, <2>1, <2>2, SameKeeps
  <1>4. QED
    BY <1>2, <1>3 DEF PollRestore

\* FlushOwedSettlements keeps the invariant.
LEMMA FlushOwedSettlementsKeeps ==
    ASSUME IInv, NEW name, NEW next \in Passes, FlushOwedSettlements(name, next)
    PROVE  IInv'
  <1> USE Known DEF hist
  <1>1. pane' \in Panes /\ tick' \in Passes
    BY DEF FlushOwedSettlements, Pass, IInv, Basics
  <1>2. CASE owed /\ BetweenOperations
    <2>1. /\ job = NoJob /\ job' = NoJob /\ mem' = mem /\ persistSettlement(mem')
          /\ UNCHANGED <<begun, crashes, landed, excused>>
      BY <1>2 DEF FlushOwedSettlements, BetweenOperations
    <2>2. landed' \subseteq Missions /\ \A n \in landed' : n <= begun
      BY <2>1 DEF IInv, Basics
    <2>3. QED
      BY <1>1, <2>1, <2>2, SameKeeps
  <1>3. CASE ~(owed /\ BetweenOperations)
    BY <1>1, <1>3, QuietKeeps DEF FlushOwedSettlements
  <1>4. QED
    BY <1>2, <1>3

\* PollSettleDelivered keeps the invariant.
LEMMA PollSettleDeliveredKeeps == IInv /\ PollSettleDelivered => IInv'
  <1> SUFFICES ASSUME IInv, PollSettleDelivered PROVE IInv'
    OBVIOUS
  <1> USE Known DEF hist
  <1>1. /\ begun' = begun /\ landed' = landed /\ pane' = pane /\ excused' = excused
        /\ crashes' = crashes /\ tick' = "flush2" /\ job' = NoJob /\ persistSettlement(mem')
        /\ mem.mission # 0 /\ mem.verdict = "Delivered"
    BY DEF PollSettleDelivered, Pass, PendingHandoffMissionSettleable
  <1>2. PICK m \in Instances :
           /\ mem' = ClearPendingHandoffMission(m)
           /\ m.prog = mem.prog /\ m.prompt = mem.prompt /\ m.op = "None"
    <2>1. CASE mem.lv = "Lost"
      <3> DEFINE m == [mem EXCEPT !.op = "None"]
      <3>1. m \in Instances /\ m.prog = mem.prog /\ m.prompt = mem.prompt /\ m.op = "None"
        BY UpdateFields
      <3>2. mem' = ClearPendingHandoffMission(m)
        BY <2>1 DEF PollSettleDelivered
      <3> HIDE DEF m
      <3>3. QED
        BY <3>1, <3>2
    <2>2. CASE mem.lv # "Lost"
      <3> DEFINE r == ResolveStartupState(mem)
                 m == CommitHandoff(r)
      <3>1. m \in Instances /\ m.prog = mem.prog /\ m.prompt = mem.prompt /\ m.op = "None"
        <4>1. r \in Instances /\ r.prog = mem.prog /\ r.prompt = mem.prompt
          BY ResolveFields
        <4> HIDE DEF r
        <4> QED
          BY <4>1, CommitFields
      <3>2. mem' = ClearPendingHandoffMission(m)
        BY <2>2 DEF PollSettleDelivered
      <3> HIDE DEF m
      <3>3. QED
        BY <3>1, <3>2
    <2>3. QED
      BY <2>1, <2>2
  <1>3. /\ mem' \in Instances /\ mem'.prog = mem.prog /\ mem'.mission = 0
        /\ mem'.verdict = "none" /\ mem'.prompt = mem.prompt /\ mem'.op = "None"
    BY <1>2, ClearFields
  <1>4. RecordOK(mem, begun, landed)' /\ Briefed(mem, landed)'
    <2>1. RecordOK(mem, begun, landed) /\ mem.mission \in landed
      BY <1>1 DEF IInv, RecordOK
    <2>2. QED
      BY <1>1, <1>3, <2>1, Parked
  <1>5. QED
    BY <1>1, <1>3, <1>4, PaidKeeps DEF IInv, Basics, Passes

\* PollTransfer keeps the invariant.
LEMMA PollTransferKeeps == IInv /\ PollTransfer => IInv'
  <1> SUFFICES ASSUME IInv, PollTransfer PROVE IInv'
    OBVIOUS
  <1> USE Known DEF hist
  <1>1. /\ begun' = begun /\ landed' = landed /\ pane' = pane /\ excused' = excused
        /\ crashes' = crashes /\ tick' = "flush2" /\ job' = NoJob /\ persistSettlement(mem')
        /\ mem.mission # 0 /\ mem' = TransferToLimit(mem)
    BY DEF PollTransfer, Pass, PendingHandoffMissionAutoRetryable
  <1>2. RecordOK(mem, begun, landed)' /\ Briefed(mem, landed)'
    BY <1>1, TransferFields, Parked DEF IInv
  <1>3. QED
    BY <1>1, <1>2, TransferFields, PaidKeeps DEF IInv, Basics, Passes

\* PollRetry keeps the invariant.
LEMMA PollRetryKeeps == IInv /\ PollRetry => IInv'
  <1> SUFFICES ASSUME IInv, PollRetry PROVE IInv'
    OBVIOUS
  <1> USE Known DEF hist
  <1>1. /\ job = NoJob /\ job' = Attempt("auto") /\ mem' = mem /\ disk' = disk /\ owed' = owed
        /\ begun' = begun /\ landed' = landed /\ excused' = excused /\ crashes' = crashes
        /\ mem.mission # 0 /\ mem.verdict = "NotDelivered" /\ mem.unknown = FALSE
    BY DEF PollRetry, Pass, PendingHandoffMissionAutoRetryable, Instances
  <1>2. pane' \in Panes /\ tick' \in Passes
    BY DEF PollRetry, Pass, Passes, IInv, Basics
  <1>3. QED
    BY <1>1, <1>2, AttemptKeeps

\* The load: whatever the row still owes and may have been received is on record
\* as ambiguous, or its settlement was reported as not written.
LEMMA RestartKeeps == IInv /\ Restart => IInv'
  <1> SUFFICES ASSUME IInv, Restart PROVE IInv'
    OBVIOUS
  <1> USE Known
  <1>1. /\ begun' = begun /\ landed' = landed /\ disk' = disk /\ owed' = FALSE
        /\ tick' = "observe" /\ job' = NoJob /\ crashes' \in 0..MaxCrashes /\ pane' \in Panes
        /\ excused' = IF owed /\ mem.mission # disk.mission
                      THEN excused \cup ({disk.mission} \ {0}) ELSE excused
    BY BoundsAssumption DEF Restart, IInv, Basics, Panes, BoundsAssumption
  <1>2. /\ mem' \in Instances /\ mem'.prog = disk.prog /\ mem'.mission = disk.mission
        /\ mem'.verdict = disk.verdict /\ mem'.prompt = disk.prompt
        /\ mem'.unknown = disk.unknown
        /\ mem'.op = "Replacing" <=> pendingHandoffMissionNeedsFence(disk)
    <2> DEFINE loaded == FromInstanceData(disk)
    <2>1. /\ loaded \in Instances /\ loaded.prog = disk.prog /\ loaded.mission = disk.mission
          /\ loaded.verdict = disk.verdict /\ loaded.prompt = disk.prompt
          /\ loaded.unknown = disk.unknown
          /\ loaded.op = "Replacing" <=> pendingHandoffMissionNeedsFence(disk)
      BY LoadFields
    <2>2. mem' \in {loaded, [loaded EXCEPT !.lv = "Lost"]}
      BY DEF Restart
    <2> HIDE DEF loaded
    <2>3. QED
      BY <2>1, <2>2 DEF Instances
  <1>3. Basics'
    <2>1. disk.mission # 0 => disk.mission \in Missions
      BY InstanceFields, BoundsAssumption DEF Missions, BoundsAssumption
    <2>2. QED
      BY <1>1, <2>1, NoJobFacts DEF IInv, Basics, Passes
  <1>4. RecordOK(mem, begun, landed)' /\ Briefed(mem, landed)'
    BY <1>1, <1>2, SameBrief DEF IInv
  <1>5. JobOK' /\ OwesRow'
    BY <1>1, <1>2, NoJobFacts DEF JobOK, OwesRow
  <1>6. FenceOK'
    BY <1>2 DEF FenceOK, pendingHandoffMissionNeedsFence
  <1>7. FreshMission' /\ FreshRow'
    <2>1. ASSUME disk.verdict = "NotDelivered" PROVE ~Unexcused(disk.mission)'
      <3>1. CASE disk.mission = mem.mission
        BY <1>1, <2>1, <3>1 DEF IInv, FreshRow, Unexcused
      <3>2. CASE disk.mission # mem.mission
        <4>1. disk.mission # 0 /\ owed
          BY <2>1, <3>2 DEF IInv, RecordOK, OwesRow
        <4>2. disk.mission \in excused'
          BY <1>1, <3>2, <4>1
        <4>3. QED
          BY <1>1, <4>2 DEF Unexcused
      <3>3. QED
        BY <3>1, <3>2
    <2>2. QED
      BY <1>1, <1>2, <2>1 DEF FreshMission, FreshRow
  <1>8. QED
    BY <1>1, <1>3, <1>4, <1>5, <1>6, <1>7 DEF IInv

\* IInv is inductive.
LEMMA StepIInv == IInv /\ [Next]_vars => IInv'
  <1> SUFFICES ASSUME IInv, [Next]_vars PROVE IInv'
    OBVIOUS
  <1>0. pane \in Panes /\ tick \in Passes
    BY DEF IInv, Basics
  <1>1. CASE Client
    <2>1. CASE ResumeRPC
      BY <1>0, <2>1, ResumeFromLimitKeeps DEF ResumeRPC
    <2>2. QED
      BY <1>1, <2>1, HandoffSessionKeeps, ExplicitRetryKeeps, ConfirmHandoffDeliveryKeeps
         DEF Client
  <1>2. CASE Job
    BY <1>2, SwapFailsKeeps, SwapAgentKeeps, CheckpointKeeps, WaitForReadyKeeps,
       beginHandoffMissionDeliveryKeeps, SubmitMissionKeeps, SettleLimitKeeps,
       SettleUnreadyKeeps, SettleSendKeeps DEF Job
  <1>3. CASE Poll
    <2>1. CASE PollObserve
      BY <2>1, PollObserveKeeps
    <2>2. CASE PollPersist
      BY <2>2, PollPersistKeeps
    <2>3. CASE PollRestore
      BY <2>3, PollRestoreKeeps
    <2>4. CASE FlushOwedSettlements("flush", "pending") \/ FlushOwedSettlements("flush2", "limit")
      <3>1. "pending" \in Passes /\ "limit" \in Passes
        BY DEF Passes
      <3>2. QED
        BY <2>4, <3>1, FlushOwedSettlementsKeeps
    <2>5. CASE PollSettleDelivered \/ PollTransfer \/ PollRetry
      BY <2>5, PollSettleDeliveredKeeps, PollTransferKeeps, PollRetryKeeps
    <2>6. CASE PollSkip \/ PollEnds
      <3>1. /\ pane' \in Panes /\ tick' \in Passes
            /\ UNCHANGED <<mem, disk, owed, job, begun, crashes, hist>>
        BY <1>0, <2>6 DEF PollSkip, PollEnds, Pass, Passes, hist
      <3>2. QED
        BY <3>1, QuietKeeps
    <2>7. CASE PollResumeLimited
      <3>1. tick' \in Passes
        BY <2>7 DEF PollResumeLimited, Pass, Passes
      <3>2. QED
        BY <2>7, <3>1, ResumeFromLimitKeeps DEF PollResumeLimited
    <2>8. QED
      BY <1>3, <2>1, <2>2, <2>3, <2>4, <2>5, <2>6, <2>7 DEF Poll
  <1>4. CASE AgentMoves
    BY <1>0, <1>4, QuietKeeps DEF AgentMoves, hist
  <1>5. CASE Restart
    BY <1>5, RestartKeeps
  <1>6. CASE UNCHANGED vars
    BY <1>0, <1>6, QuietKeeps DEF vars, hist
  <1>7. QED
    BY <1>1, <1>2, <1>3, <1>4, <1>5, <1>6 DEF Next

-----------------------------------------------------------------------------
(* The theorems.                                                           *)

\* IInv holds throughout.
LEMMA Inductive == Spec => []IInv
  BY InitIInv, StepIInv, PTL DEF Spec

\* Types; and a verdict is recorded exactly while a mission is owed, in memory and
\* in the row (ClearPendingHandoffMission), whatever crashes and lost writes happen.
THEOREM HandoffTypeCorrect == Spec => []TypeOK
  <1>1. IInv => TypeOK
    BY DEF IInv, Basics, RecordOK, JobOK, TypeOK
  <1>2. QED
    BY <1>1, Inductive, PTL

\* The daemon by itself never submits a brief again that reached an agent
\* (beginHandoffMissionDelivery marks the row before the paste, FromInstanceData
\* and the recovery pass read the marker): for any number of hand-offs and deaths.
THEOREM BriefNeverSilentlyResent == Spec => []NoSilentResend
  <1>1. IInv => NoSilentResend
    BY DEF IInv, JobOK, SubmitOK, Unexcused, NoSilentResend
  <1>2. QED
    BY <1>1, Inductive, PTL

\* No row ever names an incoming agent whose brief is neither owed nor stored nor
\* received (persistPollChangeWithIdleEvidence and flushOneOwedSettlement cede to
\* the fence and to the locks).
THEOREM BriefNeverLost == Spec => []BriefKept
  <1>1. IInv => BriefKept
    BY DEF IInv, Briefed, BriefKept
  <1>2. QED
    BY <1>1, Inductive, PTL

\* A mission always has somebody who can end it: no attempt leaves a fence over an
\* ambiguous verdict, and none leaves an undelivered one on an unknown runtime.
THEOREM MissionHasExit == Spec => []HasExit
  <1>1. IInv => HasExit
    <2> SUFFICES ASSUME IInv, job = NoJob PROVE HasExit
      BY DEF HasExit
    <2>1. /\ mem.verdict \in Verdicts /\ job.pc = "idle"
          /\ mem.verdict = "none" <=> mem.mission = 0
          /\ mem.verdict = "NotDelivered" => ~mem.unknown
      BY Known, InstanceFields, NoJobFacts DEF IInv, RecordOK
    <2>2. QED
      BY <2>1 DEF IInv, FenceOK, HasExit, Verdicts, PendingHandoffMissionAutoRetryable,
                  PendingHandoffMissionSettleable, CanConfirmPendingHandoffDelivery
  <1>2. QED
    BY <1>1, Inductive, PTL

=============================================================================
