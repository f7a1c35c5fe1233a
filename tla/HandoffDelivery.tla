--------------------------- MODULE HandoffDelivery ---------------------------
(***************************************************************************)
(* Handing a session to another agent and getting the takeover brief to it *)
(* (daemon/handoff*.go, session/handoff_pending.go).                       *)
(*                                                                         *)
(* The runtime swap cannot be undone and the brief must reach the incoming *)
(* agent, if possible once.  Three clients submit it: the hand-off itself, *)
(* the recovery pass of the poll, and an operator's retry.  Each holds the *)
(* target lock and the operation lock of the session from its admission to *)
(* its settlement, so there is one attempt at a time (job); the poll's     *)
(* other passes, the operator's confirmation and a crash come between its  *)
(* steps.  The obligation is a field of the row (mission) with a verdict;  *)
(* the fence, OpReplacing, is memory only and is rebuilt from them at load.*)
(*                                                                         *)
(* One local session.  The n-th hand-off installs agent n and its brief is *)
(* n; 0 is the agent the session was created with and no brief.  The two   *)
(* verdicts that the code reads as one (ambiguousHandoffDelivery) are one  *)
(* here.  Kill, archive and account swaps are left out.                    *)
(***************************************************************************)
EXTENDS Naturals

CONSTANTS
    MaxHandoffs,   \* hand-offs that pass admission
    MaxCrashes     \* deaths of the daemon

ASSUME BoundsAssumption == MaxHandoffs \in Nat /\ MaxCrashes \in Nat

VARIABLES
    mem,      \* the Instance
    disk,     \* its row
    owed,     \* settleOwed
    pane,     \* what the agent's pane shows
    tick,     \* the pass the poll goroutine runs next
    job,      \* the attempt that holds the locks
    begun, crashes,            \* counters for the bounds
    landed, excused            \* history, see below

hist == <<landed, excused>>
vars == <<mem, disk, owed, pane, tick, job, begun, crashes, hist>>

Missions == 1..MaxHandoffs
Verdicts == {"none", "NotDelivered", "Ambiguous", "Delivered"}
Panes    == {"busy", "idle", "wall", "gone"}
Passes   == {"observe", "persist", "restore", "flush", "pending", "flush2", "limit"}

Instances == [prog : 0..MaxHandoffs, mission : 0..MaxHandoffs, verdict : Verdicts,
              prompt : 0..MaxHandoffs, lv : {"Running", "Ready", "Limit", "Lost"},
              unknown : BOOLEAN, op : {"None", "Replacing"}]

\* An attempt: who runs it and where it is; the operation and the
\* startup-unknown flag it read at admission; what the wait or the send said;
\* the program a failed swap goes back to.
Jobs == [by : {"none", "handoff", "auto", "retry"},
         pc : {"idle", "swap", "checkpoint", "wait", "mark", "submit", "settle"},
         fenced : BOOLEAN, wasUnknown : BOOLEAN,
         got : {"none", "limit", "unready", "sent"}, from : 0..MaxHandoffs]
NoJob == [by |-> "none", pc |-> "idle", fenced |-> FALSE, wasUnknown |-> FALSE,
          got |-> "none", from |-> 0]
Attempt(who) == [NoJob EXCEPT !.by = who, !.pc = "wait",
                              !.fenced = (mem.op = "Replacing"),
                              !.wasUnknown = mem.unknown]

\* What is history: the briefs that reached an agent, or did as an operator
\* attested; those whose repetition somebody answers for (an operator who
\* retried, or a settlement reported as not written).

-----------------------------------------------------------------------------
(* Writes.  Storage drops the operation.                                   *)

Row(m) == [m EXCEPT !.op = "None"]

\* persistSettlement: the row is written, or the write is owed.
persistSettlement(m) ==
    \/ disk' = Row(m) /\ owed' = FALSE
    \/ owed' = TRUE /\ UNCHANGED disk

\* persistAndPublishInstance, persistHandoffCheckpointErr: a lost write is logged.
bestEffort(m) == disk' \in {disk, Row(m)} /\ UNCHANGED owed

-----------------------------------------------------------------------------
(* What the operations do to the instance.                                 *)

MarkStartupStateUnknown(m) == [m EXCEPT !.unknown = TRUE, !.op = "None"]
ResolveStartupState(m)     == [m EXCEPT !.unknown = FALSE]
ClearLimitReached(m)       == [m EXCEPT !.lv = IF @ = "Limit" THEN "Running" ELSE @]
\* Mutant: the mission goes, its verdict stays.
ClearMissionOnly(m) == [m EXCEPT !.mission = 0]
ClearPendingHandoffMission(m) == [m EXCEPT !.mission = 0, !.verdict = "none"]
CommitHandoff(m) ==
    IF m.op = "Replacing" THEN [m EXCEPT !.lv = "Running", !.op = "None"] ELSE m

\* The wall takes the brief over: the limit resume replays Instance.Prompt.
TransferToLimit(m) ==
    ClearPendingHandoffMission([m EXCEPT !.prompt = m.mission, !.lv = "Limit", !.op = "None"])

pendingHandoffMissionNeedsFence(m) ==
    m.mission # 0 /\ ~m.unknown /\ m.verdict \in {"NotDelivered", "Delivered"}

PendingHandoffMissionAutoRetryable == mem.mission # 0 /\ mem.verdict = "NotDelivered"
PendingHandoffMissionSettleable    == mem.mission # 0 /\ mem.verdict = "Delivered"

CanRetryPendingHandoffMissionDelivery ==
    /\ mem.mission # 0 /\ mem.verdict = "Ambiguous"
    /\ mem.lv # "Lost"
    /\ mem.lv \in {"Running", "Ready"} \/ mem.unknown

CanConfirmPendingHandoffDelivery ==
    /\ mem.mission # 0 /\ mem.verdict \in {"Ambiguous", "Delivered"}
    /\ mem.lv # "Lost"

-----------------------------------------------------------------------------
(* HandoffSession, up to the checkpoint.                                   *)

\* Admission, BeginHandoff and RecordHandoffSwap: the record names the
\* incoming agent before anything else says so.
HandoffSession ==
    /\ job = NoJob /\ begun < MaxHandoffs
    /\ mem.mission = 0 /\ mem.op = "None" /\ ~mem.unknown /\ mem.lv # "Lost"
    /\ begun' = begun + 1
    /\ mem' = [mem EXCEPT !.op = "Replacing", !.prog = begun']
    /\ job' = [NoJob EXCEPT !.by = "handoff", !.pc = "swap", !.fenced = TRUE, !.from = mem.prog]
    /\ UNCHANGED <<disk, owed, pane, tick, crashes, hist>>

\* The outgoing agent is stopped, or was seen alive, and nothing was started.
SwapFails ==
    /\ job.pc = "swap"
    /\ pane' \in {pane, "gone"}
    /\ mem' = [mem EXCEPT !.prog = job.from, !.op = "None"]
    /\ job' = NoJob
    /\ UNCHANGED <<disk, owed, tick, begun, crashes, hist>>

\* The incoming agent runs.  Its predecessor's limit goes, an operator's own
\* brief replaces the prompt, and the mission is owed.
SwapAgent ==
    /\ job.pc = "swap"
    /\ pane' = "busy"
    /\ \E prompt \in {mem.prompt, 0} :
          mem' = [ClearLimitReached(mem) EXCEPT !.mission = mem.prog,
                                                !.verdict = "NotDelivered",
                                                !.prompt = prompt]
    /\ job' = [job EXCEPT !.pc = "checkpoint", !.from = 0]
    /\ UNCHANGED <<disk, owed, tick, begun, crashes, hist>>

Checkpoint ==
    /\ job.pc = "checkpoint"
    /\ bestEffort([mem EXCEPT !.lv = "Running"])
    /\ job' = [job EXCEPT !.pc = "wait"]
    /\ UNCHANGED <<mem, pane, tick, begun, crashes, hist>>

-----------------------------------------------------------------------------
(* waitAndSubmitHandoffMission and the settlement of its outcome, the same *)
(* steps for the three clients.                                            *)

\* Readiness and trust.  What is not ready is recorded as ambiguous too.
WaitForReady ==
    /\ job.pc = "wait"
    /\ \/ /\ pane = "idle"
          /\ job' = [job EXCEPT !.pc = "mark"]
          /\ UNCHANGED mem
       \/ /\ pane # "idle"
          /\ job' = [job EXCEPT !.pc = "settle",
                                !.got = IF pane = "wall" THEN "limit" ELSE "unready"]
          /\ mem' = [mem EXCEPT !.verdict = "Ambiguous"]
    /\ UNCHANGED <<disk, owed, pane, tick, begun, crashes, hist>>

\* Mutant: a marker that is not written leaves the mission as if never tried.
VerdictOfNoAttempt == "NotDelivered"

\* The verdict that admitted the attempt, put back when the marker is not written.
PreviousVerdict == mem.verdict

\* The marker: no submission before the row says that one may have happened.
beginHandoffMissionDelivery ==
    /\ job.pc = "mark"
    /\ \/ /\ mem' = [mem EXCEPT !.verdict = "Ambiguous"]
          /\ disk' = Row(mem') /\ owed' = FALSE
          /\ job' = [NoJob EXCEPT !.by = job.by, !.pc = "submit"]
       \/ /\ mem' = LET m == [mem EXCEPT !.verdict = PreviousVerdict]
                    IN  IF job.wasUnknown THEN MarkStartupStateUnknown(m) ELSE m
          /\ owed' = TRUE /\ UNCHANGED disk
          /\ job' = NoJob
    /\ UNCHANGED <<pane, tick, begun, crashes, hist>>

\* SendPromptWithEvidence: a verdict, which is right when it is certain.
SubmitMission ==
    /\ job.pc = "submit"
    /\ \E verdict \in Verdicts \ {"none"}, lands \in BOOLEAN :
          /\ verdict = "Delivered" => lands
          /\ verdict = "NotDelivered" => ~lands
          /\ pane = "gone" => ~lands
          /\ mem' = [mem EXCEPT !.verdict = verdict]
          /\ landed' = IF lands THEN landed \cup {mem.mission} ELSE landed
    /\ excused' = IF job.by = "retry" THEN excused \cup {mem.mission} ELSE excused
    /\ job' = [job EXCEPT !.pc = "settle", !.got = "sent"]
    /\ UNCHANGED <<disk, owed, pane, tick, begun, crashes>>

\* At a usage limit the brief is parked where the limit resume finds it.
SettleLimit ==
    /\ job.pc = "settle" /\ job.got = "limit"
    /\ mem' = TransferToLimit(mem)
    /\ persistSettlement(mem')
    /\ job' = NoJob
    /\ UNCHANGED <<pane, tick, begun, crashes, hist>>

\* No usable runtime.  A replacement nobody proved becomes startup-unknown.
SettleUnready ==
    /\ job.pc = "settle" /\ job.got = "unready"
    /\ IF job.fenced \/ job.wasUnknown
       THEN mem' = MarkStartupStateUnknown(mem) /\ bestEffort(mem')
       ELSE UNCHANGED <<mem, disk, owed>>
    /\ job' = NoJob
    /\ UNCHANGED <<pane, tick, begun, crashes, hist>>

\* Mutant: an ambiguous send keeps the fence as a failed one does.
AfterSendFenced(m) ==
    IF m.verdict = "Delivered" THEN ClearPendingHandoffMission(CommitHandoff(m)) ELSE m

\* What a send leaves: delivered retires the mission, ambiguity keeps it for
\* the operator, and both end the replacement; a send that certainly failed
\* keeps the fence for the recovery pass.
AfterSend(m) ==
    CASE m.verdict = "Delivered"    -> ClearPendingHandoffMission(CommitHandoff(m))
      [] m.verdict = "Ambiguous"    -> CommitHandoff(m)
      [] m.verdict = "NotDelivered" -> m

SettleSend ==
    /\ job.pc = "settle" /\ job.got = "sent"
    /\ mem' = AfterSend(mem)
    /\ persistSettlement(mem')
    /\ job' = NoJob
    /\ UNCHANGED <<pane, tick, begun, crashes, hist>>

Job == \/ SwapFails \/ SwapAgent \/ Checkpoint
       \/ WaitForReady \/ beginHandoffMissionDelivery \/ SubmitMission
       \/ SettleLimit \/ SettleUnready \/ SettleSend

-----------------------------------------------------------------------------
(* The operator's two exits from an ambiguous verdict.                     *)

\* retry-limit: the pane of a startup-unknown row must answer first.  A row at
\* its wall is not sent to, the limit resume inherits the brief.
ExplicitRetry ==
    /\ job = NoJob /\ CanRetryPendingHandoffMissionDelivery
    /\ mem.unknown => pane # "gone"
    /\ IF mem.lv = "Limit"
       THEN /\ mem' = TransferToLimit(ResolveStartupState(mem))
            /\ persistSettlement(mem')
            /\ UNCHANGED job
       ELSE /\ mem' = ResolveStartupState(mem)
            /\ job' = Attempt("retry")
            /\ UNCHANGED <<disk, owed>>
    /\ UNCHANGED <<pane, tick, begun, crashes, hist>>

\* retry-limit --delivered: the operator saw the brief at work.
ConfirmHandoffDelivery ==
    /\ job = NoJob /\ CanConfirmPendingHandoffDelivery
    /\ pane # "gone"
    /\ mem' = ClearPendingHandoffMission(
                 [ResolveStartupState(mem) EXCEPT !.op = "None",
                     !.lv = IF @ = "Limit" THEN "Limit" ELSE "Running"])
    /\ persistSettlement(mem')
    /\ landed' = landed \cup {mem.mission}
    /\ UNCHANGED <<pane, tick, job, begun, crashes, excused>>

-----------------------------------------------------------------------------
(* The poll: one goroutine, which an attempt of its own occupies.          *)

Pass(name, next) == tick = name /\ job.by # "auto" /\ tick' = next

\* refreshInstanceStatus: what the pane shows, or nothing new.
Observed == [busy |-> "Running", idle |-> "Ready", wall |-> "Limit", gone |-> "Lost"]

PollObserve ==
    \/ /\ Pass("observe", "persist")
       /\ mem.op = "None" /\ ~mem.unknown
       /\ mem' = [mem EXCEPT !.lv = Observed[pane]]
       /\ UNCHANGED <<disk, owed, pane, job, begun, crashes, hist>>
    \/ /\ Pass("observe", "restore")
       /\ UNCHANGED <<mem, disk, owed, pane, job, begun, crashes, hist>>

\* The write that follows cedes to an operation raised since.
PollMayWrite == mem.op = "None"

\* A write that was ceded or failed is owed if it carried a one-shot checkpoint.
PollPersist ==
    /\ Pass("persist", "restore")
    /\ \/ PollMayWrite /\ disk' = Row(mem) /\ owed' = FALSE
       \/ owed' \in {owed, TRUE} /\ UNCHANGED disk
    /\ UNCHANGED <<mem, pane, job, begun, crashes, hist>>

\* RestoreLostSessions.
PollRestore ==
    \/ /\ Pass("restore", "flush")
       /\ job = NoJob
       /\ mem.lv = "Lost" /\ mem.op = "None" /\ ~mem.unknown
       /\ pane' = "busy"
       /\ mem' = [mem EXCEPT !.lv = "Running"]
       /\ persistSettlement(mem')
       /\ UNCHANGED <<job, begun, crashes, hist>>
    \/ /\ Pass("restore", "flush")
       /\ UNCHANGED <<mem, disk, owed, pane, job, begun, crashes, hist>>

\* Mutant: an owed row is written whatever runs on the session.
AtAnyTime == TRUE

\* flushOneOwedSettlement: only while the session is between operations.
BetweenOperations == job = NoJob /\ mem.op = "None"

FlushOwedSettlements(name, next) ==
    /\ Pass(name, next)
    /\ IF owed /\ BetweenOperations THEN persistSettlement(mem) ELSE UNCHANGED <<disk, owed>>
    /\ UNCHANGED <<mem, pane, job, begun, crashes, hist>>

\* Mutant: the recovery pass waits for a pane that was seen ready.
PasteOnlyReady == mem.lv = "Ready"

\* What authorises the recovery pass to paste: a pane seen ready, or the fence.
AutoMayPaste == mem.lv = "Ready" \/ mem.op = "Replacing"

\* settleDeliveredPendingHandoff: the bookkeeping of a delivery a crash cut off.
PollSettleDelivered ==
    /\ Pass("pending", "flush2")
    /\ job = NoJob /\ PendingHandoffMissionSettleable
    /\ mem' = ClearPendingHandoffMission(
                 IF mem.lv = "Lost" THEN [mem EXCEPT !.op = "None"]
                                    ELSE CommitHandoff(ResolveStartupState(mem)))
    /\ persistSettlement(mem')
    /\ UNCHANGED <<pane, job, begun, crashes, hist>>

\* retryPendingHandoff at a wall.
PollTransfer ==
    /\ Pass("pending", "flush2")
    /\ job = NoJob /\ PendingHandoffMissionAutoRetryable /\ ~mem.unknown
    /\ mem.lv = "Limit"
    /\ mem' = TransferToLimit(mem)
    /\ persistSettlement(mem')
    /\ UNCHANGED <<pane, job, begun, crashes, hist>>

\* retryPendingHandoff, the retry delay being over.
PollRetry ==
    /\ Pass("pending", "flush2")
    /\ job = NoJob /\ PendingHandoffMissionAutoRetryable /\ ~mem.unknown
    /\ mem.lv # "Limit" /\ AutoMayPaste
    /\ job' = Attempt("auto")
    /\ UNCHANGED <<mem, disk, owed, pane, begun, crashes, hist>>

\* Nothing to do, or not yet.  Who has something to do waits for the locks.
PollSkip ==
    /\ Pass("pending", "flush2")
    /\ ~PendingHandoffMissionSettleable
    /\ PendingHandoffMissionAutoRetryable /\ ~mem.unknown => job = NoJob /\ mem.lv # "Limit"
    /\ UNCHANGED <<mem, disk, owed, pane, job, begun, crashes, hist>>

\* resumeFromLimitLockedOutcome: a missing agent is started again, the prompt is
\* sent, and a send without an error lifts the limit.
ResumeFromLimit ==
    /\ job = NoJob
    /\ mem.lv = "Limit" /\ mem.op = "None" /\ ~mem.unknown
    /\ pane' = IF pane = "gone" THEN "busy" ELSE pane
    /\ landed' \in {landed, landed \cup ({mem.prompt} \ {0})}
    /\ mem' \in {mem, ClearLimitReached(mem)}
    /\ persistSettlement(mem')
    /\ UNCHANGED <<job, begun, crashes, excused>>

PollResumeLimited == Pass("limit", "observe") /\ ResumeFromLimit

PollEnds ==
    /\ Pass("limit", "observe")
    /\ UNCHANGED <<mem, disk, owed, pane, job, begun, crashes, hist>>

Poll == \/ PollObserve \/ PollPersist \/ PollRestore
        \/ FlushOwedSettlements("flush", "pending")
        \/ PollSettleDelivered \/ PollTransfer \/ PollRetry \/ PollSkip
        \/ FlushOwedSettlements("flush2", "limit")
        \/ PollResumeLimited \/ PollEnds

-----------------------------------------------------------------------------
(* The world.                                                              *)

AgentMoves ==
    /\ pane # "gone"
    /\ pane' \in Panes \ {pane}
    /\ UNCHANGED <<mem, disk, owed, tick, job, begun, crashes, hist>>

ResumeRPC == ResumeFromLimit /\ UNCHANGED tick

\* FromInstanceData: the mission is the one operation a row keeps.
FromInstanceData(d) ==
    [d EXCEPT !.op = IF pendingHandoffMissionNeedsFence(d) THEN "Replacing" ELSE "None"]

\* The daemon dies and the next one loads the row.  A Lost or startup-unknown
\* row is left alone; otherwise the pane is found or the agent started again,
\* and a start that is put off (restoreDeferred) leaves the row Lost.
Restart ==
    /\ crashes < MaxCrashes
    /\ crashes' = crashes + 1
    /\ LET loaded == FromInstanceData(disk)
       IN  \/ /\ loaded.lv = "Lost" \/ loaded.unknown
              /\ mem' = loaded /\ UNCHANGED pane
           \/ /\ loaded.lv # "Lost" /\ ~loaded.unknown
              /\ \/ mem' = loaded /\ pane' = IF pane = "gone" THEN "busy" ELSE pane
                 \/ mem' = [loaded EXCEPT !.lv = "Lost"] /\ UNCHANGED pane
    /\ owed' = FALSE /\ tick' = "observe" /\ job' = NoJob
    /\ excused' = IF owed /\ mem.mission # disk.mission
                  THEN excused \cup ({disk.mission} \ {0}) ELSE excused
    /\ UNCHANGED <<disk, begun, landed>>

Client == HandoffSession \/ ExplicitRetry \/ ConfirmHandoffDelivery \/ ResumeRPC

Init ==
    /\ mem = [prog |-> 0, mission |-> 0, verdict |-> "none", prompt |-> 0,
              lv |-> "Running", unknown |-> FALSE, op |-> "None"]
    /\ disk = mem /\ owed = FALSE
    /\ pane = "busy" /\ tick = "observe" /\ job = NoJob
    /\ begun = 0 /\ crashes = 0
    /\ landed = {} /\ excused = {}

Next == Client \/ Job \/ Poll \/ AgentMoves \/ Restart

Spec == Init /\ [][Next]_vars

\* The poll ticks for as long as the daemon lives, every attempt has a
\* deadline, and a retry that is put off is put off for thirty seconds.
FairSpec == Spec /\ WF_vars(Poll) /\ WF_vars(Job) /\ SF_vars(PollRetry)

-----------------------------------------------------------------------------
(* Properties.                                                             *)

\* Types, and that a verdict is about a mission: one is recorded exactly while
\* the other is owed, in memory and in the row, and only an attempt holds locks
\* (ClearPendingHandoffMission clears the two fields in one section).
TypeOK ==
    /\ mem \in Instances /\ disk \in Instances
    /\ owed \in BOOLEAN /\ pane \in Panes /\ tick \in Passes
    /\ job \in Jobs /\ (job.by = "none" <=> job = NoJob)
    /\ begun \in 0..MaxHandoffs /\ crashes \in 0..MaxCrashes
    /\ landed \subseteq Missions /\ excused \subseteq Missions
    /\ \A m \in {mem, disk} : m.verdict = "none" <=> m.mission = 0

\* beginHandoffMissionDelivery, FromInstanceData and the recovery pass together:
\* whatever crashes and failed writes happen, the daemon by itself never submits
\* a brief again that already reached an agent.  Two things are not its own
\* doing: an operator's retry, and a settlement reported as not written.
NoSilentResend ==
    job.pc = "submit" /\ job.by # "retry" => mem.mission \notin landed \ excused

\* flushOneOwedSettlement and persistPollChangeWithIdleEvidence: the row never
\* names an incoming agent as settled while its brief is nowhere, neither owed
\* nor stored as the prompt to resume with, nor received, nor attested.  A
\* whole-row write inside a hand-off would store exactly that.
BriefKept ==
    disk.prog # 0 =>
        \/ disk.prog \in {disk.mission, disk.prompt}
        \/ disk.prog \in landed

\* A mission somebody can still bring to an end (issue 4429 of the source): with
\* no attempt under way, a fence belongs to the recovery pass, which acts on a
\* verdict that is certain; and on a row with a runtime a mission is either in
\* reach of that pass or of the operator's retry or confirmation.
HasExit ==
    job = NoJob =>
        /\ mem.op = "Replacing" =>
              PendingHandoffMissionAutoRetryable \/ PendingHandoffMissionSettleable
        /\ mem.mission # 0 /\ mem.lv # "Lost" =>
              \/ PendingHandoffMissionAutoRetryable /\ ~mem.unknown
              \/ CanConfirmPendingHandoffDelivery

\* ResumePendingHandoffs: the fence hides a session from the poll and from every
\* client, so it never stays up by itself: it falls, or a recovery attempt runs.
FenceIsWorked == mem.op = "Replacing" ~> (mem.op = "None" \/ job.by = "auto")

\* What the loader's comment says of a row whose start it put off: it is Lost so
\* that "lostSessionWantsRestore admits it", and "the daemon's lost-restore loop
\* owns the rebuild-then-respawn path" (session/instance_data.go).  A row that is
\* startup-unknown as well cannot be restored any more, so the recovery pass must
\* not make it one.
RecoveryKeepsRestore ==
    [][job.by = "auto" /\ mem.lv = "Lost" /\ mem'.lv = "Lost" => ~mem'.unknown]_vars

=============================================================================
