---- MODULE Campaigns ----
(***************************************************************************)
(* One campaign: the requests that send, save and delete it                 *)
(* (routes/communications.py, queue_campaign_delivery) and the task         *)
(* send_comm_campaigns with its recovery.                                   *)
(***************************************************************************)
EXTENDS Deliveries

VARIABLES
    campaign,   \* the row of comm_campaigns
    request,    \* per thread: the sending being queued and its next statement
    queued      \* queued_count of the task send_comm_campaigns

campaignVars == <<campaign, request, queued>>

Campaign == [status : CampaignStatus,
             test   : BOOLEAN,
             stale  : BOOLEAN]      \* updated_at is 30 minutes old

Request == [step   : {"rest", "clear", "insert", "mark", "count", "enqueue", "check", "fail"},
            todo   : SUBSET User,   \* recipients still to be inserted
            before : BOOLEAN]       \* queued_count before the enqueue

Quiet == [step |-> "rest", todo |-> {}, before |-> FALSE]

CampaignsType ==
    /\ campaign \in Campaign
    /\ request \in [Thread -> Request]
    /\ queued \in BOOLEAN

CampaignsInit ==
    /\ campaign \in [status : {"draft", "deleted"}, test : BOOLEAN, stale : {FALSE}]
    /\ request = [t \in Thread |-> Quiet]
    /\ queued = FALSE

SetStatus(s) == campaign' = [campaign EXCEPT !.status = s, !.stale = FALSE]

\* An UPDATE of a campaign that has been deleted changes nothing.
WriteStatus(s) == IF campaign.status = "deleted" THEN UNCHANGED campaign ELSE SetStatus(s)

----------------------------------------------------------------------------
(***************************************************************************)
(* Requests.                                                                *)
(***************************************************************************)
Asks(t) == request[t].step = "rest" /\ campaign.status # "deleted" /\ Pay("ask")
RequestAt(t, step) == request[t].step = step
RequestTo(t, step) == request' = [request EXCEPT ![t].step = step]

\* Targets are kept if the campaign is in delivery, rebuilt otherwise.
SendCampaign(t) ==
    /\ ~campaign.test
    /\ Asks(t)
    /\ request' = [request EXCEPT ![t] = [step   |-> IF campaign.status = "sending"
                                                     THEN "insert" ELSE "clear",
                                          todo   |-> User,
                                          before |-> FALSE]]
    /\ UNCHANGED <<settings, row, run, history, campaign, queued>>

\* enable_and_run_task_by_name does not queue a task that is running.
SendTest(t) ==
    /\ campaign.test
    /\ Asks(t)
    /\ SetStatus("pending")
    /\ queued' = (queued \/ run.task # "campaigns")
    /\ UNCHANGED <<settings, row, run, history, request>>

SaveCampaign(t) ==
    /\ Asks(t)
    /\ campaign' = [campaign EXCEPT !.test = ~@, !.stale = FALSE]
    /\ UNCHANGED <<settings, row, run, history, request, queued>>

\* The targets go with their campaign.
DeleteCampaign(t) ==
    /\ Asks(t)
    /\ campaign' = [campaign EXCEPT !.status = "deleted"]
    /\ row' = [k \in Key |-> IF k \in User THEN Deleted(row[k]) ELSE row[k]]
    /\ UNCHANGED <<settings, run, history, request, queued>>

ClearTargets(t) ==
    /\ RequestAt(t, "clear")
    /\ row' = [k \in Key |-> IF k \in User THEN Deleted(row[k]) ELSE row[k]]
    /\ RequestTo(t, "insert")
    /\ UNCHANGED <<settings, run, history, budget, campaign, queued>>

\* INSERT OR IGNORE under the unique dedupe_key, one recipient at a time; the
\* foreign key refuses the targets of a deleted campaign.
InsertTarget(t) ==
    /\ RequestAt(t, "insert")
    /\ \E u \in request[t].todo :
        /\ row' = IF row[u].status = "none" /\ campaign.status # "deleted"
                  THEN [row EXCEPT ![u] = NewRow(@, "now")] ELSE row
        /\ got' = IF row[u].status = "none" THEN [got EXCEPT ![u] = [c \in Channel |-> 0]] ELSE got
        /\ request' = [request EXCEPT
             ![t].todo = @ \ {u},
             ![t].step = IF campaign.status = "deleted" THEN "rest"
                         ELSE IF request[t].todo = {u} THEN "mark" ELSE @]
    /\ UNCHANGED <<settings, run, excused, budget, campaign, queued>>

MarkSending(t) ==
    /\ RequestAt(t, "mark")
    /\ WriteStatus("sending")
    /\ RequestTo(t, "count")
    /\ UNCHANGED <<settings, row, run, history, budget, queued>>

\* enqueue_named_task: queued_count, enqueue, queued_count again.
CountQueued(t) ==
    /\ RequestAt(t, "count")
    /\ request' = [request EXCEPT ![t].step = "enqueue", ![t].before = queued]
    /\ UNCHANGED <<settings, row, run, history, budget, campaign, queued>>

EnqueueDelivery(t) ==
    /\ RequestAt(t, "enqueue")
    /\ queued' = TRUE
    /\ RequestTo(t, "check")
    /\ UNCHANGED <<settings, row, run, history, budget, campaign>>

\* A task that was queued already, or has been taken since, counts as refused.
CheckQueued(t) ==
    /\ RequestAt(t, "check")
    /\ RequestTo(t, IF queued /\ ~request[t].before THEN "rest" ELSE "fail")
    /\ UNCHANGED <<settings, row, run, history, budget, campaign, queued>>

MarkError(t) ==
    /\ RequestAt(t, "fail")
    /\ WriteStatus("error")
    /\ RequestTo(t, "rest")
    /\ UNCHANGED <<settings, row, run, history, budget, queued>>

AskCampaign(t) == SendCampaign(t) \/ SendTest(t) \/ SaveCampaign(t) \/ DeleteCampaign(t)

QueueCampaign(t) ==
    \/ ClearTargets(t) \/ InsertTarget(t) \/ MarkSending(t)
    \/ CountQueued(t) \/ EnqueueDelivery(t) \/ CheckQueued(t) \/ MarkError(t)

----------------------------------------------------------------------------
(***************************************************************************)
(* send_comm_campaigns.                                                     *)
(***************************************************************************)
Targets == {u \in User : row[u].status # "none"}

\* What the campaign comes to, from its targets.
Verdict ==
    IF \E u \in Targets : ~IsSettled(row[u]) THEN "sending"
    ELSE IF Targets # {} /\ \A u \in Targets : row[u].status = "sent" THEN "finished"
    ELSE "error"

NeedsRun ==
    \/ queued
    \/ \E u \in User : IsDue(row[u]) /\ ~campaign.test
    \/ campaign.test /\ campaign.status = "pending"
    \/ campaign.test /\ campaign.status = "sending" /\ campaign.stale
    \/ ~campaign.test /\ Targets # {} /\ campaign.status \notin {"draft", "deleted", Verdict}

\* Scheduled runs that would find nothing are left out.
StartCampaigns ==
    /\ NeedsRun
    /\ Begin("campaigns", "tests")
    /\ queued' = FALSE
    /\ UNCHANGED <<settings, row, history, budget, campaign, request>>

\* Mutant: interrupted tests stay where they are.
RecoverTestsNever ==
    /\ TaskAt("campaigns", "tests")
    /\ TaskTo("summary")
    /\ UNCHANGED <<settings, row, history, budget, campaignVars>>

\* recover_campaigns: a test left in delivery is sent again.
RecoverTests ==
    /\ TaskAt("campaigns", "tests")
    /\ campaign' = IF campaign.test /\ campaign.status = "sending" /\ campaign.stale
                   THEN [campaign EXCEPT !.status = "pending", !.stale = FALSE] ELSE campaign
    /\ TaskTo("summary")
    /\ UNCHANGED <<settings, row, history, budget, request, queued>>

ReadSummary ==
    /\ TaskAt("campaigns", "summary")
    /\ run' = IF ~campaign.test /\ Targets # {} /\ campaign.status \notin {"draft", "deleted", Verdict}
              THEN [run EXCEPT !.phase = "reconcile", !.verdict = Verdict]
              ELSE [run EXCEPT !.phase = "read"]
    /\ UNCHANGED <<settings, row, history, budget, campaignVars>>

Reconcile ==
    /\ TaskAt("campaigns", "reconcile")
    /\ WriteStatus(run.verdict)
    /\ TaskTo("read")
    /\ UNCHANGED <<settings, row, history, budget, request, queued>>

DueTargets == {u \in User : ~campaign.test /\ IsDue(row[u])}

\* What there is to send, read before anything is sent: a pending test, or the
\* rows that are due, in some order (by id in the code).
ReadWork ==
    /\ TaskAt("campaigns", "read")
    /\ IF campaign.test /\ campaign.status = "pending"
       THEN TaskTo("start")
       ELSE IF DueTargets = {} THEN run' = AtRest
       ELSE \E turn \in [1..Cardinality(DueTargets) -> DueTargets] :
              /\ \A i, j \in DOMAIN turn : turn[i] = turn[j] => i = j
              /\ run' = [run EXCEPT !.phase = "next",
                                    !.batch = [i \in DOMAIN turn |->
                                                 [key |-> turn[i], row |-> row[turn[i]]]]]
    /\ UNCHANGED <<settings, row, history, budget, campaignVars>>

\* A test goes to the administrator: 'sending', the call, then the result.
StartTest ==
    /\ TaskAt("campaigns", "start")
    /\ WriteStatus("sending")
    /\ TaskTo("testing")
    /\ UNCHANGED <<settings, row, history, budget, request, queued>>

\* The administrator has an address and nothing else; in mode "all", without
\* email there is nothing that could be missing.  comm_history refuses the id
\* of a deleted campaign, which ends the task.
FinishTest ==
    /\ TaskAt("campaigns", "testing")
    /\ IF "email" \in run.avail
       THEN \/ WriteStatus("finished") /\ UNCHANGED budget
            \/ WriteStatus("error") /\ Pay("failure")
       ELSE WriteStatus(IF run.mode = "all" THEN "finished" ELSE "error") /\ UNCHANGED budget
    /\ run' = IF campaign.status = "deleted" THEN AtRest ELSE [run EXCEPT !.phase = "tally"]
    /\ UNCHANGED <<settings, row, history, request, queued>>

CampaignRequired == Required(FALSE)

NothingLeft == run.mode = "all" /\ NothingMissing(CampaignRequired)

TakeTarget ==
    /\ TaskAt("campaigns", "next")
    /\ run.batch # <<>>
    /\ ~NothingLeft /\ InHand.key \notin NeverUsed
    /\ TaskTo("send")
    /\ UNCHANGED <<settings, row, history, budget, campaignVars>>

\* Nothing is missing any more, or the recipient is passed over: 'sent'.
PassTarget ==
    /\ TaskAt("campaigns", "next")
    /\ run.batch # <<>>
    /\ NothingLeft \/ InHand.key \in NeverUsed
    /\ UpdateInHand(MarkedSent(row[InHand.key], InHand.row.used))
    /\ NextInBatch("next")
    /\ UNCHANGED <<settings, history, budget, campaignVars>>

SendTarget == TaskAt("campaigns", "send") /\ SendToUser(CampaignRequired) /\ UNCHANGED campaignVars

\* A deleted campaign ends the task here, too.
WriteTarget ==
    /\ TaskAt("campaigns", "sent")
    /\ IF campaign.status = "deleted" /\ run.avail # {}
       THEN run' = AtRest /\ row' = row
       ELSE WriteOutcome(CampaignRequired) /\ NextInBatch("next")
    /\ UNCHANGED <<settings, history, budget, campaignVars>>

EndTargets ==
    /\ TaskAt("campaigns", "next")
    /\ run.batch = <<>>
    /\ TaskTo("tally")
    /\ UNCHANGED <<settings, row, history, budget, campaignVars>>

ReadTally ==
    /\ TaskAt("campaigns", "tally")
    /\ run' = [run EXCEPT !.phase = "apply", !.verdict = IF Targets = {} THEN "draft" ELSE Verdict]
    /\ UNCHANGED <<settings, row, history, budget, campaignVars>>

ApplyStatus ==
    /\ TaskAt("campaigns", "apply")
    /\ WriteStatus(run.verdict)
    /\ run' = AtRest
    /\ UNCHANGED <<settings, row, history, budget, request, queued>>

RunCampaigns ==
    \/ RecoverTests \/ ReadSummary \/ Reconcile
    \/ ReadWork \/ StartTest \/ FinishTest
    \/ TakeTarget \/ PassTarget \/ SendTarget \/ WriteTarget
    \/ EndTargets \/ ReadTally \/ ApplyStatus

HalfAnHourPasses ==
    /\ run.task = "none"
    /\ campaign.test /\ campaign.status = "sending" /\ ~campaign.stale
    /\ campaign' = [campaign EXCEPT !.stale = TRUE]
    /\ UNCHANGED <<settings, row, run, history, budget, request, queued>>
====
