---- MODULE Communications ----
(***************************************************************************)
(* The outboxes together: a campaign and a scheduled message, the requests  *)
(* that touch them, the engine's only worker that sends both, the settings  *)
(* it reads at the beginning of a task, the passing of time, and the death  *)
(* of the process.                                                          *)
(***************************************************************************)
EXTENDS Campaigns, ScheduledMessages

vars == <<settings, row, run, history, budget, campaignVars, messageVars>>

\* Rows a campaign or the message has begun to deliver.
PartlyDelivered == \E k \in Key : row[k].status # "sent" /\ row[k].used # {}

\* The configuration page.  From "all" to "first", one delivery is enough and
\* those already made no longer count.
SaveConfiguration ==
    /\ Pay("ask")
    /\ sendMode' \in {"first", "all"}
    /\ avail' \in SUBSET Channel
    /\ settings' # settings
    /\ excused' = (excused \/ (sendMode = "all" /\ sendMode' = "first" /\ (PartlyDelivered \/ run.mode = "all")))
    /\ UNCHANGED <<row, run, got, campaignVars, messageVars>>

\* What is in memory goes; a row whose message has left but is not written as
\* such will be sent again.
Death ==
    /\ Pay("death")
    /\ excused' = (excused \/ (run.phase \in {"sent", "store"} /\ run.ok # {}))
    /\ run' = AtRest
    /\ request' = [t \in Thread |-> Quiet]
    /\ order' = [t \in Thread |-> NoOrder]
    /\ UNCHANGED <<settings, row, got, campaign, queued, event, extras>>

Init == DeliveriesInit /\ CampaignsInit /\ MessagesInit

CampaignStep ==
    /\ \/ \E t \in Thread : AskCampaign(t) \/ QueueCampaign(t)
       \/ StartCampaigns \/ RunCampaigns \/ HalfAnHourPasses
    /\ UNCHANGED messageVars

MessageStep ==
    /\ \/ \E t \in Thread : LookUp(t) \/ StoreMessage(t) \/ RetryFailed(t)
       \/ ScheduleSuggestion \/ StartMessages \/ RunMessages
       \/ ADayPasses \/ CooldownEnds
    /\ UNCHANGED campaignVars

Next ==
    \/ CampaignStep
    \/ MessageStep
    \/ (\E k \in Key : TimeComes(k)) /\ UNCHANGED <<campaignVars, messageVars>>
    \/ SaveConfiguration
    \/ Death

Spec == Init /\ [][Next]_vars

\* Requests end and time passes; the worker ends what it has begun, and the
\* engine, which takes its queue in order, lets each task have its turn.
Fairness ==
    /\ \A t \in Thread : /\ WF_vars(QueueCampaign(t) /\ UNCHANGED messageVars)
                         /\ WF_vars(StoreMessage(t) /\ UNCHANGED campaignVars)
    /\ \A k \in Key : WF_vars(TimeComes(k) /\ UNCHANGED <<campaignVars, messageVars>>)
    /\ WF_vars(HalfAnHourPasses /\ UNCHANGED messageVars)
    /\ WF_vars(ADayPasses /\ UNCHANGED campaignVars)
    /\ WF_vars(RunCampaigns /\ UNCHANGED messageVars)
    /\ WF_vars(RunMessages /\ UNCHANGED campaignVars)
    /\ SF_vars(StartCampaigns /\ UNCHANGED messageVars)
    /\ SF_vars(StartMessages /\ UNCHANGED campaignVars)

FairSpec == Spec /\ Fairness

----------------------------------------------------------------------------
(***************************************************************************)
(* Properties.                                                              *)
(***************************************************************************)
\* The variables keep to what the columns and the tasks can hold.
TypeOK == DeliveriesType /\ CampaignsType /\ MessagesType

\* Retries, catch-ups, revivals by a new notice and the manual retry never
\* bring somebody the same message twice through a channel.  Where the outcome
\* of a sending was lost by a death, or the mode was changed under a partial
\* delivery, a repetition is the code's choice.
NoDoubleDelivery == excused \/ \A k \in Key, c \in Channel : got[k][c] <= 1

\* A row that says 'sent' was delivered through some channel, unless its
\* recipient is passed over; also when its campaign was rebuilt or deleted
\* while the task held it.
SentWasDelivered ==
    \A k \in Key \ NeverUsed :
        row[k].status = "sent" => \E c \in Channel : got[k][c] > 0

\* A campaign comes to rest with the status its recipients account for,
\* however its requests, its task and deaths met: never stuck in delivery,
\* never in error when everybody has it.  A test comes to rest, too, unless it
\* was a campaign with recipients before it was saved as a test.
CampaignsEnd ==
    <>[](\/ campaign.status \in {"draft", "deleted"}
         \/ IF campaign.test THEN campaign.status \in {"finished", "error"} \/ Targets # {}
            ELSE campaign.status = Verdict \/ Targets = {})

\* Everyone is served: each row is delivered or has failed for good, unless
\* its campaign is no longer one that is sent, or nothing is configured.
EveryoneIsServed ==
    \A k \in Key :
        <>[](\/ row[k].status = "none" \/ IsSettled(row[k])
             \/ k \in User /\ campaign.test
             \/ k = Msg /\ avail = {})
====
