------------------------------- MODULE Outreach -------------------------------
(***************************************************************************)
(* Outreach campaigns of routes/level4.ts: settings, prospects, a send     *)
(* that waits for the mail service once per prospect, and the replies that *)
(* come in meanwhile. computeLevel4Dashboard reads what is kept here.      *)
(***************************************************************************)
EXTENDS ProcessEnvironment, Integers, Sequences, SequencesExt, FiniteSets

CONSTANTS Emails, Uploads,        \* sequences of emails an upload may hold
          DailyCaps,
          PausePerCent,           \* complaint_pause_threshold
          MaxProspects, MaxCampaigns, MaxSends, MaxReplies, MaxOutreachCrashes    \* bounds

ASSUME OutreachAssumption ==
    /\ Uploads \subseteq Seq(Emails) /\ DailyCaps \subseteq Nat /\ PausePerCent \in Nat
    /\ {MaxProspects, MaxCampaigns, MaxSends, MaxReplies, MaxOutreachCrashes} \subseteq Nat

VARIABLES outreachConfig,    \* outreach-config
          prospects,         \* outreach-prospects
          campaigns,         \* outreach-campaigns, in the order of their making
          sendActions,       \* statuses of the actions outreach.campaign_send
          sends,             \* in memory: sends under way, at most one of a campaign (activeLocks),
                             \* each with the number of its mails not taken yet
          replies,           \* outreach-replies: classifications
          contacts,          \* pipeline-state: emails
          mailed,            \* mails that left, by campaign
          uncounted,         \* of these, those of sends that broke off
          outreachSends, outreachCrashes

outreachVars == <<outreachConfig, prospects, campaigns, sendActions, sends, replies, contacts, mailed,
                  uncounted, outreachSends, outreachCrashes>>

Classifications == {"interested", "not_now", "unsubscribe", "complaint"}
CampaignIds == 1..MaxCampaigns
Unsent == [sending |-> FALSE, left |-> 0, sent |-> 0, counted |-> 0]

OutreachInit ==
    /\ outreachConfig = [enabled |-> FALSE, cap |-> 50]
    /\ prospects = <<>> /\ campaigns = <<>> /\ sendActions = <<>> /\ replies = <<>>
    /\ contacts = {}
    /\ sends = [c \in CampaignIds |-> Unsent]
    /\ mailed = [c \in CampaignIds |-> 0] /\ uncounted = mailed
    /\ outreachSends = 0 /\ outreachCrashes = 0

-----------------------------------------------------------------------------
PatchConfig(enabled, cap) ==
    /\ outreachConfig' = [enabled |-> enabled, cap |-> cap]
    /\ UNCHANGED <<prospects, campaigns, sendActions, sends, replies, contacts, mailed, uncounted,
                   outreachSends, outreachCrashes>>

(* launch-from-prompt begins the venture's outreach anew. *)
RelaunchResets ==
    /\ outreachConfig # [enabled |-> FALSE, cap |-> 50] \/ contacts # {}
    /\ outreachConfig' = [enabled |-> FALSE, cap |-> 50]
    /\ contacts' = {}
    /\ UNCHANGED <<prospects, campaigns, sendActions, sends, replies, mailed, uncounted,
                   outreachSends, outreachCrashes>>

(* Every upload adds its prospects, known or suppressed ones too. *)
UploadProspects(emails) ==
    /\ Len(prospects) + Len(emails) <= MaxProspects
    /\ prospects' = prospects \o [i \in DOMAIN emails |-> [email |-> emails[i], suppressed |-> FALSE]]
    /\ UNCHANGED <<outreachConfig, campaigns, sendActions, sends, replies, contacts, mailed, uncounted,
                   outreachSends, outreachCrashes>>

CreateCampaign ==
    /\ Len(campaigns) < MaxCampaigns
    /\ campaigns' = Append(campaigns, [status |-> "draft", sentCount |-> 0, unsubscribes |-> 0, complaints |-> 0])
    /\ UNCHANGED <<outreachConfig, prospects, sendActions, sends, replies, contacts, mailed, uncounted,
                   outreachSends, outreachCrashes>>

-----------------------------------------------------------------------------
(* Mutant: no lock per campaign. *)
MaySendUnlocked(c, enabled) ==
    /\ outreachSends < MaxSends
    /\ ~CB_KILL_SWITCH /\ externalWriteAllowed("email", enabled) /\ outreachConfig.enabled

MaySend(c, enabled) ==
    /\ outreachSends < MaxSends
    /\ ~CB_KILL_SWITCH /\ externalWriteAllowed("email", enabled) /\ outreachConfig.enabled
    /\ ~sends[c].sending

(* A campaign nothing was sent of asks for approval of its text first.    *)
AskToSend(c, enabled) ==
    /\ MaySend(c, enabled)
    /\ campaigns[c].sentCount = 0
    /\ Len(sendActions) < MaxCampaigns
    /\ sendActions' = Append(sendActions, "pending")
    /\ UNCHANGED <<outreachConfig, prospects, campaigns, sends, replies, contacts, mailed, uncounted,
                   outreachSends, outreachCrashes>>

(* approve-execute of such an action: no connector is called.             *)
ApproveSend(i) ==
    /\ sendActions[i] = "pending" /\ ~CB_KILL_SWITCH
    /\ sendActions' = [sendActions EXCEPT ![i] = "completed"]
    /\ UNCHANGED <<outreachConfig, prospects, campaigns, sends, replies, contacts, mailed, uncounted,
                   outreachSends, outreachCrashes>>

(* The prospects not suppressed now, up to the cap; the first mail leaves. *)
Recipients ==
    LET open == Cardinality({i \in DOMAIN prospects : ~prospects[i].suppressed})
    IN  IF open < outreachConfig.cap THEN open ELSE outreachConfig.cap

Sent(c, flight) ==
    campaigns' = [campaigns EXCEPT ![c].status = "sent", ![c].sentCount = flight.counted + flight.sent]

BeginSend(c, enabled) ==
    /\ MaySend(c, enabled)
    /\ outreachSends' = outreachSends + 1
    /\ LET flight == [sending |-> TRUE, left |-> Recipients, sent |-> 0, counted |-> campaigns[c].sentCount]
       IN  IF Recipients = 0
           THEN Sent(c, flight) /\ UNCHANGED <<sends, mailed>>
           ELSE /\ sends' = [sends EXCEPT ![c] = flight]
                /\ mailed' = [mailed EXCEPT ![c] = @ + 1]
                /\ UNCHANGED campaigns
    /\ UNCHANGED <<outreachConfig, prospects, sendActions, replies, contacts, uncounted, outreachCrashes>>

(* A mail was taken: the next one, or the end of the send. *)
NextMail(c) ==
    LET flight == [sends[c] EXCEPT !.left = @ - 1, !.sent = @ + 1]
    IN  /\ sends[c].sending
        /\ IF flight.left # 0
           THEN /\ sends' = [sends EXCEPT ![c] = flight]
                /\ mailed' = [mailed EXCEPT ![c] = @ + 1]
                /\ UNCHANGED campaigns
           ELSE /\ Sent(c, flight)
                /\ sends' = [sends EXCEPT ![c] = Unsent]
                /\ UNCHANGED mailed
        /\ UNCHANGED <<outreachConfig, prospects, sendActions, replies, contacts, uncounted,
                       outreachSends, outreachCrashes>>

(* The mail service threw, or the process died: what left is not counted. *)
BreakOff(c) ==
    /\ sends[c].sending
    /\ sends' = [sends EXCEPT ![c] = Unsent]
    /\ mailed' = [mailed EXCEPT ![c] = @ - 1]
    /\ uncounted' = [uncounted EXCEPT ![c] = @ + sends[c].sent]
    /\ UNCHANGED <<outreachConfig, prospects, campaigns, sendActions, replies, contacts,
                   outreachSends, outreachCrashes>>

DieSending ==
    /\ outreachCrashes < MaxOutreachCrashes
    /\ \E c \in CampaignIds : sends[c].sending
    /\ outreachCrashes' = outreachCrashes + 1
    /\ uncounted' = [c \in CampaignIds |-> uncounted[c] + sends[c].sent + (IF sends[c].sending THEN 1 ELSE 0)]
    /\ sends' = [c \in CampaignIds |-> Unsent]
    /\ UNCHANGED <<outreachConfig, prospects, campaigns, sendActions, replies, contacts, mailed, outreachSends>>

-----------------------------------------------------------------------------
(* POST /outreach/replies, once the classifier (remote, or the keywords of *)
(* classifyFallback) has answered. Whatever campaign was replied to, the   *)
(* first one is charged; without one a prospect is not even suppressed.    *)
ReceiveReply(email, classification) ==
    LET charged == Len(campaigns) > 0 /\ classification \in {"unsubscribe", "complaint"}
        complaints == campaigns[1].complaints + 1
        paused == complaints * 100 >= PausePerCent * campaigns[1].sentCount /\ campaigns[1].sentCount > 0
    IN  /\ Len(replies) < MaxReplies
        /\ replies' = Append(replies, classification)
        /\ prospects' = IF charged
                        THEN [i \in DOMAIN prospects |->
                                [prospects[i] EXCEPT !.suppressed = @ \/ prospects[i].email = email]]
                        ELSE prospects
        /\ campaigns' =
             CASE charged /\ classification = "unsubscribe" -> [campaigns EXCEPT ![1].unsubscribes = @ + 1]
               [] charged /\ classification = "complaint" ->
                    [campaigns EXCEPT ![1].complaints = complaints,
                                      ![1].status = IF paused \/ PausePerCent = 0 THEN "paused" ELSE @]
               [] OTHER -> campaigns
        /\ contacts' = IF classification = "interested" THEN contacts \cup {email} ELSE contacts
        /\ UNCHANGED <<outreachConfig, sendActions, sends, mailed, uncounted, outreachSends, outreachCrashes>>

OutreachNext ==
    \/ \E enabled \in BOOLEAN, cap \in DailyCaps : PatchConfig(enabled, cap)
    \/ RelaunchResets
    \/ \E emails \in Uploads : UploadProspects(emails)
    \/ CreateCampaign
    \/ \E c \in DOMAIN campaigns :
         \/ \E enabled \in EnabledAdapters : AskToSend(c, enabled) \/ BeginSend(c, enabled)
         \/ NextMail(c)
         \/ BreakOff(c)
    \/ \E i \in DOMAIN sendActions : ApproveSend(i)
    \/ DieSending
    \/ \E email \in Emails, classification \in Classifications : ReceiveReply(email, classification)

OutreachSpec == OutreachInit /\ [][OutreachNext]_outreachVars

-----------------------------------------------------------------------------
computeLevel4Dashboard ==
    [prospects |-> Len(prospects), campaigns |-> Len(campaigns), replies |-> Len(replies),
     sentTotal |-> FoldLeft(LAMBDA total, c : total + c.sentCount, 0, campaigns),
     interested |-> Cardinality({i \in DOMAIN replies : replies[i] = "interested"})]

OutreachTypeOK ==
    /\ Len(prospects) <= MaxProspects /\ Len(campaigns) <= MaxCampaigns /\ Len(replies) <= MaxReplies
    /\ contacts \subseteq Emails
    /\ \A c \in CampaignIds : sends[c].sending => c \in DOMAIN campaigns /\ sends[c].left > 0
    /\ \A c \in DOMAIN campaigns : campaigns[c].status \in {"draft", "sent", "paused"}
    /\ computeLevel4Dashboard.interested >= Cardinality(contacts)

(* Every mail that left is in a campaign's count once its send has ended,  *)
(* unless the send broke off: the count read before the mails and written  *)
(* after them loses none, whatever sends and replies come between (the     *)
(* lock outreach.campaign.<id>.send).                                      *)
MailsAreCounted ==
    \A c \in DOMAIN campaigns :
       mailed[c] = campaigns[c].sentCount + uncounted[c] +
                   (IF sends[c].sending THEN sends[c].sent + 1 ELSE 0)
=============================================================================
