--------------------------- MODULE ProviderSettings ---------------------------
(***************************************************************************)
(* Workspace settings: routes/settings.ts with its clients, among them the *)
(* settings and setup pages (each open page holds a copy), the inference   *)
(* broker of addins, which runs on the provider they choose, and the       *)
(* registry of devices (lib/device-auth.ts).  Of the entries a list has    *)
(* for one provider only the first is ever looked up: it stands for all.   *)
(***************************************************************************)
EXTENDS Naturals

CONSTANTS Tabs,               \* open settings pages
          ProviderIds, KindOf,          \* what the page offers, and the kind of each
          registeredKinds,              \* those with an adapter
          SentProviders,                \* lists other clients send: [key, kind] by provider
          EnvKeys,                      \* providers whose api_key_env is set in the environment
          OrgNames, ApiKeys, Devices,
          MaxSaves, MaxBrokered, MaxRegistrations, MaxBrokerCrashes      \* bounds

ASSUME ProviderSettingsAssumption ==
    /\ KindOf \in [ProviderIds -> {"hosted_api", "olf_managed", "other"}]
    /\ \A sent \in SentProviders : DOMAIN sent \subseteq ProviderIds
    /\ {MaxSaves, MaxBrokered, MaxRegistrations, MaxBrokerCrashes} \subseteq Nat

VARIABLES settings,          \* settings/<workspace>; providers: the kind and key of each, or "none"
          pages,             \* what each page holds
          brokered,          \* broker requests waiting for the provider
          brokerLog,         \* events inference_request_brokered: ok, or not
          devices,           \* devices/registry
          saves, brokerRequests, registrations, brokerCrashes

settingsVars == <<settings, pages, brokered, brokerLog, devices, saves, brokerRequests, registrations,
                  brokerCrashes>>

defaults == [org |-> "none", active |-> "none", providers |-> [p \in {} |-> "none"]]
Closed == [open |-> FALSE, org |-> "none", provider |-> "none", key |-> "none", configured |-> FALSE,
           subscription |-> "none", shown |-> "none"]

SettingsInit ==
    /\ settings = defaults
    /\ pages = [t \in Tabs |-> Closed]
    /\ brokered = 0 /\ brokerLog = [ok |-> 0, failed |-> 0]
    /\ devices = {}
    /\ saves = 0 /\ brokerRequests = 0 /\ registrations = 0 /\ brokerCrashes = 0

-----------------------------------------------------------------------------
(* maskProviders and the page's load: which key is stored is never shown.  *)
KeyOf(s, provider) == IF provider \in DOMAIN s.providers THEN s.providers[provider].key ELSE "none"
resolveApiKey(s, provider) ==
    IF KeyOf(s, provider) # "none" THEN KeyOf(s, provider) ELSE IF provider \in EnvKeys THEN "env" ELSE "none"

(* GET /subscription: of an OLF provider only, "unknown" on any error.     *)
fetchSubscriptionState(s) ==
    CASE s.active = "none" \/ s.active \notin DOMAIN s.providers -> {"none"}
      [] s.providers[s.active].kind # "olf_managed" -> {"none"}
      [] resolveApiKey(s, s.active) = "none" -> {"unknown"}
      [] OTHER -> {"active", "unknown"}

Loaded(page, s, subscription) ==
    IF s.active \in DOMAIN s.providers
    THEN [open |-> TRUE, org |-> s.org, provider |-> s.active, key |-> "none",
          configured |-> KeyOf(s, s.active) # "none", subscription |-> subscription, shown |-> page.shown]
    ELSE [page EXCEPT !.open = TRUE, !.org = s.org, !.subscription = "none"]

(* PUT /settings: a provider sent without a key keeps the one on file, one *)
(* that is not sent is forgotten; the active one must be among those sent. *)
mergeProviders(incoming, existing) ==
    [p \in DOMAIN incoming |->
        IF incoming[p].key = "none" /\ p \in DOMAIN existing
        THEN [incoming[p] EXCEPT !.key = existing[p].key] ELSE incoming[p]]

Merged(org, providers, active) ==
    [org |-> IF org # "none" THEN org ELSE settings.org, active |-> active,
     providers |-> mergeProviders(providers, settings.providers)]

Acceptable(s) ==
    s.active # "none" => /\ s.active \in DOMAIN s.providers
                         /\ s.providers[s.active].kind \in registeredKinds

(* Any client's PUT; what it leaves out stays as it is.                    *)
PutSettings(org, sent, active) ==
    LET next == Merged(org, sent, active)
    IN  /\ saves < MaxSaves
        /\ saves' = saves + 1
        /\ settings' = IF Acceptable(next) THEN next ELSE settings
        /\ UNCHANGED <<pages, brokered, brokerLog, devices, brokerRequests, registrations, brokerCrashes>>

(* What a page of ours sends: one provider, of the kind it is offered as.  *)
OneProvider(provider, key) == [p \in {provider} |-> [key |-> key, kind |-> KindOf[provider]]]

-----------------------------------------------------------------------------
OpenPage(t, subscription) ==
    /\ subscription \in fetchSubscriptionState(settings)
    /\ pages' = [pages EXCEPT ![t] = Loaded(Closed, settings, subscription)]
    /\ UNCHANGED <<settings, brokered, brokerLog, devices, saves, brokerRequests, registrations, brokerCrashes>>

EditPage(t, org, key) ==
    /\ pages[t].open
    /\ pages' = [pages EXCEPT ![t].org = org, ![t].key = key]
    /\ UNCHANGED <<settings, brokered, brokerLog, devices, saves, brokerRequests, registrations, brokerCrashes>>

handleProviderChange(t, provider) ==
    /\ pages[t].open
    /\ pages' = [pages EXCEPT ![t].provider = provider, ![t].key = "none", ![t].configured = FALSE,
                              ![t].subscription = "none"]
    /\ UNCHANGED <<settings, brokered, brokerLog, devices, saves, brokerRequests, registrations, brokerCrashes>>

(* The page's save, which loads the page again. lib/api.ts reports a call  *)
(* that did not get through as status 0, which is no error here.           *)
SavePage(t, reached, subscription) ==
    LET page == pages[t]
        next == Merged(page.org, OneProvider(page.provider, page.key), page.provider)
        now == IF reached THEN next ELSE settings
    IN  /\ page.open /\ page.provider # "none" /\ saves < MaxSaves
        /\ saves' = saves + 1
        /\ IF reached /\ ~Acceptable(next)
           THEN /\ pages' = [pages EXCEPT ![t].shown = "error"]
                /\ subscription = "none"
                /\ UNCHANGED settings
           ELSE /\ settings' = now
                /\ subscription \in IF reached THEN fetchSubscriptionState(now) ELSE {"none"}
                /\ pages' = [pages EXCEPT ![t] =
                      [IF reached THEN Loaded(page, now, subscription) ELSE page EXCEPT !.shown = "saved"]]
        /\ UNCHANGED <<brokered, brokerLog, devices, brokerRequests, registrations, brokerCrashes>>

(* The setup page sends its one provider without a key of its own.         *)
SetUp(org, provider) == PutSettings(org, OneProvider(provider, "none"), provider)

-----------------------------------------------------------------------------
(* POST /inference/broker: without a provider complete() throws, and       *)
(* nothing is logged.                                                      *)
Broker ==
    /\ brokerRequests < MaxBrokered
    /\ brokerRequests' = brokerRequests + 1
    /\ brokered' = IF settings.active \in DOMAIN settings.providers THEN brokered + 1 ELSE brokered
    /\ UNCHANGED <<settings, pages, brokerLog, devices, saves, registrations, brokerCrashes>>

BrokerAnswered(ok) ==
    /\ brokered > 0
    /\ brokered' = brokered - 1
    /\ brokerLog' = IF ok THEN [brokerLog EXCEPT !.ok = @ + 1] ELSE [brokerLog EXCEPT !.failed = @ + 1]
    /\ UNCHANGED <<settings, pages, devices, saves, brokerRequests, registrations, brokerCrashes>>

BrokerDies ==
    /\ brokered > 0 /\ brokerCrashes < MaxBrokerCrashes
    /\ brokerCrashes' = brokerCrashes + 1
    /\ brokered' = 0
    /\ UNCHANGED <<settings, pages, brokerLog, devices, saves, brokerRequests, registrations>>

RegisterDevice(device) ==
    /\ registrations < MaxRegistrations /\ device \notin devices
    /\ registrations' = registrations + 1
    /\ devices' = devices \cup {device}
    /\ UNCHANGED <<settings, pages, brokered, brokerLog, saves, brokerRequests, brokerCrashes>>

RevokeDevice(device) ==
    /\ device \in devices
    /\ devices' = devices \ {device}
    /\ UNCHANGED <<settings, pages, brokered, brokerLog, saves, brokerRequests, registrations, brokerCrashes>>

verifyDeviceToken(device) == device \in devices

SettingsNext ==
    \/ \E t \in Tabs :
         \/ \E subscription \in {"none", "active", "unknown"} :
              \/ OpenPage(t, subscription)
              \/ \E reached \in BOOLEAN : SavePage(t, reached, subscription)
         \/ \E org \in OrgNames, key \in ApiKeys : EditPage(t, org, key)
         \/ \E provider \in ProviderIds : handleProviderChange(t, provider)
    \/ \E org \in OrgNames, provider \in ProviderIds : SetUp(org, provider)
    \/ \E org \in OrgNames, sent \in SentProviders \cup {settings.providers},
          active \in ProviderIds \cup {"none"} : PutSettings(org, sent, active)
    \/ Broker
    \/ \E ok \in BOOLEAN : BrokerAnswered(ok)
    \/ BrokerDies
    \/ \E device \in Devices : RegisterDevice(device) \/ RevokeDevice(device)

SettingsSpec == SettingsInit /\ [][SettingsNext]_settingsVars

-----------------------------------------------------------------------------
SettingsTypeOK ==
    /\ Acceptable(settings)
    /\ DOMAIN settings.providers \subseteq ProviderIds
    /\ \A t \in Tabs : pages[t].provider \in ProviderIds \cup {"none"}
    /\ brokerCrashes = 0 =>
         brokered + brokerLog.ok + brokerLog.failed <= brokerRequests
    /\ devices \subseteq Devices
    /\ saves \in 0..MaxSaves /\ registrations \in 0..MaxRegistrations
=============================================================================
