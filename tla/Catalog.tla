-------------------------------- MODULE Catalog --------------------------------
(***************************************************************************)
(* The specialists of the labor-commons catalog as the board uses them:    *)
(* lib/labor-commons-client.ts (with its cache of specs),                  *)
(* services/specialist-resolver.ts, workers/catalog-sync.ts,               *)
(* lib/labor-commons-correction.ts and the first half of routes/org.ts.    *)
(* The catalog is read synchronously, so each request is one turn; a       *)
(* correction waits for git and GitHub, and the regeneration of a chair    *)
(* for the model.  The chairs are those of the agent_blueprint artifact,   *)
(* which the interview and the artifacts route replace as a whole.         *)
(***************************************************************************)
EXTENDS Integers, Sequences, FiniteSets, SequencesExt, Durable

CONSTANTS Specialists,      \* slugs in the catalog database
          BaseScore,        \* what a candidate scores without its spec's freshness
          SpecialistsOf,    \* by domain: the slugs of its sections
          SeatedChairs,     \* chairs of the blueprint at first: [id, domain], a sequence
          WrittenBlueprints, \* chairs a blueprint is replaced with: sequences of seats
          GapDomains,       \* domains detectGapDomain may find; "none" for no keyword
          CorrectionsMade,     \* corrections that may be under way together
          MaxSpecVersion, MaxCatalogSteps, MaxCatalogCrashes  \* bounds

Unloaded == -1
NoGap == 0
FreshGap == -1   \* a gap_id of no reported gap, as applyResolutionsToBlueprint makes them up

Seat(id, domain, refs, gap) == [id |-> id, domain |-> domain, refs |-> refs, gap |-> gap]

IsBlueprint(list) ==
    /\ list \in Seq(Range(list))
    /\ \A i \in DOMAIN list : /\ list[i] = Seat(list[i].id, list[i].domain, list[i].refs, list[i].gap)
                             /\ list[i].gap \in Int /\ list[i].gap >= FreshGap

ASSUME CatalogAssumption ==
    /\ BaseScore \in [Specialists -> Nat]
    /\ SeatedChairs \in Seq(Range(SeatedChairs))
    /\ \A list \in WrittenBlueprints : IsBlueprint(list)
    /\ MaxSpecVersion \in Nat \ {0} /\ {MaxCatalogSteps, MaxCatalogCrashes} \subseteq Nat

VARIABLES specFiles,     \* version of each spec.yaml on disk, 0 for none
          specCache,     \* the process's cache: Unloaded, or the version it loaded
          seats,         \* chairs of the agent_blueprint artifact
          matches,       \* specialist-matches/<org>
          gaps,          \* gaps/<org>
          syncState,     \* catalog-sync/<org>
          notified,      \* notifications runCatalogSync returned, oldest first
          proposals,     \* corrections under way, pull requests opened, events logged
          regenerating,  \* chairs under regeneration: the domain and the list read before
          unseated,      \* closed gaps whose chair a later blueprint left out
          catalogSteps, catalogCrashes

catalogVars == <<specFiles, specCache, seats, matches, gaps, syncState, notified, proposals,
                 regenerating, unseated, catalogSteps, catalogCrashes>>

CatalogInit ==
    /\ specFiles = [s \in Specialists |-> 1]
    /\ specCache = [s \in Specialists |-> Unloaded]
    /\ seats = [i \in DOMAIN SeatedChairs |-> Seat(SeatedChairs[i].id, SeatedChairs[i].domain, <<>>, NoGap)]
    /\ matches = <<>> /\ gaps = <<>> /\ notified = <<>>
    /\ syncState = [s \in Specialists |-> 0]
    /\ proposals = [underway |-> {}, opened |-> 0, logged |-> 0]
    /\ regenerating = {} /\ unseated = {}
    /\ catalogSteps = 0 /\ catalogCrashes = 0

CatalogStep == catalogSteps < MaxCatalogSteps /\ catalogSteps' = catalogSteps + 1

(* A process that dies forgets the cache and what was under way. *)
CatalogMayDie(cut, cache) ==
    /\ cut => catalogCrashes < MaxCatalogCrashes
    /\ catalogCrashes' = IF cut THEN catalogCrashes + 1 ELSE catalogCrashes
    /\ specCache' = IF cut THEN [s \in Specialists |-> Unloaded] ELSE cache
    /\ proposals' = IF cut THEN [proposals EXCEPT !.underway = {}] ELSE proposals
    /\ regenerating' = IF cut THEN {} ELSE regenerating

-----------------------------------------------------------------------------
(* loadSpec: what was loaded once stays, also that there was nothing. *)
LoadAll(slugs) ==
    [s \in Specialists |-> IF s \in slugs /\ specCache[s] = Unloaded THEN specFiles[s] ELSE specCache[s]]

(* searchSpecialists: the candidates of the domain, best score first; a    *)
(* spec that reads as current is worth 10.                                 *)
Score(slug, cache) == BaseScore[slug] + IF cache[slug] > 0 THEN 10 ELSE 0
searchSpecialists(domain, cache) ==
    SortSeq(SetToSeq(SpecialistsOf[domain]), LAMBDA a, b : Score(a, cache) > Score(b, cache))

(* resolveChair: the best is the primary; if it leaves tasks uncovered, up *)
(* to two of the next three support it.  Nobody at all is a gap.           *)
resolveChair(seat, uncovered, cache) ==
    LET found == searchSpecialists(seat.domain, cache)
    IN  [chair |-> seat.id, catalogGap |-> found = <<>>,
         slugs |-> IF uncovered \/ found = <<>> THEN SubSeq(found, 1, IF Len(found) < 3 THEN Len(found) ELSE 3)
                   ELSE <<Head(found)>>]

NewGap(domain) == [domain |-> domain, resolved |-> FALSE, submitted |-> FALSE]

(* POST /resolve-specialists: a gap is reported per chair nobody fits, and *)
(* the resolutions replace the pending ones.                               *)
ResolveSpecialists(uncovered, cut) ==
    LET cache == LoadAll(UNION {SpecialistsOf[seats[i].domain] : i \in DOMAIN seats})
        found == [i \in DOMAIN seats |-> resolveChair(seats[i], uncovered, cache)]
        missing == Kept(seats, {i \in DOMAIN seats : SpecialistsOf[seats[i].domain] = {}})
    IN  /\ CatalogStep
        /\ gaps' = gaps \o [i \in DOMAIN missing |-> NewGap(missing[i].domain)]
        /\ matches' = IF cut THEN matches ELSE found
        /\ CatalogMayDie(cut, cache)
        /\ UNCHANGED <<specFiles, seats, syncState, notified, unseated>>

(* applyResolutionsToBlueprint: refs and gap of the chairs that have a     *)
(* resolution.  The gap's id is a new one, not the reported gap's.         *)
applyResolutionsToBlueprint ==
    [i \in DOMAIN seats |->
        LET mine == {m \in DOMAIN matches : matches[m].chair = seats[i].id}
        IN  IF mine = {} THEN seats[i]
            ELSE LET m == matches[CHOOSE k \in mine : TRUE]
                 IN  Seat(seats[i].id, seats[i].domain,
                          [k \in DOMAIN m.slugs |-> [slug |-> m.slugs[k], pinned |-> FALSE]],
                          IF m.catalogGap THEN FreshGap ELSE NoGap)]

(* POST /confirm-specialists: the artifact, then the pending matches go. *)
ConfirmSpecialists(done) ==
    /\ matches # <<>>
    /\ CatalogStep
    /\ seats' = writeJsonAtomic(done, 1, applyResolutionsToBlueprint, seats)
    /\ matches' = writeJsonAtomic(done, 2, <<>>, matches)
    /\ CatalogMayDie(done < 2, specCache)
    /\ UNCHANGED <<specFiles, gaps, syncState, notified, unseated>>

(* PUT /chairs/:chair_id/specialists *)
OverrideSpecialists(i, slug, pinned) ==
    /\ CatalogStep
    /\ seats' = [seats EXCEPT ![i].refs = <<[slug |-> slug, pinned |-> pinned]>>]
    /\ UNCHANGED <<specFiles, specCache, matches, gaps, syncState, notified, proposals, regenerating,
                   unseated, catalogCrashes>>

-----------------------------------------------------------------------------
HasSeat(domain) == \E i \in DOMAIN seats : seats[i].domain = domain

(* buildAgentChair and the end of POST /gaps: the chair is written, then   *)
(* the gap closed; a blueprint the schema refuses leaves the gap open.     *)
SeatForGap(done, domain, refused) ==
    /\ seats' = IF ~refused /\ done >= 2 THEN Append(seats, Seat(domain, domain, <<>>, Len(gaps) + 1)) ELSE seats
    /\ gaps' = writeJsonAtomic(done, 1,
                 Append(gaps, [NewGap(domain) EXCEPT !.resolved = ~refused /\ done >= 3]), gaps)

(* POST /gaps *)
PostGap(domain, refused, done) ==
    /\ CatalogStep
    /\ IF domain = "none" \/ HasSeat(domain)
       THEN /\ ~refused
            /\ gaps' = writeJsonAtomic(done, 1,
                         Append(gaps, [NewGap(domain) EXCEPT !.resolved = domain # "none" /\ done >= 2]), gaps)
            /\ UNCHANGED seats
       ELSE SeatForGap(done, domain, refused)
    /\ CatalogMayDie(done < 3, specCache)
    /\ UNCHANGED <<specFiles, matches, syncState, notified, unseated>>

(* POST /gaps/:gap_id/submit *)
SubmitGap(i) ==
    /\ CatalogStep
    /\ gaps' = [gaps EXCEPT ![i].submitted = TRUE]
    /\ UNCHANGED <<specFiles, specCache, seats, matches, syncState, notified, proposals, regenerating,
                   unseated, catalogCrashes>>

-----------------------------------------------------------------------------
(* Others who write the agent_blueprint artifact.  Nobody looks at the     *)
(* gaps: one that is closed may lose its chair.                            *)
LeftOut(chairs) ==
    {i \in DOMAIN gaps : gaps[i].resolved /\ \A k \in DOMAIN chairs : chairs[k].domain # gaps[i].domain}

(* POST /artifacts/agent_blueprint, a preset, or the interview's end. *)
ReplaceBlueprint(chairs) ==
    /\ \A i \in DOMAIN chairs : chairs[i].gap <= Len(gaps)
    /\ CatalogStep
    /\ seats' = chairs
    /\ unseated' = unseated \cup LeftOut(chairs)
    /\ UNCHANGED <<specFiles, specCache, matches, gaps, syncState, notified, proposals, regenerating,
                   catalogCrashes>>

(* POST /interview/chairs/:domain/regenerate reads the blueprint, asks the *)
(* model for the chair's workers and writes the list it read.              *)
BeginRegeneration(domain) ==
    /\ HasSeat(domain)
    /\ CatalogStep
    /\ regenerating' = regenerating \cup {[domain |-> domain, chairs |-> seats]}
    /\ UNCHANGED <<specFiles, specCache, seats, matches, gaps, syncState, notified, proposals,
                   unseated, catalogCrashes>>

regenerateChairWorkers(g, refs) ==
    LET first == CHOOSE i \in DOMAIN g.chairs :
                   /\ g.chairs[i].domain = g.domain
                   /\ \A k \in 1..(i - 1) : g.chairs[k].domain # g.domain
    IN  [i \in DOMAIN g.chairs |->
            IF g.chairs[i].domain = g.domain THEN Seat(g.chairs[first].id, g.domain, refs, NoGap)
            ELSE g.chairs[i]]

EndRegeneration(g, refs, failed) ==
    /\ g \in regenerating
    /\ regenerating' = regenerating \ {g}
    /\ seats' = IF failed THEN seats ELSE regenerateChairWorkers(g, refs)
    /\ unseated' = IF failed THEN unseated ELSE unseated \cup LeftOut(g.chairs)
    /\ UNCHANGED <<specFiles, specCache, matches, gaps, syncState, notified, proposals,
                   catalogSteps, catalogCrashes>>

-----------------------------------------------------------------------------
Unpinned == {r.slug : r \in {ref \in UNION {Range(seats[i].refs) : i \in DOMAIN seats} : ~ref.pinned}}

SaveSyncState(state, changed, cache) ==
    [s \in Specialists |-> IF s \in changed THEN cache[s] ELSE state[s]]

(* runCatalogSync with checkForUpdates, which asks the cache: one          *)
(* notification per slug that is newer than the known version.             *)
RunCatalogSync ==
    LET cache == LoadAll(Unpinned)
        changed == {s \in Unpinned : cache[s] > syncState[s]}
    IN  /\ CatalogStep
        /\ notified' = notified \o SetToSeq({[slug |-> s, version |-> cache[s]] : s \in changed})
        /\ syncState' = SaveSyncState(syncState, changed, cache)
        /\ CatalogMayDie(FALSE, cache)
        /\ UNCHANGED <<specFiles, seats, matches, gaps, unseated>>

(* The catalog's checkout is updated by whoever keeps it. *)
UpdateSpec(s) ==
    /\ specFiles[s] < MaxSpecVersion
    /\ specFiles' = [specFiles EXCEPT ![s] = @ + 1]
    /\ UNCHANGED <<specCache, seats, matches, gaps, syncState, notified, proposals, regenerating,
                   unseated, catalogSteps, catalogCrashes>>

-----------------------------------------------------------------------------
(* POST /specialist-corrections: a worktree of its own, a push, a pull     *)
(* request; the event is logged when the answer is back.                   *)
BeginCorrection(c) ==
    /\ c \notin proposals.underway
    /\ CatalogStep
    /\ proposals' = [proposals EXCEPT !.underway = @ \cup {c}]
    /\ UNCHANGED <<specFiles, specCache, seats, matches, gaps, syncState, notified, regenerating,
                   unseated, catalogCrashes>>

EndCorrection(c, opened, told) ==
    /\ c \in proposals.underway
    /\ told => opened
    /\ proposals' = [underway |-> proposals.underway \ {c},
                     opened |-> proposals.opened + IF opened THEN 1 ELSE 0,
                     logged |-> proposals.logged + IF told THEN 1 ELSE 0]
    /\ UNCHANGED <<specFiles, specCache, seats, matches, gaps, syncState, notified, regenerating,
                   unseated, catalogSteps, catalogCrashes>>

CatalogRestart ==
    /\ CatalogMayDie(TRUE, specCache)
    /\ UNCHANGED <<specFiles, seats, matches, gaps, syncState, notified, unseated, catalogSteps>>

CatalogNext ==
    \/ \E uncovered, cut \in BOOLEAN : ResolveSpecialists(uncovered, cut)
    \/ \E done \in 0..2 : ConfirmSpecialists(done)
    \/ \E i \in DOMAIN seats, slug \in Specialists, pinned \in BOOLEAN : OverrideSpecialists(i, slug, pinned)
    \/ \E domain \in GapDomains, refused \in BOOLEAN, done \in 0..3 : PostGap(domain, refused, done)
    \/ \E i \in DOMAIN gaps : SubmitGap(i)
    \/ RunCatalogSync
    \/ \E s \in Specialists : UpdateSpec(s)
    \/ \E c \in CorrectionsMade : \/ BeginCorrection(c)
                               \/ \E opened, told \in BOOLEAN : EndCorrection(c, opened, told)
    \/ \E chairs \in WrittenBlueprints : ReplaceBlueprint(chairs)
    \/ \E i \in DOMAIN seats : BeginRegeneration(seats[i].domain)
    \/ \E g \in regenerating, slug \in Specialists, failed \in BOOLEAN :
          EndRegeneration(g, <<[slug |-> slug, pinned |-> FALSE]>>, failed)
    \/ CatalogRestart

CatalogSpec == CatalogInit /\ [][CatalogNext]_catalogVars

-----------------------------------------------------------------------------
CatalogTypeOK ==
    /\ \A s \in Specialists : /\ specFiles[s] \in 1..MaxSpecVersion
                              /\ specCache[s] \in -1..specFiles[s]
                              /\ syncState[s] \in 0..specFiles[s]
    /\ \A i \in DOMAIN seats : seats[i].gap \in -1..Len(gaps)
    /\ proposals.logged <= proposals.opened
    /\ unseated \subseteq DOMAIN gaps
    /\ catalogSteps \in 0..MaxCatalogSteps /\ catalogCrashes \in 0..MaxCatalogCrashes

(* A gap is closed only when a chair of its domain is on file, also when   *)
(* the schema refuses the chair or the process dies on the way; and only a *)
(* blueprint that replaced the chairs, or the list a regeneration read     *)
(* before the chair was there, takes the chair away again.                 *)
ClosedGapsHaveChairs ==
    \A i \in DOMAIN gaps : gaps[i].resolved => HasSeat(gaps[i].domain) \/ i \in unseated
=============================================================================
