-------------------------------- MODULE Addins --------------------------------
(***************************************************************************)
(* Add-in packs: lib/addin-install.ts, lib/addin-registry.ts,              *)
(* routes/addins.ts, the schema lookup of lib/schema-validator.ts, and the *)
(* web container's build from the packs (entrypoint.sh,                    *)
(* generate-addin-page-registry.mjs).  A pack's files are fetched one by   *)
(* one, with other requests in between; a file that cannot be fetched is   *)
(* skipped.                                                                *)
(***************************************************************************)
EXTENDS Integers, Sequences, FiniteSets, SequencesExt

CONSTANTS Packs,          \* packs of the catalog
          SchemaTypes,    \* artifact types add-ins declare
          PackTypes,      \* those each declares, in its manifest's order
          PackPages,      \* the packs that have pages
          Installers,     \* install requests that may be under way together
          MaxInstalls, MaxMissing, MaxAddinCrashes  \* bounds

ASSUME AddinAssumption ==
    /\ PackTypes \in [Packs -> Seq(SchemaTypes)] /\ PackPages \subseteq Packs
    /\ "page" \notin SchemaTypes
    /\ {MaxInstalls, MaxMissing, MaxAddinCrashes} \subseteq Nat

VARIABLES registry,       \* registry.json: installed packs in order
          packFiles,      \* the files of each pack on disk
          rebuildPending, \* rebuild-pending.json
          rebuildSignal,  \* the signal file of the web container
          webPages,       \* packs whose pages the web's build has
          installing,     \* install requests under way: pack and files yet to fetch
          validators,     \* types whose schema this process compiled
          installs,       \* installs so far
          dismissed,      \* packs whose pending rebuild was dismissed since installed
          addinCrashes

addinVars == <<registry, packFiles, rebuildPending, rebuildSignal, webPages, installing, validators,
               installs, dismissed, addinCrashes>>

NotInstalling == [pack |-> "none", todo |-> <<>>]

AddinInit ==
    /\ registry = <<>> /\ packFiles = [p \in Packs |-> {}]
    /\ rebuildPending = {} /\ rebuildSignal = FALSE /\ webPages = {}
    /\ installing = [i \in Installers |-> NotInstalling]
    /\ validators = {} /\ installs = 0 /\ dismissed = {} /\ addinCrashes = 0

-----------------------------------------------------------------------------
(* Schemas first, then pages. *)
Files(p) == PackTypes[p] \o IF p \in PackPages THEN <<"page">> ELSE <<>>

(* POST /:id/install: the catalog has the pack; its directory and manifest *)
(* are written.                                                            *)
installPack(i, p) ==
    /\ installing[i] = NotInstalling
    /\ installs < MaxInstalls
    /\ installs' = installs + 1
    /\ packFiles' = [packFiles EXCEPT ![p] = @ \cup {"manifest"}]
    /\ installing' = [installing EXCEPT ![i] = [pack |-> p, todo |-> Files(p)]]
    /\ UNCHANGED <<registry, rebuildPending, rebuildSignal, webPages, validators, dismissed, addinCrashes>>

(* fetchAndWritePackFile.  A file is skipped while the pack misses fewer    *)
(* than MaxMissing of those asked for.                                     *)
FetchFile(i, ok) ==
    LET todo == installing[i].todo
        asked == ToSet(Files(installing[i].pack)) \ ToSet(todo)
    IN  /\ todo # <<>>
        /\ ok \/ Cardinality(asked \ packFiles[installing[i].pack]) < MaxMissing
        /\ installing' = [installing EXCEPT ![i].todo = Tail(todo)]
        /\ packFiles' = IF ok THEN [packFiles EXCEPT ![installing[i].pack] = @ \cup {Head(todo)}] ELSE packFiles
        /\ UNCHANGED <<registry, rebuildPending, rebuildSignal, webPages, validators, installs, dismissed,
                       addinCrashes>>

AddinDies ==
    /\ addinCrashes < MaxAddinCrashes
    /\ addinCrashes' = addinCrashes + 1
    /\ installing' = [i \in Installers |-> NotInstalling]
    /\ validators' = {}

Registered(p) == IF p \in ToSet(registry) THEN registry ELSE Append(registry, p)

(* Mutant: only a pack new to the registry asks for a rebuild. *)
RegisterNewOnly(i, done) ==
    LET p == installing[i].pack
    IN  /\ p # "none" /\ installing[i].todo = <<>>
        /\ done = 2
        /\ registry' = Registered(p)
        /\ rebuildPending' = IF p \in PackPages /\ p \notin ToSet(registry)
                             THEN rebuildPending \cup {p} ELSE rebuildPending
        /\ dismissed' = dismissed \ {p}
        /\ installing' = [installing EXCEPT ![i] = NotInstalling]
        /\ UNCHANGED <<packFiles, rebuildSignal, webPages, validators, installs, addinCrashes>>

(* All fetched: the registry is read and written, and a pack with pages    *)
(* asks for a rebuild.                                                     *)
Register(i, done) ==
    LET p == installing[i].pack
    IN  /\ p # "none" /\ installing[i].todo = <<>>
        /\ registry' = Registered(p)
        /\ IF done = 2
           THEN /\ rebuildPending' = IF p \in PackPages THEN rebuildPending \cup {p} ELSE rebuildPending
                /\ dismissed' = dismissed \ {p}
                /\ installing' = [installing EXCEPT ![i] = NotInstalling]
                /\ UNCHANGED <<validators, addinCrashes>>
           ELSE AddinDies /\ UNCHANGED <<rebuildPending, dismissed>>
        /\ UNCHANGED <<packFiles, rebuildSignal, webPages, installs>>

(* DELETE /:id.  The registry had the pack once; its files stay. *)
uninstallPack(p) ==
    /\ p \in ToSet(registry)
    /\ registry' = RemoveAt(registry, CHOOSE i \in DOMAIN registry : registry[i] = p)
    /\ UNCHANGED <<packFiles, rebuildPending, rebuildSignal, webPages, installing, validators, installs,
                   dismissed, addinCrashes>>

(* POST /rebuild: the signal, then the container's restart; Docker may not *)
(* be there, which leaves the signal for the next start.                   *)
Rebuild ==
    /\ ~rebuildSignal
    /\ rebuildSignal' = TRUE
    /\ UNCHANGED <<registry, packFiles, rebuildPending, webPages, installing, validators, installs, dismissed,
                   addinCrashes>>

(* POST /rebuild-dismiss *)
clearRebuildPending ==
    /\ rebuildPending # {}
    /\ rebuildPending' = {}
    /\ dismissed' = dismissed \cup (rebuildPending \ webPages)
    /\ UNCHANGED <<registry, packFiles, rebuildSignal, webPages, installing, validators, installs, addinCrashes>>

(* generateRegistry: the pages of the registered packs that have them. *)
generateRegistry == {p \in ToSet(registry) : {"manifest", "page"} \subseteq packFiles[p]}

(* The web container starts: with the signal it builds - or fails to, and  *)
(* keeps the build it has - and removes the signal.                        *)
WebStarts(builds) ==
    /\ rebuildSignal
    /\ rebuildSignal' = FALSE
    /\ webPages' = IF builds THEN generateRegistry ELSE webPages
    /\ UNCHANGED <<registry, packFiles, rebuildPending, installing, validators, installs, dismissed, addinCrashes>>

-----------------------------------------------------------------------------
(* resolveSchemaPath: the first installed pack that declares the type owns *)
(* it, whether or not its schema was fetched.                              *)
Declares(type) == SelectSeq(registry, LAMBDA p : "manifest" \in packFiles[p] /\ type \in ToSet(PackTypes[p]))

(* loadValidator: what was compiled stays, also after an uninstall. *)
Loadable(type) ==
    \/ type \in validators
    \/ Declares(type) # <<>> /\ type \in packFiles[Head(Declares(type))]

AddinRestart ==
    /\ validators # {} \/ \E i \in Installers : installing[i] # NotInstalling
    /\ AddinDies
    /\ UNCHANGED <<registry, packFiles, rebuildPending, rebuildSignal, webPages, installs, dismissed>>

AddinActions ==
    \/ \E i \in Installers, p \in Packs : installPack(i, p)
    \/ \E i \in Installers, ok \in BOOLEAN : FetchFile(i, ok)
    \/ \E i \in Installers, done \in 1..2 : Register(i, done)
    \/ \E p \in Packs : uninstallPack(p)
    \/ Rebuild \/ clearRebuildPending
    \/ \E builds \in BOOLEAN : WebStarts(builds)
    \/ AddinRestart

-----------------------------------------------------------------------------
AddinTypeOK ==
    /\ ToSet(registry) \subseteq Packs /\ IsInjective(registry)
    /\ rebuildPending \cup webPages \cup dismissed \subseteq PackPages
    /\ \A p \in Packs : packFiles[p] \subseteq {"manifest"} \cup ToSet(Files(p))
    /\ validators \subseteq SchemaTypes /\ rebuildSignal \in BOOLEAN
    /\ installs \in 0..MaxInstalls /\ addinCrashes \in 0..MaxAddinCrashes

(* The pages of an installed pack that are not served are asked for: a     *)
(* rebuild is pending, or somebody dismissed it, or the process died       *)
(* between the registry and the flag.                                      *)
UnservedPagesAreAskedFor ==
    \A p \in ToSet(registry) \cap PackPages :
        p \in webPages \cup rebuildPending \cup dismissed \/ addinCrashes > 0
=============================================================================
