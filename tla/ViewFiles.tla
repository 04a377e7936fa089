------------------------------ MODULE ViewFiles ------------------------------
(***************************************************************************)
(* The data of the views, as the admin API edits them: the configuration   *)
(* holds them inline or refers to files in a directory of the view, one    *)
(* for its static records, one for its blocked domains and one per zone.   *)
(* Views whose names differ in characters a path cannot have share one.    *)
(*                                                                         *)
(* An edit writes files and configuration, reloads everything, and if that *)
(* fails puts back what it wrote and reloads again.  Any of these writes   *)
(* may fail, and then leaves the file as it was or empty.  One of a file   *)
(* of a view ends the edit there and then: what it has written stays.      *)
(*                                                                         *)
(* Edits are taken one at a time.  A request that is refused before it has *)
(* written anything is not a step.                                         *)
(***************************************************************************)
EXTENDS Policy

CONSTANTS
  InitialConfig, InitialFiles,
  DataRequests,            \* <<view, [static, blocked, records: new data or None, zone: of the records]>>
  ZoneRequests,            \* <<view, zone to be stored>>
  ZoneNames,               \* <<view, zone to be deleted or given a SOA>>
  ViewRequests,            \* views to be stored, perhaps under another name
  ViewNames,               \* views to be deleted
  SectionRequests,         \* [static, blocked: global data, valid: whether the settings are]
  Invalid,                 \* an SOA or data that validation refuses
  DirOf(_),                \* sanitize_view_name_for_dir
  MaxLost,                 \* bound of the model: files one roll-back fails to put back
  MaxFaults                \* bound of the model: edits with writes that fail

VARIABLES
  config,  \* the views of the file; refs are the paths set in each, to files in dir
  files,   \* <<directory, stem>> -> contents
  spoiled, \* a write that failed, or an SOA refused, has left its file changed
  faults   \* edits with writes that failed

diskVars == <<config, files, spoiled, faults>>

\* The stems of the files that are not zones of a directory.
StaticStem == <<"static_records">>
BlockedStem == <<"blocked_domains">>
ZonesStem == <<"authoritative_zones">>

\* Every file parses as every kind: keys that are missing have defaults.
Blank == [static |-> <<>>, blocked |-> {}, zones |-> <<>>,
          zone |-> [name |-> <<>>, soa |-> FALSE, records |-> <<>>]]
StaticFile(records) == [Blank EXCEPT !.static = records]
BlockedFile(patterns) == [Blank EXCEPT !.blocked = patterns]
ZoneFile(z) == [Blank EXCEPT !.zone = z]

\* load_zones_from_dir: a zone without a name has that of its file.  Their order
\* matters only between zones of one name.
DirZones(dir, fs) ==
  LET stems == {p[2] : p \in {q \in DOMAIN fs : q[1] = dir}} \ {StaticStem, BlockedStem, ZonesStem}
      Zone(s) == LET z == fs[<<dir, s>>].zone IN IF z.name = <<>> THEN [z EXCEPT !.name = s] ELSE z
  IN SetToSeq({Zone(s) : s \in stems})

\* load_view_static_records, load_view_blocked_domains, load_view_authoritative_zones
LoadView(c, fs) ==
  LET In(ref) == ref \in c.refs
  IN [c EXCEPT !.static = IF In("static") THEN fs[<<c.dir, StaticStem>>].static ELSE @,
               !.blocked = IF In("blocked") THEN fs[<<c.dir, BlockedStem>>].blocked ELSE @,
               !.zones = @ \o (IF In("zones") THEN fs[<<c.dir, ZonesStem>>].zones ELSE <<>>)
                           \o (IF In("dir") THEN DirZones(c.dir, fs) ELSE <<>>)]

Readable(cfg, fs) ==
  \A v \in DOMAIN cfg : \A r \in {<<"static", StaticStem>>, <<"blocked", BlockedStem>>, <<"zones", ZonesStem>>} :
    r[1] \in cfg[v].refs => <<cfg[v].dir, r[2]>> \in DOMAIN fs

\* load_or_default, which validates nothing.
Load(cfg, fs) == [v \in DOMAIN cfg |-> LoadView(cfg[v], fs)]

ValidRecords(s) == \A i \in DOMAIN s : s[i].data # Invalid
ValidZone(z) == z.soa # Invalid /\ ValidRecords(z.records)
Valid(cfg) ==
  \A v \in DOMAIN cfg : ValidRecords(cfg[v].static) /\ \A i \in DOMAIN cfg[v].zones : ValidZone(cfg[v].zones[i])

Loads(cfg, fs) == Readable(cfg, fs) /\ Valid(Load(cfg, fs))

\* reload_from_disk: what runs afterwards, if it was before.
Reload(before, cfg, fs) == IF Loads(cfg, fs) THEN Load(cfg, fs) ELSE before

FilesInit ==
  /\ config = InitialConfig /\ files = InitialFiles /\ spoiled = FALSE /\ faults = 0
  /\ views = Load(config, files)
-----------------------------------------------------------------------------
(* Writing, and putting back *)

Named(cfg, view) == {v \in DOMAIN cfg : cfg[v].name = view}

\* A zone is in the file of its name: find_zone_file_in_dir, zone_file_path_for_upsert.
PathOf(dir, zone) == <<dir, zone>>

Write(path, content) == [path |-> path, content |-> content]

\* The files after the first k of these writes.
After(writes, k, fs) ==
  LET Of(p) == {i \in 1..k : writes[i].path = p}
  IN [p \in DOMAIN fs \cup {writes[i].path : i \in 1..k} |->
        IF Of(p) = {} THEN fs[p] ELSE writes[Max(Of(p))].content]
Written(writes, fs) == After(writes, Len(writes), fs)
Paths(writes) == {writes[i].path : i \in DOMAIN writes}

\* Whether writes of this edit have failed and left something changed.
Fault(left) ==
  /\ left => faults < MaxFaults
  /\ faults' = IF left THEN faults + 1 ELSE faults
  /\ spoiled' = (spoiled \/ left)

\* A write of a view's file fails: no roll-back and no reload.
WriteFails(writes) ==
  \E k \in DOMAIN writes :
    LET before == After(writes, k - 1, files)
    IN /\ files' \in {before, Written(<<Write(writes[k].path, Blank)>>, before)}
       /\ Fault(files' # files)
       /\ UNCHANGED <<config, views>>

\* Mutant: support files are written even if there are some.
SupportAlways(dir, fs) == <<Write(<<dir, StaticStem>>, Blank), Write(<<dir, BlockedStem>>, Blank)>>

\* ensure_view_support_files
Support(dir, fs) ==
  LET IfMissing(path) == IF path \in DOMAIN fs THEN <<>> ELSE <<Write(path, Blank)>>
  IN IfMissing(<<dir, StaticStem>>) \o IfMissing(<<dir, BlockedStem>>)

\* write_file_with_backup: what the paths held, if anything.
Backup(paths, fs) == [p \in paths |-> IF p \in DOMAIN fs THEN <<fs[p]>> ELSE <<>>]
Created(backups) == {p \in DOMAIN backups : backups[p] = <<>>}

\* Mutant: only files that are new are taken away.
RestoreCreated(backups, fs) ==
  [p \in DOMAIN fs \ Created(backups) |-> fs[p]]

\* rollback_view_data_files
Restore(backups, fs) ==
  [p \in (DOMAIN fs \cup DOMAIN backups) \ Created(backups) |->
     IF p \in DOMAIN backups THEN backups[p][1] ELSE fs[p]]

\* What it puts back if some of its writes fail, which it ignores: they leave the
\* files as the edit wrote them, or empty.
Attempts(backups) ==
  LET Some(paths) == {lost \in SUBSET paths : Cardinality(lost) <= MaxLost}
  IN {[p \in DOMAIN backups \ kept |-> backups[p]] : kept \in Some(DOMAIN backups)} \cup
     {[p \in DOMAIN backups |-> IF p \in torn THEN <<Blank>> ELSE backups[p]]
        : torn \in Some(DOMAIN backups \ Created(backups))}

\* ensure_view_data_paths_in_raw: inline data stay where they are.
WithPaths(cfg, view) ==
  IF Named(cfg, view) # {}
  THEN LET v == Min(Named(cfg, view))
       IN [cfg EXCEPT ![v].refs = @ \cup {"dir", "static", "blocked"}, ![v].dir = DirOf(view)]
  ELSE Append(cfg, [name |-> view, clients |-> <<>>, mode |-> "global_fallback", recursion |-> TRUE,
                    dir |-> DirOf(view),
                    refs |-> {"dir", "static", "blocked"}, blocked |-> {}, expandStatic |-> None,
                    expandRecords |-> None, zones |-> <<>>, static |-> <<>>, legacy |-> <<>>])

Accepted(cfg, fs) ==
  config' = cfg /\ files' = fs /\ views' = Load(cfg, fs) /\ spoiled' = FALSE /\ UNCHANGED faults

\* The ways apply_config_raw_and_reload ends in an error.  The text is validated
\* without its files first.  Empty, it loads, and has no views.
Failures(valid, cfg, fs) ==
  IF ~valid THEN {[config |-> config, views |-> views]}
  ELSE {[config |-> text, views |-> views] : text \in {config, <<>>}} \cup
       {[config |-> text, views |-> Reload(views, text, fs)] : text \in {t \in {config, cfg, <<>>} : ~Loads(cfg, fs)}}

\* What is put back after an error, and what runs after the reload that follows.
RollBack(failed, fs, backups) ==
  \E attempt \in Attempts(backups) :
    /\ config' = failed.config /\ files' = Restore(attempt, fs)
    /\ views' = Reload(failed.views, config', files')
    /\ Fault(config' # config \/ attempt # backups)

\* Files have been written for a new text.
Apply(valid, cfg, fs, backups) ==
  \/ valid /\ Loads(cfg, fs) /\ Accepted(cfg, fs)
  \/ \E failed \in Failures(valid, cfg, fs) : RollBack(failed, fs, backups)

\* A new text alone: nothing is reloaded after an error.
ApplyConfig(cfg) ==
  \/ Valid(cfg) /\ Loads(cfg, files) /\ Accepted(cfg, files)
  \/ \E failed \in Failures(Valid(cfg), cfg, files) :
       /\ config' = failed.config /\ views' = failed.views
       /\ Fault(config' # config)
       /\ UNCHANGED files

\* apply_external_raw_and_reload, apply_external_delete_and_reload
ApplyExternal(path, fs) ==
  \/ path \in DOMAIN fs /\ WriteFails(<<Write(path, Blank)>>)
  \/ Loads(config, fs) /\ Accepted(config, fs)
  \/ ~Loads(config, fs) /\ RollBack([config |-> config, views |-> views], fs, Backup({path}, files))
-----------------------------------------------------------------------------
(* Handlers *)

\* The SOA a zone keeps, or gets, when its records are replaced.
KeptSoa(view, zone) ==
  LET loaded == Load(config, files)
      Z == IF Named(loaded, view) = {} THEN <<>>
           ELSE SelectSeq(loaded[Min(Named(loaded, view))].zones, LAMBDA z : z.name = zone)
  IN IF Z = <<>> \/ Z[1].soa = FALSE THEN TRUE ELSE Z[1].soa

Given(data, write) == IF data = None THEN <<>> ELSE <<write>>

\* view_data_upsert_handler, and those of the static records and blocked domains
ViewDataUpsert(view, req) ==
  /\ Readable(config, files)
  /\ LET dir == DirOf(view)
         zone == [name |-> req.zone, soa |-> KeptSoa(view, req.zone), records |-> req.records]
         writes == Support(dir, files)
           \o Given(req.static, Write(<<dir, StaticStem>>, StaticFile(req.static)))
           \o Given(req.blocked, Write(<<dir, BlockedStem>>, BlockedFile(req.blocked)))
           \o Given(req.records, Write(PathOf(dir, req.zone), ZoneFile(zone)))
         cfg == WithPaths(config, view)
     IN \/ WriteFails(writes)
        \/ Apply(Valid(cfg), cfg, Written(writes, files), Backup(Paths(writes), files))

\* view_authoritative_zone_upsert_handler: the zone's file is kept apart from
\* the backups, as it is after the support files have been written.
ViewZoneUpsert(view, zone) ==
  LET dir == DirOf(view)
      support == Support(dir, files)
      supported == Written(support, files)
      write == Write(PathOf(dir, zone.name), ZoneFile(zone))
      kept == [p \in Paths(support) \cup {write.path} |->
                 Backup({p}, IF p = write.path THEN supported ELSE files)[p]]
      cfg == WithPaths(config, view)
  IN \/ WriteFails(Append(support, write))
     \/ Apply(Valid(cfg), cfg, Written(<<write>>, supported), kept)

\* config_sections_upsert_handler, as far as views go: the global data are written
\* over the files of the view called default.
SectionsUpsert(req) ==
  LET dir == DirOf("default")
      writes == <<Write(<<dir, StaticStem>>, StaticFile(req.static)),
                  Write(<<dir, BlockedStem>>, BlockedFile(req.blocked))>>
  IN \/ WriteFails(writes)
     \/ Apply(req.valid /\ Valid(config), config, Written(writes, files), Backup(Paths(writes), files))

\* reload_handler
ReloadAll ==
  /\ views' = Reload(views, config, files)
  /\ spoiled' = (spoiled /\ ~Loads(config, files))
  /\ UNCHANGED <<config, files, faults>>

Without(zones, zone) == SelectSeq(zones, LAMBDA z : z.name # zone)
Has(zones, zone) == \E i \in DOMAIN zones : zones[i].name = zone

\* update_zone_soa_in_list: the first of the name.
WithSoa(zones, zone, soa) ==
  LET first == Min({i \in DOMAIN zones : zones[i].name = zone}) IN [zones EXCEPT ![first].soa = soa]

\* resolve_authoritative_zone_mutation_target
Target(v) ==
  CASE "dir" \in config[v].refs -> "dir"
    [] "zones" \in config[v].refs -> "file"
    [] OTHER -> "inline"

Inline(v, zones) == ApplyConfig([config EXCEPT ![v].zones = zones])

\* view_authoritative_zone_delete_handler
ViewZoneDelete(view, zone) ==
  /\ Readable(config, files) /\ Named(config, view) # {}
  /\ LET v == Min(Named(config, view))
         path == PathOf(config[v].dir, zone)
         list == <<config[v].dir, ZonesStem>>
     IN \/ /\ Target(v) = "inline" /\ Has(config[v].zones, zone)
           /\ Inline(v, Without(config[v].zones, zone))
        \/ /\ Target(v) = "file" /\ Has(files[list].zones, zone)
           /\ ApplyExternal(list, [files EXCEPT ![list].zones = Without(@, zone)])
        \/ /\ Target(v) = "dir" /\ path \in DOMAIN files
           /\ ApplyExternal(path, [p \in DOMAIN files \ {path} |-> files[p]])

\* view_authoritative_zone_soa_patch_handler: in a directory the file is written
\* and stays as written whatever the reload says.
ViewSoaPatch(view, zone, soa) ==
  /\ Readable(config, files) /\ Named(config, view) # {}
  /\ LET v == Min(Named(config, view))
         path == PathOf(config[v].dir, zone)
         list == <<config[v].dir, ZonesStem>>
     IN \/ /\ Target(v) = "inline" /\ Has(config[v].zones, zone)
           /\ Inline(v, WithSoa(config[v].zones, zone, soa))
        \/ /\ Target(v) = "file" /\ Has(files[list].zones, zone)
           /\ ApplyExternal(list, [files EXCEPT ![list].zones = WithSoa(@, zone, soa)])
        \/ /\ Target(v) = "dir" /\ path \in DOMAIN files
           /\ \/ WriteFails(<<Write(path, Blank)>>)
              \/ /\ files' = [files EXCEPT ![path] = ZoneFile([@.zone EXCEPT !.soa = soa])]
                 /\ views' = Reload(views, config, files')
                 /\ spoiled' = ~Loads(config, files')
                 /\ UNCHANGED <<config, faults>>

\* views_upsert_handler: data that are in files are not taken from the request.
\* A name is taken only if its view comes first.
ViewUpsert(req) ==
  LET name == IF req.previous = None THEN req.name ELSE req.previous
      found == Named(config, name)
      Store(v) == [v EXCEPT !.name = req.name, !.mode = req.mode, !.clients = req.clients,
                            !.recursion = req.recursion,
                            !.static = IF "static" \in v.refs THEN <<>> ELSE req.static,
                            !.blocked = IF "blocked" \in v.refs THEN {} ELSE req.blocked]
      blank == [name |-> req.name, dir |-> None, clients |-> <<>>, mode |-> None, recursion |-> TRUE, refs |-> {},
                blocked |-> {}, expandStatic |-> None, expandRecords |-> None,
                zones |-> <<>>, static |-> <<>>, legacy |-> <<>>]
  IN /\ (req.name = "default") = (name = "default")
     /\ \A v \in Named(config, req.name) : v \in found \/ \E w \in found : w < v
     /\ \/ found # {} /\ ApplyConfig([config EXCEPT ![Min(found)] = Store(@)])
        \/ found = {} /\ req.previous = None /\ ApplyConfig(Append(config, Store(blank)))

\* view_delete_handler: every view of the name; its files stay.
ViewDelete(view) ==
  /\ view # "default" /\ Named(config, view) # {}
  /\ ApplyConfig(SelectSeq(config, LAMBDA c : c.name # view))

\* What is running has been loaded from files that are each in some directory.
ASSUME FilesAssumption ==
  Loads(InitialConfig, InitialFiles) /\ \A p \in DOMAIN InitialFiles : p = <<p[1], p[2]>>

FilesNext ==
  \/ \E r \in DataRequests : ViewDataUpsert(r[1], r[2])
  \/ \E r \in ZoneRequests : ViewZoneUpsert(r[1], r[2])
  \/ \E r \in SectionRequests : SectionsUpsert(r)
  \/ ReloadAll
  \/ \E r \in ViewRequests : ViewUpsert(r)
  \/ \E view \in ViewNames : ViewDelete(view)
  \/ \E r \in ZoneNames : ViewZoneDelete(r[1], r[2])
  \/ \E r \in ZoneNames, soa \in {TRUE, Invalid} : ViewSoaPatch(r[1], r[2], soa)

FilesSpec == FilesInit /\ [][FilesNext]_<<diskVars, views>>
-----------------------------------------------------------------------------
(* Properties *)

\* Whatever edits were accepted or refused, the disk holds a configuration that
\* loads, and it is the one that runs, so that a restart changes nothing, unless
\* since the last edit that was accepted a write has failed or an SOA was refused
\* in a directory: nobody puts back what those leave.
DiskIsServed ==
  ~spoiled => Loads(config, files) /\ views = Load(config, files)

InFiles(v) == {"dir", "static", "blocked"} \subseteq v.refs /\ v.dir = DirOf(v.name)

OtherZones(zones, zone) == {zones[i] : i \in {j \in DOMAIN zones : zones[j].name # zone}}

\* A step that writes files of dir changes nothing in the running views but what
\* it names, in those whose files are there.  A view whose data are not in files
\* of its own yet, if it is the one that is edited, is made to use them.
KeepsOthers(view, dir, touched, zone) ==
  \A v \in DOMAIN views :
    LET old == views[v]
        new == views'[v]
    IN old.name # view \/ InFiles(old) =>
         IF old.dir # dir THEN new = old
         ELSE /\ "static" \in touched \/ new.static = old.static
              /\ "blocked" \in touched \/ new.blocked = old.blocked
              /\ OtherZones(new.zones, zone) = OtherZones(old.zones, zone)

\* An edit changes what the running views say of what it names in the directory
\* of one of them, in the views that share it, and nothing else, unless it calls
\* one of the other files a zone.  What an edit that was refused before it has left
\* is not with it, unless the disk was spoiled.
EditKeepsOthers ==
  /\ \A r \in DataRequests :
       LET req == r[2]
           touched == {t \in {"static", "blocked"} : req[t] # None}
       IN ViewDataUpsert(r[1], req) =>
            KeepsOthers(r[1], DirOf(r[1]), touched, IF req.records = None THEN None ELSE req.zone)
  /\ \A r \in ZoneRequests :
       r[2].name \notin {StaticStem, BlockedStem} /\ ViewZoneUpsert(r[1], r[2]) =>
         KeepsOthers(r[1], DirOf(r[1]), {}, r[2].name)
  /\ \A r \in ZoneNames :
       ViewZoneDelete(r[1], r[2]) =>
         KeepsOthers(r[1], config[Min(Named(config, r[1]))].dir, {}, r[2])
  /\ \A r \in SectionRequests :
       SectionsUpsert(r) => KeepsOthers(None, DirOf("default"), {"static", "blocked"}, None)
=============================================================================
