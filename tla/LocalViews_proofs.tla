-------------------------- MODULE LocalViews_proofs --------------------------
(***************************************************************************)
(* Whatever the configuration, the files and the edits, and whichever of   *)
(* their writes fail, what runs is what a restart would load, as long as   *)
(* no failed write and no refused SOA has left its file changed.           *)
(*                                                                         *)
(* An accepted edit runs what it has written.  A refused one puts back     *)
(* every file it changed; what it may leave behind are empty support       *)
(* files, which no view refers to, or its own reload would have failed     *)
(* before.  The configuration then loads as it did before the edit.  The   *)
(* queries between the edits touch none of it.                             *)
(*                                                                         *)
(* A query of a view_only view stays in it: as long as it is unanswered it *)
(* is in the layers of its own view, and so are the names it waits for.    *)
(***************************************************************************)
EXTENDS LocalViews, TLAPS

\* Every file is in a directory, under a stem.
InDirectories(fs) == \A p \in DOMAIN fs : p = <<p[1], p[2]>>

FilesInv == InDirectories(files) /\ DiskIsServed

\* g holds what f does, and besides it support files at most.
Besides(f, g) ==
  /\ DOMAIN f \subseteq DOMAIN g
  /\ \A p \in DOMAIN f : g[p] = f[p]
  /\ \A p \in DOMAIN g \ DOMAIN f : p = <<p[1], p[2]>> /\ p[2] \in {StaticStem, BlockedStem}

\* Support files are not zones.
LEMMA SameZones ==
  ASSUME NEW f, NEW g, NEW dir, Besides(f, g), InDirectories(f)
  PROVE  DirZones(dir, g) = DirZones(dir, f)
<1> DEFINE Stems(fs) == {p[2] : p \in {q \in DOMAIN fs : q[1] = dir}} \ {StaticStem, BlockedStem, ZonesStem}
           Zone(fs, s) == LET z == fs[<<dir, s>>].zone IN IF z.name = <<>> THEN [z EXCEPT !.name = s] ELSE z
<1>1. Stems(g) = Stems(f)
  BY DEF Besides
<1>2. \A s \in Stems(f) : g[<<dir, s>>] = f[<<dir, s>>]
  <2> SUFFICES ASSUME NEW s \in Stems(f) PROVE g[<<dir, s>>] = f[<<dir, s>>]
    OBVIOUS
  <2>1. <<dir, s>> \in DOMAIN f
    BY DEF InDirectories
  <2> QED  BY <2>1 DEF Besides
<1>3. \A s \in Stems(f) : Zone(g, s) = Zone(f, s)
  BY <1>2
<1> HIDE DEF Stems, Zone
<1>4. {Zone(g, s) : s \in Stems(g)} = {Zone(f, s) : s \in Stems(f)}
  BY <1>1, <1>3
<1> QED  BY <1>4 DEF DirZones, Stems, Zone

\* A view whose files are all there loads alike.
LEMMA SameView ==
  ASSUME NEW f, NEW g, NEW c, Besides(f, g), InDirectories(f),
         "static" \in c.refs => <<c.dir, StaticStem>> \in DOMAIN f,
         "blocked" \in c.refs => <<c.dir, BlockedStem>> \in DOMAIN f,
         "zones" \in c.refs => <<c.dir, ZonesStem>> \in DOMAIN f
  PROVE  LoadView(c, g) = LoadView(c, f)
<1>1. "static" \in c.refs => g[<<c.dir, StaticStem>>] = f[<<c.dir, StaticStem>>]
  BY DEF Besides
<1>2. "blocked" \in c.refs => g[<<c.dir, BlockedStem>>] = f[<<c.dir, BlockedStem>>]
  BY DEF Besides
<1>3. "zones" \in c.refs => g[<<c.dir, ZonesStem>>] = f[<<c.dir, ZonesStem>>]
  BY DEF Besides
<1>4. DirZones(c.dir, g) = DirZones(c.dir, f)
  BY SameZones
<1> QED  BY <1>1, <1>2, <1>3, <1>4, Zenon DEF LoadView

\* So does a configuration.
LEMMA SameConfiguration ==
  ASSUME NEW cfg, NEW f, NEW g, Besides(f, g), InDirectories(f), Loads(cfg, f)
  PROVE  Loads(cfg, g)
<1>1. Readable(cfg, f)
  BY DEF Loads
<1>2. \A v \in DOMAIN cfg : LoadView(cfg[v], g) = LoadView(cfg[v], f)
  <2> SUFFICES ASSUME NEW v \in DOMAIN cfg PROVE LoadView(cfg[v], g) = LoadView(cfg[v], f)
    OBVIOUS
  <2>1. /\ "static" \in cfg[v].refs => <<cfg[v].dir, StaticStem>> \in DOMAIN f
        /\ "blocked" \in cfg[v].refs => <<cfg[v].dir, BlockedStem>> \in DOMAIN f
        /\ "zones" \in cfg[v].refs => <<cfg[v].dir, ZonesStem>> \in DOMAIN f
    BY <1>1 DEF Readable
  <2> QED  BY <2>1, SameView
<1>3. Load(cfg, g) = Load(cfg, f)
  BY <1>2 DEF Load
<1>4. Readable(cfg, g)
  BY <1>1 DEF Readable, Besides
<1> QED  BY <1>3, <1>4 DEF Loads
-----------------------------------------------------------------------------
(* What is written, and put back *)

\* These are writes to files in directories.
Writes(writes) == \E S : writes \in Seq(S) /\ \A w \in S : w.path = <<w.path[1], w.path[2]>>

\* The paths of two lists of writes are those of either.
LEMMA Joined ==
  ASSUME NEW S, NEW s \in Seq(S), NEW t \in Seq(S)
  PROVE  s \o t \in Seq(S) /\ Paths(s \o t) = Paths(s) \cup Paths(t)
<1>1. /\ s \o t \in Seq(S) /\ Len(s \o t) = Len(s) + Len(t)
      /\ Len(s) \in Nat /\ Len(t) \in Nat
      /\ \A i \in 1..Len(s) : (s \o t)[i] = s[i]
      /\ \A i \in 1..Len(t) : (s \o t)[Len(s) + i] = t[i]
  OBVIOUS
<1> DEFINE st == s \o t
<1>2. DOMAIN s = 1..Len(s) /\ DOMAIN t = 1..Len(t) /\ DOMAIN st = 1..Len(s) + Len(t)
  BY <1>1
<1>3. \A i \in DOMAIN st : i \in DOMAIN s \/ (i - Len(s) \in DOMAIN t /\ i = Len(s) + (i - Len(s)))
  BY <1>1, <1>2
<1> HIDE DEF st
<1>4. \A i \in DOMAIN st : st[i].path \in Paths(s) \cup Paths(t)
  BY <1>1, <1>2, <1>3 DEF Paths, st
<1>5. \A i \in DOMAIN s : s[i].path \in Paths(st)
  BY <1>1, <1>2 DEF Paths, st
<1>6. \A i \in DOMAIN t : t[i].path \in Paths(st)
  <2> SUFFICES ASSUME NEW i \in DOMAIN t PROVE t[i].path \in Paths(st)
    OBVIOUS
  <2>1. Len(s) + i \in DOMAIN st /\ st[Len(s) + i] = t[i]
    BY <1>1, <1>2 DEF st
  <2> QED  BY <2>1 DEF Paths
<1>7. Paths(st) = Paths(s) \cup Paths(t)
  BY <1>4, <1>5, <1>6 DEF Paths
<1> QED  BY <1>1, <1>7 DEF st

\* The files after some writes are the same, but for the paths of these writes.
LEMMA AfterWrites ==
  ASSUME NEW writes, Writes(writes), NEW k \in 0..Len(writes), NEW fs
  PROVE  /\ Paths(writes) = {writes[i].path : i \in 1..Len(writes)}
         /\ DOMAIN After(writes, k, fs) = DOMAIN fs \cup {writes[i].path : i \in 1..k}
         /\ {writes[i].path : i \in 1..k} \subseteq Paths(writes)
         /\ \A p \in DOMAIN fs \ Paths(writes) : After(writes, k, fs)[p] = fs[p]
         /\ InDirectories(fs) => InDirectories(After(writes, k, fs))
<1>1. PICK S : writes \in Seq(S) /\ \A w \in S : w.path = <<w.path[1], w.path[2]>>
  BY DEF Writes
<1>2. DOMAIN writes = 1..Len(writes) /\ Len(writes) \in Nat /\ \A i \in 1..Len(writes) : writes[i] \in S
  BY <1>1
<1>3. \A i \in 1..k : i \in DOMAIN writes
  BY <1>2
<1>4. \A p \in DOMAIN fs \ Paths(writes) : {i \in 1..k : writes[i].path = p} = {}
  BY <1>3 DEF Paths
<1>5. DOMAIN After(writes, k, fs) = DOMAIN fs \cup {writes[i].path : i \in 1..k}
  BY DEF After
<1>6. \A p \in DOMAIN fs \ Paths(writes) : After(writes, k, fs)[p] = fs[p]
  BY <1>4 DEF After
<1>7. \A i \in 1..k : writes[i].path \in Paths(writes) /\ writes[i].path = <<writes[i].path[1], writes[i].path[2]>>
  BY <1>1, <1>2, <1>3 DEF Paths
<1> QED  BY <1>2, <1>5, <1>6, <1>7 DEF Paths, InDirectories

\* So it is once all of them are done.
LEMMA AllWritten ==
  ASSUME NEW writes, Writes(writes), NEW fs
  PROVE  /\ DOMAIN Written(writes, fs) = DOMAIN fs \cup Paths(writes)
         /\ \A p \in DOMAIN fs \ Paths(writes) : Written(writes, fs)[p] = fs[p]
         /\ InDirectories(fs) => InDirectories(Written(writes, fs))
<1>1. Len(writes) \in 0..Len(writes)
  BY DEF Writes
<1> QED  BY <1>1, AfterWrites DEF Written

\* The paths written to are in directories.
LEMMA PathsInDirectories ==
  ASSUME NEW writes, Writes(writes)
  PROVE  \A p \in Paths(writes) : p = <<p[1], p[2]>>
<1>1. PICK S : writes \in Seq(S) /\ \A w \in S : w.path = <<w.path[1], w.path[2]>>
  BY DEF Writes
<1>2. \A i \in DOMAIN writes : writes[i] \in S
  BY <1>1
<1> QED  BY <1>1, <1>2 DEF Paths

\* A single write.
LEMMA OneWrite ==
  ASSUME NEW path, path = <<path[1], path[2]>>, NEW content
  PROVE  LET one == <<Write(path, content)>>
         IN Writes(one) /\ Paths(one) = {path} /\ Len(one) = 1 /\ one[1].path = path
<1> DEFINE one == <<Write(path, content)>>
<1>1. one \in Seq({Write(path, content)}) /\ Len(one) = 1 /\ one[1] = Write(path, content) /\ DOMAIN one = {1}
  OBVIOUS
<1>2. Write(path, content).path = path
  BY DEF Write
<1> HIDE DEF one
<1>3. Writes(one)
  BY <1>1, <1>2 DEF Writes
<1> QED  BY <1>1, <1>2, <1>3 DEF Paths, one

\* The support files of a view are new.
LEMMA SupportWrites ==
  ASSUME NEW dir, NEW fs
  PROVE  LET missing == {<<dir, StaticStem>>, <<dir, BlockedStem>>} \ DOMAIN fs
             S == {Write(<<dir, StaticStem>>, Blank), Write(<<dir, BlockedStem>>, Blank)}
         IN Support(dir, fs) \in Seq(S) /\ Paths(Support(dir, fs)) = missing
<1> DEFINE p == <<dir, StaticStem>>
           q == <<dir, BlockedStem>>
           S == {Write(p, Blank), Write(q, Blank)}
           s == IF p \in DOMAIN fs THEN <<>> ELSE <<Write(p, Blank)>>
           t == IF q \in DOMAIN fs THEN <<>> ELSE <<Write(q, Blank)>>
<1>1. s \in Seq(S) /\ t \in Seq(S)
  OBVIOUS
<1>2. Paths(<<>>) = {} /\ p = <<p[1], p[2]>> /\ q = <<q[1], q[2]>>
  BY DEF Paths
<1>3. Paths(s) = {p} \ DOMAIN fs /\ Paths(t) = {q} \ DOMAIN fs
  BY <1>2, OneWrite
<1>4. Support(dir, fs) = s \o t
  BY DEF Support
<1> HIDE DEF s, t, S
<1>5. Support(dir, fs) \in Seq(S) /\ Paths(Support(dir, fs)) = Paths(s) \cup Paths(t)
  BY <1>1, <1>4, Joined
<1> QED  BY <1>3, <1>5 DEF S

\* If every file that was changed has a backup of its contents, or of a support
\* file written before it, restoring leaves what there was.
LEMMA RestoreUndoes ==
  ASSUME NEW fs, NEW tried, NEW backups,
         DOMAIN fs \subseteq DOMAIN tried,
         \A p \in DOMAIN tried \ DOMAIN backups : p \in DOMAIN fs /\ tried[p] = fs[p],
         \A p \in DOMAIN backups :
           \/ p \in DOMAIN fs /\ backups[p] = <<fs[p]>>
           \/ p \notin DOMAIN fs /\ backups[p] = <<>>
           \/ p \notin DOMAIN fs /\ p = <<p[1], p[2]>> /\ p[2] \in {StaticStem, BlockedStem}
  PROVE  Besides(fs, Restore(backups, tried))
<1> DEFINE back == Restore(backups, tried)
<1>1. DOMAIN back = (DOMAIN tried \cup DOMAIN backups) \ Created(backups)
  BY DEF Restore
<1>2. \A p \in DOMAIN back : back[p] = IF p \in DOMAIN backups THEN backups[p][1] ELSE tried[p]
  BY DEF Restore
<1> HIDE DEF back
<1>3. \A p \in DOMAIN fs : p \in DOMAIN back
  BY <1>1 DEF Created
<1>4. \A p \in DOMAIN fs : back[p] = fs[p]
  BY <1>2, <1>3
<1>5. \A p \in DOMAIN back \ DOMAIN fs : p = <<p[1], p[2]>> /\ p[2] \in {StaticStem, BlockedStem}
  BY <1>1 DEF Created
<1> QED  BY <1>3, <1>4, <1>5 DEF Besides, back

\* An edit that has written these files undoes them by restoring their backups.
LEMMA WritesUndone ==
  ASSUME NEW writes, Writes(writes), NEW fs
  PROVE  Besides(fs, Restore(Backup(Paths(writes), fs), Written(writes, fs)))
<1> DEFINE tried == Written(writes, fs)
           backups == Backup(Paths(writes), fs)
<1>2. /\ DOMAIN tried = DOMAIN fs \cup Paths(writes)
      /\ \A p \in DOMAIN fs \ Paths(writes) : tried[p] = fs[p]
  BY AllWritten
<1>3. /\ DOMAIN backups = Paths(writes)
      /\ \A p \in Paths(writes) : backups[p] = IF p \in DOMAIN fs THEN <<fs[p]>> ELSE <<>>
  BY DEF Backup
<1> HIDE DEF tried, backups
<1>4. Besides(fs, Restore(backups, tried))
  BY <1>2, <1>3, RestoreUndoes
<1> QED  BY <1>4 DEF tried, backups

\* A configuration that loads goes on loading once what was written has been put
\* back, and then runs.
LEMMA PutBackIsServed ==
  ASSUME FilesInv, NEW back, Besides(files, back), NEW before,
         files' = back, views' = Reload(before, config, back), config' = config, ~spoiled' => ~spoiled
  PROVE  DiskIsServed'
<1>1. ~spoiled => Loads(config, back)
  BY SameConfiguration DEF FilesInv, DiskIsServed
<1>2. ~spoiled => views' = Load(config, back)
  BY <1>1 DEF Reload
<1> QED  BY <1>1, <1>2 DEF DiskIsServed

\* A write that fails spoils the disk, or has changed nothing.
LEMMA FailedWriteKeeps ==
  ASSUME FilesInv, NEW writes, Writes(writes), WriteFails(writes)
  PROVE  FilesInv'
<1>1. PICK k \in DOMAIN writes :
        LET before == After(writes, k - 1, files)
        IN /\ files' \in {before, Written(<<Write(writes[k].path, Blank)>>, before)}
           /\ Fault(files' # files)
           /\ UNCHANGED <<config, views>>
  BY DEF WriteFails
<1> DEFINE before == After(writes, k - 1, files)
           one == <<Write(writes[k].path, Blank)>>
<1>2. k - 1 \in 0..Len(writes) /\ writes[k].path = <<writes[k].path[1], writes[k].path[2]>>
  BY DEF Writes
<1>3. InDirectories(before)
  BY <1>2, AfterWrites DEF FilesInv
<1>4. Writes(one) /\ Len(one) = 1
  <2> DEFINE path == writes[k].path
  <2>1. path = <<path[1], path[2]>> /\ one = <<Write(path, Blank)>>
    BY <1>2
  <2> HIDE DEF path, one
  <2> QED  BY <2>1, OneWrite
<1> HIDE DEF before, one
<1>5. InDirectories(Written(one, before))
  BY <1>3, <1>4, AllWritten
<1>6. InDirectories(files')
  BY <1>1, <1>3, <1>5 DEF before, one
<1>7. DiskIsServed'
  BY <1>1 DEF Fault, FilesInv, DiskIsServed
<1> QED  BY <1>6, <1>7 DEF FilesInv, InDirectories

\* What a roll-back attempts to put back is among what the backups hold.
LEMMA AttemptsWithin ==
  ASSUME NEW backups, NEW attempt \in Attempts(backups)
  PROVE  DOMAIN attempt \subseteq DOMAIN backups
BY DEF Attempts

\* A roll-back leaves what there was, or the disk is spoiled.
LEMMA RollBackKeeps ==
  ASSUME FilesInv, NEW failed, NEW fs, NEW backups, RollBack(failed, fs, backups),
         InDirectories(fs), InDirectories(backups), Besides(files, Restore(backups, fs))
  PROVE  FilesInv'
<1>1. PICK attempt \in Attempts(backups) :
        /\ config' = failed.config /\ files' = Restore(attempt, fs)
        /\ views' = Reload(failed.views, config', files')
        /\ Fault(config' # config \/ attempt # backups)
  BY DEF RollBack
<1>2. InDirectories(files')
  <2>1. DOMAIN attempt \subseteq DOMAIN backups
    BY AttemptsWithin
  <2>2. DOMAIN files' \subseteq DOMAIN fs \cup DOMAIN attempt
    BY <1>1 DEF Restore
  <2> QED  BY <2>1, <2>2 DEF InDirectories
<1>3. spoiled' = (spoiled \/ config' # config \/ attempt # backups)
  BY <1>1 DEF Fault
<1>4. DiskIsServed'
  <2> SUFFICES ASSUME ~spoiled' PROVE DiskIsServed'
    BY DEF DiskIsServed
  <2> DEFINE back == Restore(backups, fs)
  <2>1. config' = config /\ files' = back /\ ~spoiled
    BY <1>1, <1>3
  <2>2. views' = Reload(failed.views, config, back)
    BY <1>1, <2>1
  <2> HIDE DEF back
  <2> QED  BY <2>1, <2>2, PutBackIsServed DEF back
<1> QED  BY <1>2, <1>4 DEF FilesInv, InDirectories

\* An edit that loads is served.
LEMMA AcceptedKeeps ==
  ASSUME NEW cfg, NEW fs, Loads(cfg, fs), Accepted(cfg, fs), InDirectories(fs)
  PROVE  FilesInv'
BY DEF Accepted, DiskIsServed, FilesInv, InDirectories

\* Files written for a new text end up accepted or rolled back.
LEMMA ApplyKeeps ==
  ASSUME FilesInv, NEW valid, NEW cfg, NEW fs, NEW backups, Apply(valid, cfg, fs, backups),
         InDirectories(fs), InDirectories(backups), Besides(files, Restore(backups, fs))
  PROVE  FilesInv'
<1>1. CASE Loads(cfg, fs) /\ Accepted(cfg, fs)
  BY <1>1, AcceptedKeeps
<1>2. CASE \E failed : RollBack(failed, fs, backups)
  BY <1>2, RollBackKeeps
<1> QED  BY <1>1, <1>2 DEF Apply

\* An edit of the configuration alone has nothing to put back but its text.
LEMMA ConfigEditKeeps ==
  ASSUME FilesInv, NEW cfg, ApplyConfig(cfg)
  PROVE  FilesInv'
<1>1. CASE Loads(cfg, files) /\ Accepted(cfg, files)
  BY <1>1, AcceptedKeeps DEF FilesInv
<1>2. CASE \E failed \in Failures(Valid(cfg), cfg, files) :
             /\ config' = failed.config /\ views' = failed.views
             /\ Fault(config' # config)
             /\ UNCHANGED files
  <2>1. PICK failed \in Failures(Valid(cfg), cfg, files) :
          /\ config' = failed.config /\ views' = failed.views
          /\ Fault(config' # config)
          /\ UNCHANGED files
    BY <1>2
  <2>2. failed.views \in {views, Reload(views, failed.config, files)}
    BY DEF Failures
  <2>3. DiskIsServed'
    <3> SUFFICES ASSUME ~spoiled' PROVE Loads(config', files') /\ views' = Load(config', files')
      BY DEF DiskIsServed
    <3>1. config' = config /\ ~spoiled
      BY <2>1 DEF Fault
    <3>2. Loads(config, files) /\ views = Load(config, files)
      BY <3>1 DEF FilesInv, DiskIsServed
    <3> QED  BY <2>1, <2>2, <3>1, <3>2 DEF Reload
  <2> QED  BY <2>1, <2>3 DEF FilesInv, InDirectories
<1> QED  BY <1>1, <1>2 DEF ApplyConfig

\* Neither has one file that is written or taken away, but that file.
LEMMA ExternalEditKeeps ==
  ASSUME FilesInv, NEW path, NEW fs, ApplyExternal(path, fs), path = <<path[1], path[2]>>,
         DOMAIN fs \subseteq DOMAIN files, DOMAIN files \subseteq DOMAIN fs \cup {path},
         \A p \in DOMAIN fs \ {path} : fs[p] = files[p]
  PROVE  FilesInv'
<1> DEFINE backups == Backup({path}, files)
           back == Restore(backups, fs)
<1>1. /\ DOMAIN backups = {path}
      /\ path \in DOMAIN files => backups[path] = <<files[path]>>
      /\ Created(backups) = {path} \ DOMAIN files
  BY DEF Backup, Created
<1> HIDE DEF backups
<1>2. DOMAIN back = DOMAIN files /\ \A p \in DOMAIN files : back[p] = files[p]
  BY <1>1 DEF Restore
<1> HIDE DEF back
<1>3. Besides(files, back) /\ InDirectories(fs) /\ InDirectories(backups)
  BY <1>1, <1>2 DEF Besides, FilesInv, InDirectories
<1>4. CASE WriteFails(<<Write(path, Blank)>>)
  BY <1>4, OneWrite, FailedWriteKeeps
<1>5. CASE Loads(config, fs) /\ Accepted(config, fs)
  BY <1>3, <1>5, AcceptedKeeps
<1>6. CASE RollBack([config |-> config, views |-> views], fs, backups)
  BY <1>3, <1>6, RollBackKeeps DEF back
<1> QED  BY <1>4, <1>5, <1>6 DEF ApplyExternal, backups
-----------------------------------------------------------------------------
(* One lemma per handler *)

LEMMA DataUpsertKeeps ==
  ASSUME FilesInv, NEW view, NEW req, ViewDataUpsert(view, req)
  PROVE  FilesInv'
<1> DEFINE dir == DirOf(view)
           zone == [name |-> req.zone, soa |-> KeptSoa(view, req.zone), records |-> req.records]
           v == Support(dir, files)
           a == Write(<<dir, StaticStem>>, StaticFile(req.static))
           b == Write(<<dir, BlockedStem>>, BlockedFile(req.blocked))
           c == Write(PathOf(dir, req.zone), ZoneFile(zone))
           writes == v \o Given(req.static, a) \o Given(req.blocked, b) \o Given(req.records, c)
           S == {Write(<<dir, StaticStem>>, Blank), Write(<<dir, BlockedStem>>, Blank), a, b, c}
<1>1. \/ WriteFails(writes)
      \/ \E valid, cfg : Apply(valid, cfg, Written(writes, files), Backup(Paths(writes), files))
  BY Zenon DEF ViewDataUpsert
<1>2. \A w \in S : w.path = <<w.path[1], w.path[2]>>
  BY DEF Write, PathOf
<1>3. v \in Seq(S)
  <2>1. v \in Seq({Write(<<dir, StaticStem>>, Blank), Write(<<dir, BlockedStem>>, Blank)})
    BY SupportWrites
  <2> QED  BY <2>1
<1>4. Given(req.static, a) \in Seq(S) /\ Given(req.blocked, b) \in Seq(S) /\ Given(req.records, c) \in Seq(S)
  BY DEF Given
<1> HIDE DEF v, a, b, c, S
<1>5. writes \in Seq(S)
  BY <1>3, <1>4
<1> HIDE DEF writes
<1>6. Writes(writes)
  BY <1>2, <1>5 DEF Writes
<1>7. InDirectories(Written(writes, files)) /\ InDirectories(Backup(Paths(writes), files))
  <2>2. InDirectories(Written(writes, files))
    BY <1>6, AllWritten DEF FilesInv
  <2>3. \A p \in Paths(writes) : p = <<p[1], p[2]>>
    BY <1>6, PathsInDirectories
  <2> QED  BY <2>2, <2>3 DEF InDirectories, Backup
<1> QED  BY <1>1, <1>6, <1>7, WritesUndone, FailedWriteKeeps, ApplyKeeps

LEMMA ZoneUpsertKeeps ==
  ASSUME FilesInv, NEW view, NEW zone, ViewZoneUpsert(view, zone)
  PROVE  FilesInv'
<1> DEFINE dir == DirOf(view)
           support == Support(dir, files)
           supported == Written(support, files)
           write == Write(PathOf(dir, zone.name), ZoneFile(zone))
           path == write.path
           fs == Written(<<write>>, supported)
           kept == [p \in Paths(support) \cup {path} |->
                      Backup({p}, IF p = path THEN supported ELSE files)[p]]
           S == {Write(<<dir, StaticStem>>, Blank), Write(<<dir, BlockedStem>>, Blank), write}
           new == {<<dir, StaticStem>>, <<dir, BlockedStem>>} \ DOMAIN files
<1>1. WriteFails(Append(support, write)) \/ \E valid, cfg : Apply(valid, cfg, fs, kept)
  BY Zenon DEF ViewZoneUpsert
<1>2. path = <<path[1], path[2]>> /\ write = Write(path, ZoneFile(zone)) /\ \A w \in S : w.path = <<w.path[1], w.path[2]>>
  BY DEF Write, PathOf
<1>3. support \in Seq(S) /\ Paths(support) = new
  <2>1. /\ support \in Seq({Write(<<dir, StaticStem>>, Blank), Write(<<dir, BlockedStem>>, Blank)})
        /\ Paths(support) = new
    BY SupportWrites
  <2> QED  BY <2>1
<1>4. Append(support, write) \in Seq(S)
  BY <1>3
<1> HIDE DEF S, support
<1>5. Writes(support) /\ Writes(Append(support, write))
  BY <1>2, <1>3, <1>4 DEF Writes
<1>6. /\ DOMAIN supported = DOMAIN files \cup new
      /\ \A p \in DOMAIN files : supported[p] = files[p]
      /\ InDirectories(supported)
  <2>1. /\ DOMAIN supported = DOMAIN files \cup Paths(support)
        /\ \A p \in DOMAIN files \ Paths(support) : supported[p] = files[p]
        /\ InDirectories(supported)
    BY <1>5, AllWritten DEF FilesInv
  <2> QED  BY <1>3, <2>1
<1> HIDE DEF supported, write
<1>7. /\ DOMAIN fs = DOMAIN supported \cup {path}
      /\ \A p \in DOMAIN supported \ {path} : fs[p] = supported[p]
      /\ InDirectories(fs)
  <2>1. LET one == <<Write(path, ZoneFile(zone))>> IN Writes(one) /\ Paths(one) = {path} /\ Len(one) = 1
    BY <1>2, OneWrite
  <2>2. Writes(<<write>>) /\ Paths(<<write>>) = {path} /\ Len(<<write>>) = 1
    BY <1>2, <2>1
  <2>3. /\ DOMAIN Written(<<write>>, supported) = DOMAIN supported \cup Paths(<<write>>)
        /\ \A p \in DOMAIN supported \ Paths(<<write>>) : Written(<<write>>, supported)[p] = supported[p]
        /\ InDirectories(Written(<<write>>, supported))
    BY <1>6, <2>2, AllWritten
  <2> QED  BY <2>2, <2>3
<1>8. /\ DOMAIN kept = new \cup {path}
      /\ \A p \in DOMAIN kept : kept[p] = IF p = path /\ path \in DOMAIN supported THEN <<supported[path]>> ELSE <<>>
  <2>1. DOMAIN kept = new \cup {path}
    BY <1>3
  <2>2. kept[path] = IF path \in DOMAIN supported THEN <<supported[path]>> ELSE <<>>
    BY DEF Backup
  <2>3. \A p \in new \ {path} : kept[p] = <<>>
    BY <1>3 DEF Backup
  <2> QED  BY <2>1, <2>2, <2>3
<1> HIDE DEF fs, kept
<1>9. InDirectories(kept)
  <2>1. \A p \in new : p = <<p[1], p[2]>>
    OBVIOUS
  <2> HIDE DEF path, new
  <2> QED  BY <1>2, <1>8, <2>1 DEF InDirectories
<1>10. \A p \in DOMAIN fs \ DOMAIN kept : p \in DOMAIN files /\ fs[p] = files[p]
  BY <1>6, <1>7, <1>8
<1>11. \A p \in DOMAIN kept :
        \/ p \in DOMAIN files /\ kept[p] = <<files[p]>>
        \/ p \notin DOMAIN files /\ kept[p] = <<>>
        \/ p \notin DOMAIN files /\ p = <<p[1], p[2]>> /\ p[2] \in {StaticStem, BlockedStem}
  BY <1>6, <1>8
<1>12. Besides(files, Restore(kept, fs))
  BY <1>6, <1>7, <1>10, <1>11, RestoreUndoes
<1> QED  BY <1>1, <1>5, <1>7, <1>9, <1>12, FailedWriteKeeps, ApplyKeeps

\* The settings' files are written whether there are some or not.
LEMMA SectionsKeep ==
  ASSUME FilesInv, NEW req, SectionsUpsert(req)
  PROVE  FilesInv'
<1> DEFINE dir == DirOf("default")
           a == Write(<<dir, StaticStem>>, StaticFile(req.static))
           b == Write(<<dir, BlockedStem>>, BlockedFile(req.blocked))
           writes == <<a, b>>
<1>1. \/ WriteFails(writes)
      \/ \E valid : Apply(valid, config, Written(writes, files), Backup(Paths(writes), files))
  BY Zenon DEF SectionsUpsert
<1>2. \A w \in {a, b} : w.path = <<w.path[1], w.path[2]>>
  BY DEF Write
<1> HIDE DEF a, b
<1>3. writes \in Seq({a, b})
  OBVIOUS
<1> HIDE DEF writes
<1>4. Writes(writes)
  BY <1>2, <1>3 DEF Writes
<1>5. InDirectories(Written(writes, files))
  BY <1>4, AllWritten DEF FilesInv
<1>6. InDirectories(Backup(Paths(writes), files))
  BY <1>4, PathsInDirectories DEF InDirectories, Backup
<1> QED  BY <1>1, <1>4, <1>5, <1>6, WritesUndone, FailedWriteKeeps, ApplyKeeps

\* A reload of what loads changes nothing; one that is refused neither.
LEMMA ReloadKeeps ==
  ASSUME FilesInv, ReloadAll
  PROVE  FilesInv'
BY DEF ReloadAll, FilesInv, DiskIsServed, Reload, InDirectories

LEMMA ViewEditsKeep ==
  ASSUME FilesInv, (\E r \in ViewRequests : ViewUpsert(r)) \/ (\E view \in ViewNames : ViewDelete(view))
  PROVE  FilesInv'
<1>1. \E cfg : ApplyConfig(cfg)
  <2>1. CASE \E r \in ViewRequests : ViewUpsert(r)
    BY <2>1, Zenon DEF ViewUpsert
  <2>2. CASE \E view \in ViewNames : ViewDelete(view)
    BY <2>2, Zenon DEF ViewDelete
  <2> QED  BY <2>1, <2>2
<1> QED  BY <1>1, ConfigEditKeeps

LEMMA ZoneDeleteKeeps ==
  ASSUME FilesInv, NEW view, NEW zone, ViewZoneDelete(view, zone)
  PROVE  FilesInv'
<1> DEFINE v == Min(Named(config, view))
           path == PathOf(config[v].dir, zone)
           list == <<config[v].dir, ZonesStem>>
<1>0. path = <<path[1], path[2]>> /\ list = <<list[1], list[2]>>
  BY DEF PathOf
<1>1. CASE Inline(v, Without(config[v].zones, zone))
  BY <1>1, ConfigEditKeeps DEF Inline
<1>2. CASE ApplyExternal(list, [files EXCEPT ![list].zones = Without(@, zone)])
  <2> DEFINE fs == [files EXCEPT ![list].zones = Without(@, zone)]
  <2>1. ApplyExternal(list, fs)
    BY <1>2
  <2>2. DOMAIN fs = DOMAIN files /\ \A p \in DOMAIN fs \ {list} : fs[p] = files[p]
    OBVIOUS
  <2> HIDE DEF fs
  <2> QED  BY <1>0, <2>1, <2>2, ExternalEditKeeps
<1>3. CASE ApplyExternal(path, [p \in DOMAIN files \ {path} |-> files[p]])
  <2> DEFINE fs == [p \in DOMAIN files \ {path} |-> files[p]]
  <2>2. DOMAIN fs = DOMAIN files \ {path} /\ \A p \in DOMAIN fs : fs[p] = files[p]
    OBVIOUS
  <2>3. ApplyExternal(path, fs)
    BY <1>3
  <2> HIDE DEF fs
  <2> QED  BY <1>0, <2>2, <2>3, ExternalEditKeeps
<1> QED  BY <1>1, <1>2, <1>3 DEF ViewZoneDelete

\* The SOA written into a directory is not put back: either it loads, and runs,
\* or the disk is spoiled.
LEMMA SoaPatchKeeps ==
  ASSUME FilesInv, NEW view, NEW zone, NEW soa, ViewSoaPatch(view, zone, soa)
  PROVE  FilesInv'
<1> DEFINE v == Min(Named(config, view))
           path == PathOf(config[v].dir, zone)
           list == <<config[v].dir, ZonesStem>>
<1>0. path = <<path[1], path[2]>> /\ list = <<list[1], list[2]>>
  BY DEF PathOf
<1>1. CASE Inline(v, WithSoa(config[v].zones, zone, soa))
  BY <1>1, ConfigEditKeeps DEF Inline
<1>2. CASE ApplyExternal(list, [files EXCEPT ![list].zones = WithSoa(@, zone, soa)])
  <2> DEFINE fs == [files EXCEPT ![list].zones = WithSoa(@, zone, soa)]
  <2>1. ApplyExternal(list, fs)
    BY <1>2
  <2>2. DOMAIN fs = DOMAIN files /\ \A p \in DOMAIN fs \ {list} : fs[p] = files[p]
    OBVIOUS
  <2> HIDE DEF fs
  <2> QED  BY <1>0, <2>1, <2>2, ExternalEditKeeps
<1>3. CASE WriteFails(<<Write(path, Blank)>>)
  BY <1>3, <1>0, OneWrite, FailedWriteKeeps
<1>4. CASE /\ files' = [files EXCEPT ![path] = ZoneFile([@.zone EXCEPT !.soa = soa])]
           /\ views' = Reload(views, config, files')
           /\ spoiled' = ~Loads(config, files')
           /\ UNCHANGED <<config, faults>>
  <2>1. InDirectories(files')
    BY <1>4 DEF FilesInv, InDirectories
  <2>2. DiskIsServed'
    BY <1>4 DEF DiskIsServed, Reload
  <2> QED  BY <2>1, <2>2 DEF FilesInv, InDirectories
<1> QED  BY <1>1, <1>2, <1>3, <1>4 DEF ViewSoaPatch

LEMMA FilesStart == FilesInit => FilesInv
BY FilesAssumption DEF FilesInit, FilesInv, InDirectories, DiskIsServed

LEMMA FilesContinue == FilesInv /\ [FilesNext]_<<diskVars, views>> => FilesInv'
<1> SUFFICES ASSUME FilesInv, [FilesNext]_<<diskVars, views>> PROVE FilesInv'
  OBVIOUS
<1>1. CASE \E r \in DataRequests : ViewDataUpsert(r[1], r[2])
  BY <1>1, DataUpsertKeeps
<1>2. CASE \E r \in ZoneRequests : ViewZoneUpsert(r[1], r[2])
  BY <1>2, ZoneUpsertKeeps
<1>3. CASE (\E r \in ViewRequests : ViewUpsert(r)) \/ (\E view \in ViewNames : ViewDelete(view))
  BY <1>3, ViewEditsKeep
<1>4. CASE \E r \in ZoneNames : ViewZoneDelete(r[1], r[2])
  BY <1>4, ZoneDeleteKeeps
<1>5. CASE \E r \in ZoneNames, soa \in {TRUE, Invalid} : ViewSoaPatch(r[1], r[2], soa)
  BY <1>5, SoaPatchKeeps
<1>6. CASE \E r \in SectionRequests : SectionsUpsert(r)
  BY <1>6, SectionsKeep
<1>7. CASE ReloadAll
  BY <1>7, ReloadKeeps
<1>8. CASE UNCHANGED <<diskVars, views>>
  BY <1>8 DEF diskVars, FilesInv, InDirectories, DiskIsServed, Loads, Load, Readable
<1> QED  BY <1>1, <1>2, <1>3, <1>4, <1>5, <1>6, <1>7, <1>8 DEF FilesNext

\* Whatever is edited, accepted or refused, and however many of the handlers'
\* writes fail, the disk holds what is running, so a restart changes nothing,
\* unless what a failed write or an SOA refused in a directory has left there is
\* still waiting for an edit that is accepted or a reload that succeeds.
THEOREM RestartChangesNothing == FilesSpec => []DiskIsServed
<1>1. FilesInit => FilesInv
  BY FilesStart
<1>2. FilesInv /\ [FilesNext]_<<diskVars, views>> => FilesInv'
  BY FilesContinue
<1>3. FilesInv => DiskIsServed
  BY DEF FilesInv
<1> QED  BY <1>1, <1>2, <1>3, PTL DEF FilesSpec

\* With queries between the edits, too, the disk holds what is running, with the
\* same two exceptions: the answers a client gets are those it would get after a
\* restart.
THEOREM ServedFromDisk == Spec => []DiskIsServed
<1>1. Init => FilesInv
  BY FilesStart DEF Init
<1>2. FilesInv /\ [Query \/ Edit]_vars => FilesInv'
  <2>1. Query \/ UNCHANGED vars => UNCHANGED <<diskVars, views>>
    BY DEF Query, vars
  <2>2. Edit => FilesNext
    BY DEF Edit
  <2> QED  BY <2>1, <2>2, FilesContinue
<1>3. FilesInv => DiskIsServed
  BY DEF FilesInv
<1> QED  BY <1>1, <1>2, <1>3, PTL DEF Spec
-----------------------------------------------------------------------------
(* A view_only view and the upstreams *)

\* The layers that ask nobody outside the view.
OwnLayers == {"view zones", "view static", "view records", "view only", "return", "lost"}

\* The client whose query is under way is of a view_only view.
Confined == query.view # None /\ views[query.view].mode = "view_only"

\* Until the query of such a client is answered, it is in the layers of its own
\* view, what is being resolved is resolved in that view, and so is every name
\* whose expansion waits for it.
Inside ==
  /\ at # "done" => at \in OwnLayers /\ cur.view = query.view
  /\ \A i \in 1..Len(stack) : stack[i].view = query.view

LocalInv ==
  /\ \E S : stack \in Seq(S)
  /\ at \in {"idle", "done"} => stack = <<>>
  /\ at = "idle" => ~asked
  /\ at # "idle" /\ Confined => ~asked /\ Inside

\* A layer hands over to the next: from the last of the view's own only if the
\* view lets the global data be asked.
LEMMA GotoKeeps ==
  ASSUME LocalInv, UNCHANGED views, at \notin {"idle", "done"}, NEW next, Goto(next),
         next \notin {"idle", "done"}, Confined => next \in OwnLayers
  PROVE  LocalInv'
BY DEF LocalInv, Goto, Confined, Inside, OwnLayers

LEMMA ReturnKeeps ==
  ASSUME LocalInv, UNCHANGED views, at \notin {"idle", "done"}, NEW p, Return(p)
  PROVE  LocalInv'
BY DEF LocalInv, Return, Confined, Inside, OwnLayers

LEMMA AppendOne ==
  ASSUME NEW S, NEW s \in Seq(S), NEW e
  PROVE  /\ e \in S => Append(s, e) \in Seq(S)
         /\ Len(Append(s, e)) = Len(s) + 1
         /\ \A i \in 1..Len(s) + 1 : Append(s, e)[i] = IF i <= Len(s) THEN s[i] ELSE e
<1> s \in Seq(S \cup {e}) /\ e \in S \cup {e}
  OBVIOUS
<1> QED  OBVIOUS

\* A target is resolved in the view of the alias.
LEMMA CallKeeps ==
  ASSUME LocalInv, UNCHANGED views, at \notin {"idle", "done"},
         NEW target, NEW view, NEW links, NEW otherwise, Call(target, view, links, otherwise),
         Confined => view = cur.view
  PROVE  LocalInv'
<1> DEFINE frame == [name |-> cur.name, view |-> cur.view, links |-> links, otherwise |-> otherwise]
<1>1. /\ at' \in {"view zones", "lost"} /\ stack' = Append(stack, frame)
      /\ cur'.view = view /\ UNCHANGED <<query, asked, views>>
  BY DEF Call
<1>2. frame.view = cur.view
  OBVIOUS
<1> HIDE DEF frame
<1>3. PICK S : stack \in Seq(S)
  BY DEF LocalInv
<1>4. /\ stack' \in Seq(S \cup {frame})
      /\ Len(stack') = Len(stack) + 1
      /\ \A i \in 1..Len(stack') : stack'[i] = IF i <= Len(stack) THEN stack[i] ELSE frame
  <2>1. stack \in Seq(S \cup {frame}) /\ frame \in S \cup {frame}
    BY <1>3
  <2>2. stack' \in Seq(S \cup {frame})
    BY <1>1, <2>1, AppendOne
  <2>3. Len(stack') = Len(stack) + 1
    BY <1>1, <1>3, AppendOne
  <2>4. \A i \in 1..Len(stack) + 1 : stack'[i] = IF i <= Len(stack) THEN stack[i] ELSE frame
    BY <1>1, <1>3, AppendOne
  <2> QED  BY <2>2, <2>3, <2>4
<1>5. ~(at' \in {"idle", "done"})
  BY <1>1
<1>6. Confined' => ~asked' /\ Inside'
  <2> SUFFICES ASSUME Confined' PROVE ~asked' /\ Inside'
    OBVIOUS
  <2>1. Confined /\ ~asked /\ cur.view = query.view /\ \A i \in 1..Len(stack) : stack[i].view = query.view
    BY <1>1 DEF LocalInv, Confined, Inside
  <2>2. \A i \in 1..Len(stack') : stack'[i].view = query'.view
    <3> SUFFICES ASSUME NEW i \in 1..Len(stack') PROVE stack'[i].view = query.view
      BY <1>1
    <3>1. Len(stack) \in Nat
      BY <1>3
    <3> QED  BY <1>2, <1>4, <2>1, <3>1
  <2>3. at' \in OwnLayers /\ cur'.view = query'.view
    BY <1>1, <2>1 DEF OwnLayers
  <2> QED  BY <1>1, <2>1, <2>2, <2>3 DEF Inside
<1> QED  BY <1>4, <1>5, <1>6 DEF LocalInv

\* Each layer of the view and of the global data is left in one of these ways.
LEMMA ZonesKeep ==
  ASSUME LocalInv, UNCHANGED views, at \notin {"idle", "done"},
         NEW zones, NEW view, NEW expand, NEW next, TryZones(zones, view, expand, next),
         next \notin {"idle", "done"}, Confined => next \in OwnLayers /\ view = cur.view
  PROVE  LocalInv'
<1>1. \/ Goto(next)
      \/ \E p : Return(p)
      \/ \E target, links, otherwise : Call(target, view, links, otherwise)
  BY Zenon DEF TryZones
<1> QED  BY <1>1, GotoKeeps, ReturnKeeps, CallKeeps

LEMMA RecordsKeep ==
  ASSUME LocalInv, UNCHANGED views, at \notin {"idle", "done"},
         NEW index, NEW primary, NEW expand, NEW next, TryRecords(index, primary, expand, next),
         next \notin {"idle", "done"}, Confined => next \in OwnLayers
  PROVE  LocalInv'
<1>1. \/ Goto(next)
      \/ \E p : Return(p)
      \/ \E target, links, otherwise : Call(target, cur.view, links, otherwise)
  BY Zenon DEF TryRecords
<1> QED  BY <1>1, GotoKeeps, ReturnKeeps, CallKeeps

LEMMA ViewLayersKeep ==
  ASSUME LocalInv, UNCHANGED views, ViewZones \/ ViewStatic \/ ViewRecords \/ ViewOnly
  PROVE  LocalInv'
<1>1. CASE ViewZones
  <2>1. CASE cur.view = None
    BY <1>1, <2>1, GotoKeeps DEF ViewZones, LocalInv, Confined, Inside
  <2>2. CASE cur.view # None
    <3>1. at = "view zones" /\ TryZones(View.zones, cur.view, Own(View.expandRecords), "view static")
      BY <1>1, <2>2 DEF ViewZones
    <3>2. at \notin {"idle", "done"} /\ "view static" \notin {"idle", "done"} /\ "view static" \in OwnLayers
      BY <3>1 DEF OwnLayers
    <3> QED  BY <3>1, <3>2, ZonesKeep, Zenon
  <2> QED  BY <2>1, <2>2
<1>2. CASE ViewStatic
  <2>1. at = "view static" /\ TryRecords(Effective(View), Effective(View), Own(View.expandStatic), "view records")
    BY <1>2 DEF ViewStatic
  <2>2. at \notin {"idle", "done"} /\ "view records" \notin {"idle", "done"} /\ "view records" \in OwnLayers
    BY <2>1 DEF OwnLayers
  <2> QED  BY <2>1, <2>2, RecordsKeep, Zenon
<1>3. CASE ViewRecords
  <2>1. at = "view records" /\ TryRecords(<<>>, <<>>, Own(View.expandRecords), "view only")
    BY <1>3 DEF ViewRecords
  <2>2. at \notin {"idle", "done"} /\ "view only" \notin {"idle", "done"} /\ "view only" \in OwnLayers
    BY <2>1 DEF OwnLayers
  <2> QED  BY <2>1, <2>2, RecordsKeep, Zenon
<1>4. CASE ViewOnly
  <2>1. CASE View.mode = "view_only"
    BY <1>4, <2>1, ReturnKeeps DEF ViewOnly
  <2>2. CASE View.mode # "view_only"
    <3>1. ~Confined
      BY <1>4, <2>2 DEF ViewOnly, View, LocalInv, Confined, Inside
    <3> QED  BY <1>4, <2>2, <3>1, GotoKeeps DEF ViewOnly
  <2> QED  BY <2>1, <2>2
<1> QED  BY <1>1, <1>2, <1>3, <1>4

\* Nobody confined gets to what lies beyond.
LEMMA GlobalLayersKeep ==
  ASSUME LocalInv, UNCHANGED views, GlobalZones \/ GlobalStatic \/ AuthoritativeSource \/ CacheOrUpstream
  PROVE  LocalInv'
<1>1. at \in {"zones", "static", "source", "cache"}
  BY DEF GlobalZones, GlobalStatic, AuthoritativeSource, CacheOrUpstream
<1>2. ~Confined
  BY <1>1 DEF LocalInv, Inside, OwnLayers
<1>3. CASE GlobalZones
  BY <1>1, <1>2, <1>3, ZonesKeep DEF GlobalZones
<1>4. CASE GlobalStatic
  BY <1>1, <1>2, <1>4, RecordsKeep DEF GlobalStatic
<1>5. CASE AuthoritativeSource
  <2>1. (\E p : Return(p)) \/ Goto("cache")
    BY <1>5, Zenon DEF AuthoritativeSource
  <2> QED  BY <1>1, <1>2, <2>1, GotoKeeps, ReturnKeeps
<1>6. CASE CacheOrUpstream
  <2>1. CASE \E p : Return(p)
    BY <1>1, <2>1, ReturnKeeps
  <2>2. CASE at' = "return" /\ UNCHANGED <<query, cur, stack>>
    BY <1>1, <1>2, <2>2 DEF LocalInv, Confined
  <2> QED  BY <1>6, <2>1, <2>2, Zenon DEF CacheOrUpstream
<1> QED  BY <1>3, <1>4, <1>5, <1>6

LEMMA ResumeKeeps ==
  ASSUME LocalInv, UNCHANGED views, Resume
  PROVE  LocalInv'
<1>1. PICK S : stack \in Seq(S)
  BY DEF LocalInv
<1>2. /\ at = "return" /\ stack # <<>> /\ at' = at /\ UNCHANGED <<query, asked>>
      /\ cur'.view = stack[Len(stack)].view
      /\ stack' = SubSeq(stack, 1, Len(stack) - 1)
  BY DEF Resume, Last, Front
<1>3. /\ stack' \in Seq(S)
      /\ Len(stack) \in 1..Len(stack)
      /\ \A i \in 1..Len(stack') : i \in 1..Len(stack) /\ stack'[i] = stack[i]
  BY <1>1, <1>2
<1> QED  BY <1>2, <1>3 DEF LocalInv, Confined, Inside, OwnLayers

LEMMA AskKeeps ==
  ASSUME LocalInv, UNCHANGED views, Ready, NEW via, NEW c, NEW q, Ask(via, c, q)
  PROVE  LocalInv'
<1>1. PICK d \in Evaluate(c, q[1], q[2]) :
        /\ query' = [via |-> via, client |-> c, name |-> q[1], type |-> q[2], view |-> d.view]
        /\ \/ at' = "view zones" /\ cur' = [name |-> q[1], view |-> d.view]
           \/ at' = "done"
  BY Zenon DEF Ask
<1>2. at = "idle" /\ stack = <<>> /\ ~asked /\ UNCHANGED <<asked, stack>>
  BY DEF Ready, LocalInv
<1>3. Inside'
  <2>1. at' # "done" => at' \in OwnLayers /\ cur'.view = query'.view
    <3>1. query'.view = d.view
      BY <1>1
    <3>2. at' # "done" => at' = "view zones" /\ cur' = [name |-> q[1], view |-> d.view]
      BY <1>1, Zenon
    <3>3. [name |-> q[1], view |-> d.view].view = d.view /\ "view zones" \in OwnLayers
      BY DEF OwnLayers
    <3> QED  BY <3>1, <3>2, <3>3, Zenon
  <2>2. Len(stack') = 0
    BY <1>2
  <2> QED  BY <2>1, <2>2 DEF Inside
<1>4. (\E S : stack' \in Seq(S)) /\ at' # "idle" /\ stack' = <<>> /\ ~asked'
  BY <1>1, <1>2 DEF LocalInv
<1> QED  BY <1>3, <1>4 DEF LocalInv

LEMMA RejectKeeps ==
  ASSUME LocalInv, UNCHANGED views, Ready, NEW via, NEW ways, Reject(via, ways)
  PROVE  LocalInv'
BY DEF LocalInv, Ready, Reject, Confined

LEMMA QueryKeeps ==
  ASSUME LocalInv, UNCHANGED views, LocalNext
  PROVE  LocalInv'
<1>1. CASE Forget
  BY <1>1 DEF Forget, LocalInv
<1>2. CASE ReceiveUdp \/ ReceiveStream \/ ReceiveHttp
  <2>1. Ready /\ \E via : (\E ways : Reject(via, ways)) \/ (\E c, q : Ask(via, c, q))
    BY <1>2, Zenon DEF ReceiveUdp, ReceiveStream, ReceiveHttp
  <2> QED  BY <2>1, AskKeeps, RejectKeeps
<1>3. CASE ViewZones \/ ViewStatic \/ ViewRecords \/ ViewOnly
  BY <1>3, ViewLayersKeep
<1>4. CASE GlobalZones \/ GlobalStatic \/ AuthoritativeSource \/ CacheOrUpstream
  BY <1>4, GlobalLayersKeep
<1>5. CASE Resume
  BY <1>5, ResumeKeeps
<1>6. CASE DeliverUdp \/ DeliverStream \/ DeliverHttp
  <2>1. \E via : Answered(via)
    BY <1>6, Zenon DEF DeliverUdp, DeliverStream, DeliverHttp
  <2> QED  BY <2>1 DEF Answered, LocalInv, Confined, Inside
<1> QED  BY <1>1, <1>2, <1>3, <1>4, <1>5, <1>6, Zenon DEF LocalNext

\* Whatever aliases the views and the world hold and however the views are edited,
\* a query of a view_only view reaches no global zone, no authoritative source,
\* neither cache nor upstream: the targets of its aliases are resolved in the view,
\* which ends before these layers.  The global static records are no such layer:
\* they extend the chain of a view's own CNAME.
THEOREM ConfinedToTheView == Spec => []ViewOnlyStaysLocal
<1>1. Init => LocalInv
  BY DEF Init, LocalInit, LocalInv
<1>2. LocalInv /\ [Query \/ Edit]_vars => LocalInv'
  <2> SUFFICES ASSUME LocalInv, [Query \/ Edit]_vars PROVE LocalInv'
    OBVIOUS
  <2>1. CASE Query
    BY <2>1, QueryKeeps DEF Query
  <2>2. CASE Edit
    BY <2>2 DEF Edit, localVars, LocalInv
  <2>3. CASE UNCHANGED vars
    BY <2>3 DEF vars, localVars, LocalInv, Confined, Inside
  <2> QED  BY <2>1, <2>2, <2>3
<1>3. LocalInv => ViewOnlyStaysLocal
  BY DEF LocalInv, Confined, Inside, OwnLayers, ViewOnlyStaysLocal
<1> QED  BY <1>1, <1>2, <1>3, PTL DEF Spec
==============================================================================
