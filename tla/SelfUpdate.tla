------------------------------ MODULE SelfUpdate ------------------------------
(***************************************************************************)
(* dwvault updates its own binary from the published releases, keeps a     *)
(* note of the newest one it has heard of, and installs the skill that is  *)
(* bundled in it (cli/update.go, skill.go, internal/selfupdate).           *)
(***************************************************************************)
EXTENDS Sessions, Sequences

CONSTANTS Dev,        \* the version of a build from source: not of the form v1.2.3
          NoSkill, EditedSkill, \* no skill file, and one that no release bundles
          Releases    \* [1..n -> tag, asset, listed and sound], in order of publication

VARIABLES published,  \* number of releases published; the last one is the latest
          installed,  \* the binary on disk: its tag, and whether it is a whole and good one
          noted,      \* update.json: the tag last heard of, and whether that is recent
          checks,     \* detached "__update-check" processes that run
          skill       \* the skill file: that of a version, an edited one, or none

updateVars == <<published, installed, noted, checks, skill>>

Tag == [1 .. 3 -> Nat] \cup {Dev}
Release == [tag : Tag, asset : BOOLEAN, listed : BOOLEAN, sound : BOOLEAN]
UpdateAsk == [cmd : {"update"}, force : BOOLEAN, check : BOOLEAN]
             \cup [cmd : {"skill"}, force : BOOLEAN, check : BOOLEAN]

\* Mutant: one component after the other, without regard to the ones before.
NewerSomewhere(a, b) == a # Dev /\ (b = Dev \/ \E i \in 1 .. 3 : a[i] > b[i])

\* Compare(a, b) > 0: the first component that differs decides; what does not parse is lowest.
Newer(a, b) == a # Dev /\ (b = Dev \/ \E i \in 1 .. 3 : a[i] > b[i] /\ \A j \in 1 .. i - 1 : a[j] = b[j])

-----------------------------------------------------------------------------
(* update *)

\* A build from source is left alone.
FirstUpdateStep(q) == CASE q.cmd = "skill" -> "compare"
                        [] q.cmd # "skill" /\ installed.tag = Dev /\ ~q.force -> "ok"
                        [] OTHER -> "latest"

Latest(p) ==
    /\ At(p, "latest")
    /\ \/ published > 0 /\ Change(p, [step |-> "note", rel |-> Releases[published]])
       \/ Ends(p, "failed")
    /\ UNCHANGED updateVars

\* The note is replaced by a new one; both callers ignore a failure.
SaveState(rel) == noted' \in {noted, [tag |-> rel.tag, recent |-> TRUE]}

\* Compare with the running version decides whether there is anything to download.
Note(p) ==
    /\ At(p, "note")
    /\ SaveState(proc[p].rel)
    /\ IF proc[p].ask.check \/ ~(Newer(proc[p].rel.tag, proc[p].version) \/ proc[p].ask.force)
         THEN Ends(p, "ok") ELSE Go(p, "download")
    /\ UNCHANGED <<published, installed, checks, skill>>

\* The manifest, then the binary, whose checksum is that of the manifest.
Download(p) ==
    /\ At(p, "download")
    /\ LET rel == proc[p].rel
       IN  \/ rel.asset /\ rel.listed /\ rel.sound /\ Go(p, "apply")
           \/ Ends(p, "failed")
    /\ UNCHANGED updateVars

\* Apply writes the new binary beside the old one and renames it; until then nothing has
\* happened, and afterwards it is all there.
Apply(p) ==
    /\ At(p, "apply")
    /\ \/ Ends(p, "ok") /\ installed' = [tag |-> proc[p].rel.tag, sound |-> proc[p].rel.sound]
       \/ Ends(p, "failed") /\ UNCHANGED installed
    /\ UNCHANGED <<published, noted, checks, skill>>

-----------------------------------------------------------------------------
(* The passive check, and the skill *)

\* maybeNotifyUpdate, before any command but update and unless it is told to be quiet: one
\* more check is started for every command until one of them has answered.
Notify(q) == checks' \in {checks} \cup (IF q.cmd # "update" /\ installed.tag # Dev /\ ~noted.recent
                                         THEN {checks + 1} ELSE {})

CheckEnds ==
    /\ checks > 0 /\ checks' = checks - 1
    /\ (published > 0 /\ SaveState(Releases[published])) \/ UNCHANGED noted
    /\ UNCHANGED <<published, installed, skill>>

CompareSkill(p) ==
    /\ At(p, "compare")
    /\ CASE skill = proc[p].version -> Ends(p, "ok")
         [] skill # proc[p].version /\ proc[p].ask.check -> Ends(p, "ok")
         [] OTHER -> IF skill # NoSkill /\ ~proc[p].ask.force THEN Ends(p, "failed") ELSE Go(p, "install")
    /\ UNCHANGED updateVars

InstallSkill(p) ==
    /\ At(p, "install")
    /\ \/ Ends(p, "ok") /\ skill' = proc[p].version
       \/ Ends(p, "failed") /\ UNCHANGED skill
    /\ UNCHANGED <<published, installed, noted, checks>>

Updates(p) == Latest(p) \/ Note(p) \/ Download(p) \/ Apply(p) \/ CompareSkill(p) \/ InstallSkill(p)

\* A release is published, which may be older than the last; a day passes.
Publish == /\ published < Len(Releases) /\ published' = published + 1
           /\ UNCHANGED <<installed, noted, checks, skill>>
DayPasses == /\ noted' = [noted EXCEPT !.recent = FALSE] /\ noted' # noted
             /\ UNCHANGED <<published, installed, checks, skill>>

-----------------------------------------------------------------------------
\* The order of v1.2.3 tags; a build from source is below them all.
Below(a, b) ==
    /\ b # Dev
    /\ \/ a = Dev
       \/ a[1] < b[1]
       \/ a[1] = b[1] /\ a[2] < b[2]
       \/ a[1] = b[1] /\ a[2] = b[2] /\ a[3] < b[3]

\* Unless forced, an update replaces the binary by a newer one, and always by the whole and
\* listed binary of a release; only another update that went by after this one began may
\* have installed a newer one still (update.go:39, selfupdate.go:105-176, 238-273).
NoDowngrade ==
    [][installed' # installed =>
         /\ installed'.sound
         /\ \E p \in Proc :
              /\ At(p, "apply") /\ proc[p].rel.listed /\ proc[p].rel.tag = installed'.tag
              /\ \/ proc[p].ask.force
                 \/ Below(installed.tag, installed'.tag)
                 \/ installed.tag # proc[p].version]_<<proc, installed>>
=============================================================================
