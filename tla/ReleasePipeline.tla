--------------------------- MODULE ReleasePipeline ---------------------------
(***************************************************************************)
(* .github/workflows: what GitHub runs on a push to main.  release.yml     *)
(* regenerates the code and, when that changed generated/, commits, pushes *)
(* and tags it; downstream-dispatch.yml tells the services of changed      *)
(* code.  Every push of a developer starts a run of each, nothing          *)
(* serialises the runs, and a push to the remote is refused when somebody  *)
(* was faster.                                                             *)
(***************************************************************************)
EXTENDS Naturals, Sequences

CONSTANTS
  Services,     \* the matrix of downstream-dispatch.yml
  MaxMain,      \* bound: commits on main
  MaxBroken,    \* bound: steps that fail for a reason of their own
  MaxReruns     \* bound: runs started again by hand

ASSUME BoundsAssumption ==
  MaxMain \in Nat \ {0} /\ MaxBroken \in Nat /\ MaxReruns \in Nat

(* A commit: the version of the OpenAPI sources, the version the tracked   *)
(* files of generated/ were generated from, the version whose new files    *)
(* have been added to generated/, and who pushed it.                       *)
Commit == [spec : Nat, tracked : Nat, added : Nat, by : {"developer", "bot"}]

(* A run of release.yml: its next step, and the latest version among the   *)
(* tags it fetched at checkout.                                            *)
Run == [at : {"queued", "codegen", "push", "tag", "tagged", "passed", "rejected", "broken", "skipped"},
        seen : Nat]

VARIABLES
  main,      \* the commits of main, the first one first
  tags,      \* v0.0.n |-> the position of its commit in main
  runs,      \* per commit of main: the run of release.yml its push started
  told,      \* per commit of main and service: what became of its dispatch
  broken,    \* steps that have failed so far
  reruns     \* runs started again so far

vars == <<main, tags, runs, told, broken, reruns>>

TypeOK ==
  /\ main \in Seq(Commit) /\ main # <<>>
  /\ runs \in Seq(Run) /\ Len(runs) = Len(main)
  /\ DOMAIN tags \subseteq Nat \ {0}
  /\ \A v \in DOMAIN tags : tags[v] \in DOMAIN main
  /\ told \in Seq([Services -> {"pending", "sent", "failed", "none"}]) /\ Len(told) = Len(main)
  /\ broken \in Nat /\ reruns \in Nat

InSync(commit) == commit.tracked = commit.spec /\ commit.added = commit.spec
Tip == main[Len(main)]
Latest == CHOOSE n \in {0} \union DOMAIN tags : \A v \in DOMAIN tags : v <= n

(* Whether generated/ differs between a commit and the one before it. *)
Touches(before, commit) == before.tracked # commit.tracked \/ before.added # commit.added
ChangesCode(k) == k > 1 /\ Touches(main[k - 1], main[k])

(* The jobs of downstream-dispatch.yml: its path filter, its matrix. *)
Dispatches(started) == [s \in Services |-> IF started THEN "pending" ELSE "none"]

(* A repository in sync and untagged, its last run over. *)
Init ==
  /\ main = << [spec |-> 0, tracked |-> 0, added |-> 0, by |-> "developer"] >>
  /\ runs = << [at |-> "passed", seen |-> 0] >>
  /\ tags = [v \in {} |-> 0]
  /\ told = << Dispatches(FALSE) >>
  /\ broken = 0 /\ reruns = 0

--------------------------------------------------------------------------------
(* A developer merges: the sources changed or not, the code regenerated,   *)
(* regenerated without its new files ("git commit -a"), or left alone.     *)
Merge ==
  /\ Len(main) < MaxMain
  /\ \E spec \in {Tip.spec, Tip.spec + 1} :
     \E code \in {<<spec, spec>>, <<spec, Tip.added>>, <<Tip.tracked, Tip.added>>} :
       main' = Append(main, [spec |-> spec, tracked |-> code[1], added |-> code[2], by |-> "developer"])
  /\ runs' = Append(runs, [at |-> "queued", seen |-> 0])
  /\ told' = Append(told, Dispatches(Touches(Tip, Tip')))
  /\ UNCHANGED <<tags, broken, reruns>>

Goto(k, where) == runs' = [runs EXCEPT ![k].at = where]

(* actions/checkout: the commit that started the run, and today's tags. *)
Checkout(k) ==
  /\ runs[k].at = "queued"
  /\ runs' = [runs EXCEPT ![k] = [at |-> "codegen", seen |-> Latest]]
  /\ UNCHANGED <<main, tags, told, broken, reruns>>

CodegenUnstaged(k) ==         \* mutant: git diff without git add
  /\ runs[k].at = "codegen"
  /\ Goto(k, IF main[k].tracked = main[k].spec THEN "passed" ELSE "push")
  /\ UNCHANGED <<main, tags, told, broken, reruns>>

CodegenAlwaysTags(k) ==       \* mutant: the tag step has lost its if
  /\ runs[k].at = "codegen"
  /\ Goto(k, IF InSync(main[k]) THEN "tag" ELSE "push")
  /\ UNCHANGED <<main, tags, told, broken, reruns>>

CodegenUnpushed(k) ==         \* mutant: git push is left to the push of the tag
  /\ runs[k].at = "codegen"
  /\ Goto(k, IF InSync(main[k]) THEN "passed" ELSE "tag")
  /\ UNCHANGED <<main, tags, told, broken, reruns>>

(* oapigen, git add, git diff --staged --quiet. *)
Codegen(k) ==
  /\ runs[k].at = "codegen"
  /\ Goto(k, IF InSync(main[k]) THEN "passed" ELSE "push")
  /\ UNCHANGED <<main, tags, told, broken, reruns>>

(* What the bot commits on top of a commit: its sources, their code. *)
Regenerated(commit) ==
  [spec |-> commit.spec, tracked |-> commit.spec, added |-> commit.spec, by |-> "bot"]

(* The bot's own push starts nothing. *)
Advance(k, commits, commit) ==
  /\ main' = Append(commits, commit)
  /\ runs' = Append([runs EXCEPT ![k].at = "tag"], [at |-> "skipped", seen |-> 0])
  /\ told' = Append(told, Dispatches(FALSE))

PushRebased(k) ==             \* mutant: git pull --rebase before git push
  /\ runs[k].at = "push"
  /\ Advance(k, main, [spec |-> Tip.spec, tracked |-> main[k].spec, added |-> main[k].spec, by |-> "bot"])
  /\ UNCHANGED <<tags, broken, reruns>>

PushForced(k) ==              \* mutant: git push --force
  /\ runs[k].at = "push"
  /\ IF Len(main) = k
     THEN Advance(k, main, Regenerated(main[k]))
     ELSE /\ main' = [main EXCEPT ![k + 1] = Regenerated(main[k])]
          /\ Goto(k, "tag")
          /\ UNCHANGED told
  /\ UNCHANGED <<tags, broken, reruns>>

(* git commit, git push: refused unless main is still where it was. *)
Push(k) ==
  /\ runs[k].at = "push"
  /\ IF Len(main) = k
     THEN Advance(k, main, Regenerated(main[k]))
     ELSE Goto(k, "rejected") /\ UNCHANGED <<main, told>>
  /\ UNCHANGED <<tags, broken, reruns>>

(* HEAD of the runner: the commit it made on top of the one it checked     *)
(* out, or that one itself when there was nothing to commit.               *)
HeadOf(k) == IF InSync(main[k]) THEN k ELSE k + 1

(* git tag, git push of the tag. *)
AddTag(version, k) ==
  tags' = [v \in DOMAIN tags \union {version} |-> IF v = version THEN HeadOf(k) ELSE tags[v]]

TagFresh(k) ==                \* mutant: the tags are fetched again first
  /\ runs[k].at = "tag"
  /\ AddTag(Latest + 1, k)
  /\ Goto(k, "tagged")
  /\ UNCHANGED <<main, told, broken, reruns>>

TagUnchecked(k) ==            \* mutant: git push origin || true
  /\ runs[k].at = "tag"
  /\ IF runs[k].seen + 1 \notin DOMAIN tags THEN AddTag(runs[k].seen + 1, k) ELSE UNCHANGED tags
  /\ Goto(k, "tagged")
  /\ UNCHANGED <<main, told, broken, reruns>>

(* The next patch version after those of the checkout; a taken one is refused. *)
Tag(k) ==
  /\ runs[k].at = "tag"
  /\ IF runs[k].seen + 1 \notin DOMAIN tags
     THEN AddTag(runs[k].seen + 1, k) /\ Goto(k, "tagged")
     ELSE Goto(k, "rejected") /\ UNCHANGED tags
  /\ UNCHANGED <<main, told, broken, reruns>>

Finish(k) ==
  /\ runs[k].at = "tagged"
  /\ Goto(k, "passed")
  /\ UNCHANGED <<main, tags, told, broken, reruns>>

(* A step fails: the runner, the generator or the network.  A push whose   *)
(* answer is lost fails after it was carried out.                          *)
Break(k) ==
  /\ broken < MaxBroken
  /\ runs[k].at \in {"queued", "codegen", "push", "tag", "tagged"}
  /\ Goto(k, "broken")
  /\ broken' = broken + 1
  /\ UNCHANGED <<main, tags, told, reruns>>

(* "Re-run failed jobs": the same commit once more. *)
Rerun(k) ==
  /\ reruns < MaxReruns
  /\ runs[k].at \in {"rejected", "broken"}
  /\ Goto(k, "queued")
  /\ reruns' = reruns + 1
  /\ UNCHANGED <<main, tags, told, broken>>

(* downstream-dispatch.yml, the jobs of the matrix on their own: without   *)
(* the token, or with an answer other than 204, the service hears nothing. *)
Dispatch(k, s) ==
  /\ told[k][s] = "pending"
  /\ \E what \in {"sent", "failed"} : told' = [told EXCEPT ![k][s] = what]
  /\ UNCHANGED <<main, tags, runs, broken, reruns>>

RunStep(k) == Checkout(k) \/ Codegen(k) \/ Push(k) \/ Tag(k) \/ Finish(k)
Jobs(k) == RunStep(k) \/ \E s \in Services : Dispatch(k, s)

Next ==
  \/ Merge
  \/ \E k \in DOMAIN main : Jobs(k) \/ Break(k) \/ Rerun(k)

Spec == Init /\ [][Next]_vars

(* GitHub starts every queued job and lets it go on; nobody is made to     *)
(* merge, and nothing has to break.                                        *)
FairSpec == Spec /\ \A k \in 1..(MaxMain + 1) : WF_vars(k \in DOMAIN main /\ Jobs(k))

--------------------------------------------------------------------------------
(* Every job the push of the commit at k started is over, and sent what it had to. *)
Settled(k) ==
  /\ runs[k].at \in {"passed", "rejected", "broken", "skipped"}
  /\ \A s \in Services : told[k][s] \in {"sent", "none"}

Tagged(p) == \E v \in DOMAIN tags : tags[v] = p

(* A version is released for a commit of the bot's whose code is that of   *)
(* its sources and is not what was on main before (release.yml:17), and    *)
(* versions are counted without a gap.                                     *)
TagsAreReleases ==
  \A v \in DOMAIN tags :
    /\ main[tags[v]].by = "bot" /\ InSync(main[tags[v]]) /\ ChangesCode(tags[v])
    /\ v > 1 => v - 1 \in DOMAIN tags

(* A later version is a later commit, whatever the runs overtake.  A       *)
(* service that upgrades never goes back to an older contract.             *)
TagsFollowMain ==
  \A v, w \in DOMAIN tags : v < w => tags[v] < tags[w]

(* A green run has released what it regenerated. *)
PassedMeansReleased ==
  \A k \in DOMAIN main :
    runs[k].at = "passed" /\ ~InSync(main[k]) => k + 1 \in DOMAIN main /\ Tagged(k + 1)

(* What a released version stands for never changes: no push rewrites main *)
(* up to it, no tag is moved or dropped.                                   *)
ReleasesArePermanent ==
  [][\A v \in DOMAIN tags :
       /\ v \in DOMAIN tags' /\ tags'[v] = tags[v]
       /\ \A p \in 1..tags[v] : main'[p] = main[p]]_vars

(* Once developers leave main alone its code comes to match its sources,   *)
(* although every run may be overtaken: only a step of the last push's own *)
(* run that broke can prevent it.                                          *)
EventuallyInSync ==
  <>[](InSync(Tip) \/ runs[Len(main)].at = "broken")

--------------------------------------------------------------------------------
(* Claims of the documentation, checked by runs that refute them. *)

(* release.yml:3: "On push to main: run codegen, commit generated code,    *)
(* bump version, create permanent tag."                                    *)
RegeneratedIsTagged ==
  \A k \in DOMAIN main :
    (main[k].by = "bot" /\ runs[k - 1].at \notin {"tag", "broken"}) => Tagged(k)

(* downstream-dispatch.yml:3: "при мёрже в main, меняющем Go-модуль        *)
(* (generated/, ...) - запускает в сервисных репо проверку".               *)
NewCodeIsChecked ==
  (\A k \in DOMAIN main : Settled(k)) =>
    \A k \in DOMAIN main : ChangesCode(k) => \A s \in Services : told[k][s] = "sent"
================================================================================
