----------------------------- MODULE ReleaseProofs -----------------------------
(***************************************************************************)
(* Theorems about ReleasePipeline, for any number of commits, runs, breaks *)
(* and re-runs.  Versions stay in the order of main although the runs that *)
(* release them overlap: a run computes its version from tags it saw       *)
(* before it pushed, its push is refused unless main stood still since the *)
(* commit it started from, and a version is given once.                    *)
(***************************************************************************)
EXTENDS ReleasePipeline, TLAPS

(* What a run of the commit at k may rely on, at each of its steps. *)
RunOK(k, r) ==
  /\ r.at \in {"codegen", "push", "tag"} => r.seen \in {0} \union DOMAIN tags
  /\ r.at \in {"push", "tag"} => ~InSync(main[k])
  /\ r.at = "tag" =>
       /\ k + 1 \in DOMAIN main /\ main[k + 1] = Regenerated(main[k])
       /\ \A v \in DOMAIN tags : v <= r.seen => tags[v] <= k
  /\ r.at = "tagged" \/ (r.at = "passed" /\ ~InSync(main[k])) =>
       k + 1 \in DOMAIN main /\ Tagged(k + 1)

RunsOK == \A k \in DOMAIN main : RunOK(k, runs[k])

(* Versions are counted from 1. *)
Counted == \E n \in Nat : DOMAIN tags = 1..n

RInv == TypeOK /\ Counted /\ TagsAreReleases /\ TagsFollowMain /\ RunsOK

--------------------------------------------------------------------------------
(* Of versions counted from 1 the latest is their number. *)
LEMMA LatestIsLast ==
  ASSUME NEW n \in Nat, DOMAIN tags = 1..n
  PROVE  Latest = n
<1>1. n \in {0} \union DOMAIN tags /\ \A v \in DOMAIN tags : v <= n
  OBVIOUS
<1>2. \A m \in {0} \union DOMAIN tags : (\A v \in DOMAIN tags : v <= m) => m = n
  OBVIOUS
<1> QED BY <1>1, <1>2 DEF Latest

(* Appending leaves the commits of main where they are. *)
LEMMA Appended ==
  ASSUME NEW S, NEW s \in Seq(S), NEW e \in S
  PROVE  /\ Append(s, e) \in Seq(S) /\ Len(Append(s, e)) = Len(s) + 1
         /\ DOMAIN Append(s, e) = DOMAIN s \union {Len(s) + 1}
         /\ Append(s, e)[Len(s) + 1] = e
         /\ \A p \in DOMAIN s : Append(s, e)[p] = s[p]
         /\ DOMAIN s = 1..Len(s) /\ Len(s) \in Nat
OBVIOUS

(* A step that only moves the run of one commit. *)
LEMMA RunMoves ==
  ASSUME RInv, NEW k \in DOMAIN main, NEW r \in Run, RunOK(k, r),
         runs' = [runs EXCEPT ![k] = r], UNCHANGED <<main, tags>>,
         told' \in Seq([Services -> {"pending", "sent", "failed", "none"}]), Len(told') = Len(told),
         broken' \in Nat, reruns' \in Nat
  PROVE  RInv'
<1> USE DEF RInv
<1>1. /\ runs' \in Seq(Run) /\ Len(runs') = Len(main) /\ DOMAIN runs = DOMAIN main
      /\ runs'[k] = r /\ \A j \in DOMAIN main : j # k => runs'[j] = runs[j]
  BY DEF TypeOK
<1>2. TypeOK'
  BY <1>1 DEF TypeOK
<1>3. Counted' /\ TagsAreReleases' /\ TagsFollowMain'
  BY DEF Counted, TagsAreReleases, TagsFollowMain, InSync, ChangesCode
<1>4. \A j, q : RunOK(j, q) => RunOK(j, q)'
  BY DEF RunOK, Tagged, InSync
<1>5. RunsOK'
  BY <1>1, <1>4 DEF RunsOK
<1> QED BY <1>2, <1>3, <1>5

(* What runs and tags rely on survives a commit on top of main. *)
LEMMA MainGrows ==
  ASSUME TypeOK, Counted, TagsAreReleases, TagsFollowMain,
         NEW c \in Commit, main' = Append(main, c), UNCHANGED tags
  PROVE  /\ Counted' /\ TagsAreReleases' /\ TagsFollowMain'
         /\ \A k \in DOMAIN main : \A r : RunOK(k, r) => RunOK(k, r)'
<1>1. /\ DOMAIN main' = DOMAIN main \union {Len(main) + 1} /\ DOMAIN main = 1..Len(main)
      /\ Len(main) \in Nat /\ \A p \in DOMAIN main : main'[p] = main[p]
  BY Appended DEF TypeOK
<1>2. Counted' /\ TagsFollowMain'
  BY DEF Counted, TagsFollowMain
<1>3. TagsAreReleases'
  <2> SUFFICES ASSUME NEW v \in DOMAIN tags
               PROVE  /\ main'[tags[v]].by = "bot" /\ InSync(main'[tags[v]])
                      /\ tags[v] > 1 /\ Touches(main'[tags[v] - 1], main'[tags[v]])
                      /\ v > 1 => v - 1 \in DOMAIN tags
    BY DEF TagsAreReleases, ChangesCode
  <2>1. tags[v] \in DOMAIN main /\ tags[v] > 1 /\ tags[v] - 1 \in DOMAIN main
    BY <1>1 DEF TypeOK, TagsAreReleases, ChangesCode
  <2> QED BY <1>1, <2>1 DEF TagsAreReleases, ChangesCode
<1>4. ASSUME NEW k \in DOMAIN main, NEW r, RunOK(k, r)
      PROVE  RunOK(k, r)'
  <2>1. k + 1 \in DOMAIN main => k + 1 \in DOMAIN main' /\ main'[k + 1] = main[k + 1]
    BY <1>1
  <2>2. main'[k] = main[k]
    BY <1>1
  <2> QED BY <1>4, <2>1, <2>2 DEF RunOK, Tagged
<1> QED BY <1>2, <1>3, <1>4

--------------------------------------------------------------------------------
(* One commit, in sync, not yet released. *)
LEMMA InitInv == Init => RInv
<1> SUFFICES ASSUME Init PROVE RInv
  OBVIOUS
<1> USE DEF Init
<1>1. /\ main \in Seq(Commit) /\ Len(main) = 1 /\ main # <<>> /\ DOMAIN main = {1}
      /\ InSync(main[1])
  BY DEF Commit, InSync
<1>2. runs \in Seq(Run) /\ Len(runs) = 1 /\ runs[1].at = "passed"
  BY DEF Run
<1>3. told \in Seq([Services -> {"pending", "sent", "failed", "none"}]) /\ Len(told) = 1
  BY DEF Dispatches
<1>4. DOMAIN tags = {} /\ DOMAIN tags = 1..0
  OBVIOUS
<1>5. TypeOK
  BY <1>1, <1>2, <1>3, <1>4 DEF TypeOK
<1>6. Counted /\ TagsAreReleases /\ TagsFollowMain
  BY <1>4 DEF Counted, TagsAreReleases, TagsFollowMain
<1>7. RunsOK
  BY <1>1, <1>2 DEF RunsOK, RunOK
<1> QED BY <1>5, <1>6, <1>7 DEF RInv

(* A merge adds a commit on top: no run, tag or earlier commit is disturbed. *)
LEMMA MergeInv == RInv /\ Merge => RInv'
<1> SUFFICES ASSUME RInv, Merge PROVE RInv'
  OBVIOUS
<1> USE DEF RInv
<1>1. PICK c \in Commit : main' = Append(main, c)
  <2>1. Tip \in Commit
    BY DEF TypeOK, Tip
  <2> QED BY <2>1 DEF Merge, Commit
<1> DEFINE r == [at |-> "queued", seen |-> 0]
           t == Dispatches(Touches(Tip, Tip'))
<1>2. r \in Run /\ t \in [Services -> {"pending", "sent", "failed", "none"}]
  BY DEF Run, Dispatches
<1>3. runs' = Append(runs, r) /\ told' = Append(told, t) /\ UNCHANGED <<tags, broken, reruns>>
  BY DEF Merge
<1> HIDE DEF r, t
<1>4. /\ DOMAIN main' = DOMAIN main \union {Len(main) + 1} /\ main' \in Seq(Commit)
      /\ Len(main') = Len(main) + 1 /\ main' # <<>>
  BY <1>1, Appended DEF TypeOK
<1>5. /\ runs' \in Seq(Run) /\ Len(runs') = Len(main') /\ runs'[Len(main) + 1] = r
      /\ \A k \in DOMAIN main : runs'[k] = runs[k]
  BY <1>2, <1>3, <1>4, Appended DEF TypeOK
<1>6. /\ told' \in Seq([Services -> {"pending", "sent", "failed", "none"}])
      /\ Len(told') = Len(main')
  BY <1>2, <1>3, <1>4, Appended DEF TypeOK
<1>7. TypeOK'
  BY <1>3, <1>4, <1>5, <1>6 DEF TypeOK
<1>8. /\ Counted' /\ TagsAreReleases' /\ TagsFollowMain'
      /\ \A k \in DOMAIN main : \A q : RunOK(k, q) => RunOK(k, q)'
  BY <1>1, <1>3, MainGrows
<1>9. RunsOK'
  <2>1. \A p, q : q = r => RunOK(p, q)'
    BY DEF RunOK, r
  <2>2. \A k \in DOMAIN main : RunOK(k, runs[k])'
    BY <1>5, <1>8 DEF RunsOK
  <2>3. \A p : p = Len(main) + 1 => RunOK(p, runs[p])'
    BY <1>5, <2>1
  <2> QED BY <1>4, <2>2, <2>3 DEF RunsOK
<1> QED BY <1>7, <1>8, <1>9

(* The steps that move one run and nothing else. *)
LEMMA LocalInv ==
  ASSUME RInv, NEW k \in DOMAIN main,
         Checkout(k) \/ Codegen(k) \/ Finish(k) \/ Break(k) \/ Rerun(k)
  PROVE  RInv'
<1> USE DEF RInv
<1>1. runs[k] \in Run /\ RunOK(k, runs[k]) /\ DOMAIN runs = DOMAIN main /\ Latest \in {0} \union DOMAIN tags
  BY LatestIsLast DEF TypeOK, RunsOK, Counted
<1>2. CASE Checkout(k)
  <2> DEFINE r == [at |-> "codegen", seen |-> Latest]
  <2>1. r \in Run /\ RunOK(k, r)
    BY <1>1 DEF Run, RunOK, TypeOK
  <2> QED BY <1>2, <2>1, RunMoves DEF Checkout, TypeOK
<1>3. CASE Codegen(k)
  <2> DEFINE r == [runs[k] EXCEPT !.at = IF InSync(main[k]) THEN "passed" ELSE "push"]
  <2>1. r \in Run /\ RunOK(k, r)
    BY <1>1, <1>3 DEF Run, RunOK, Codegen
  <2>2. runs' = [runs EXCEPT ![k] = r]
    BY <1>3 DEF Codegen, Goto
  <2> QED BY <1>3, <2>1, <2>2, RunMoves DEF Codegen, TypeOK
<1>4. CASE Finish(k)
  <2> DEFINE r == [runs[k] EXCEPT !.at = "passed"]
  <2>1. r \in Run /\ RunOK(k, r)
    BY <1>1, <1>4 DEF Run, RunOK, Finish
  <2>2. runs' = [runs EXCEPT ![k] = r]
    BY <1>4 DEF Finish, Goto
  <2> QED BY <1>4, <2>1, <2>2, RunMoves DEF Finish, TypeOK
<1>5. CASE Break(k)
  <2> DEFINE r == [runs[k] EXCEPT !.at = "broken"]
  <2>1. r \in Run /\ RunOK(k, r)
    BY <1>1 DEF Run, RunOK
  <2>2. runs' = [runs EXCEPT ![k] = r]
    BY <1>5 DEF Break, Goto
  <2>3. UNCHANGED <<main, tags, told>> /\ broken' \in Nat /\ reruns' \in Nat
    BY <1>5 DEF Break, TypeOK
  <2> QED BY <2>1, <2>2, <2>3, RunMoves DEF TypeOK
<1>6. CASE Rerun(k)
  <2> DEFINE r == [runs[k] EXCEPT !.at = "queued"]
  <2>1. r \in Run /\ RunOK(k, r)
    BY <1>1 DEF Run, RunOK
  <2>2. runs' = [runs EXCEPT ![k] = r]
    BY <1>6 DEF Rerun, Goto
  <2>3. UNCHANGED <<main, tags, told>> /\ broken' \in Nat /\ reruns' \in Nat
    BY <1>6 DEF Rerun, TypeOK
  <2> QED BY <2>1, <2>2, <2>3, RunMoves DEF TypeOK
<1> QED BY <1>2, <1>3, <1>4, <1>5, <1>6

(* An accepted push finds main where the run started, so that every tag is *)
(* of an earlier commit than the new one.                                  *)
LEMMA PushInv ==
  ASSUME RInv, NEW k \in DOMAIN main, Push(k)
  PROVE  RInv'
<1> USE DEF RInv
<1>1. /\ runs[k] \in Run /\ RunOK(k, runs[k]) /\ DOMAIN runs = DOMAIN main /\ runs[k].at = "push"
      /\ Len(runs) = Len(main) /\ main[k] \in Commit /\ DOMAIN main = 1..Len(main) /\ Len(main) \in Nat
  BY DEF TypeOK, RunsOK, Push
<1>2. CASE Len(main) # k
  <2> DEFINE r == [runs[k] EXCEPT !.at = "rejected"]
  <2>1. r \in Run /\ RunOK(k, r)
    BY <1>1 DEF Run, RunOK
  <2>2. runs' = [runs EXCEPT ![k] = r] /\ UNCHANGED <<main, tags, told, broken, reruns>>
    BY <1>2 DEF Push, Goto
  <2> QED BY <2>1, <2>2, RunMoves DEF TypeOK
<1>3. CASE Len(main) = k
  <2> DEFINE c == Regenerated(main[k])
             r == [runs[k] EXCEPT !.at = "tag"]
             moved == [runs EXCEPT ![k] = r]
             s == [at |-> "skipped", seen |-> 0]
             t == Dispatches(FALSE)
  <2>1. /\ c \in Commit /\ r \in Run /\ s \in Run /\ t \in [Services -> {"pending", "sent", "failed", "none"}]
        /\ r.at = "tag" /\ r.seen = runs[k].seen /\ s.at = "skipped"
    BY <1>1 DEF Regenerated, Commit, Run, Dispatches
  <2>2. /\ main' = Append(main, c) /\ runs' = Append(moved, s) /\ told' = Append(told, t)
        /\ UNCHANGED <<tags, broken, reruns>>
    BY <1>3 DEF Push, Advance
  <2>3. moved \in Seq(Run) /\ Len(moved) = Len(main) /\ DOMAIN moved = DOMAIN main /\ moved[k] = r
        /\ \A j \in DOMAIN main : j # k => moved[j] = runs[j]
    BY <1>1, <2>1 DEF TypeOK
  <2> HIDE DEF c, r, s, t, moved
  <2>4. /\ DOMAIN main' = DOMAIN main \union {k + 1} /\ main' \in Seq(Commit) /\ main' # <<>>
        /\ Len(main') = Len(main) + 1 /\ main'[k + 1] = c /\ \A j \in DOMAIN main : main'[j] = main[j]
    BY <1>3, <2>1, <2>2, Appended DEF TypeOK
  <2>5. /\ runs' \in Seq(Run) /\ Len(runs') = Len(main') /\ runs'[k + 1] = s /\ runs'[k] = r
        /\ \A j \in DOMAIN main : j # k => runs'[j] = runs[j]
    BY <1>3, <2>1, <2>2, <2>3, <2>4, Appended
  <2>6. /\ told' \in Seq([Services -> {"pending", "sent", "failed", "none"}])
        /\ Len(told') = Len(main')
    BY <2>1, <2>2, <2>4, Appended DEF TypeOK
  <2>7. TypeOK'
    BY <2>2, <2>4, <2>5, <2>6 DEF TypeOK
  <2>8. /\ Counted' /\ TagsAreReleases' /\ TagsFollowMain'
        /\ \A j \in DOMAIN main : \A q : RunOK(j, q) => RunOK(j, q)'
    BY <2>1, <2>2, MainGrows
  <2>9. \A q : q = r => RunOK(k, q)'
    <3>1. \A v \in DOMAIN tags : tags[v] <= k
      BY <1>1, <1>3 DEF TypeOK
    <3>2. r.seen \in {0} \union DOMAIN tags /\ ~InSync(main[k])
      BY <1>1, <2>1 DEF RunOK
    <3> QED BY <2>1, <2>2, <2>4, <3>1, <3>2 DEF RunOK, c
  <2>10. \A q : q = s => RunOK(k + 1, q)'
    BY <2>1 DEF RunOK
  <2>11. RunsOK'
    <3> SUFFICES ASSUME NEW j \in DOMAIN main' PROVE RunOK(j, runs[j])'
      BY DEF RunsOK
    <3>1. CASE j = k
      BY <2>5, <2>9, <3>1
    <3>2. CASE j = k + 1
      BY <2>5, <2>10, <3>2
    <3>3. CASE j \in DOMAIN main /\ j # k
      BY <2>5, <2>8, <3>3 DEF RunsOK
    <3> QED BY <2>4, <3>1, <3>2, <3>3
  <2> QED BY <2>7, <2>8, <2>11
<1> QED BY <1>2, <1>3

(* The version a run gives is the next one, and all before it are earlier. *)
LEMMA TagInv ==
  ASSUME RInv, NEW k \in DOMAIN main, Tag(k)
  PROVE  RInv'
<1> USE DEF RInv
<1>1. /\ runs[k] \in Run /\ RunOK(k, runs[k]) /\ DOMAIN runs = DOMAIN main /\ runs[k].at = "tag"
      /\ Len(runs) = Len(main) /\ main[k] \in Commit /\ DOMAIN main = 1..Len(main) /\ Len(main) \in Nat
  BY DEF TypeOK, RunsOK, Tag
<1>2. CASE runs[k].seen + 1 \in DOMAIN tags
  <2> DEFINE r == [runs[k] EXCEPT !.at = "rejected"]
  <2>1. r \in Run /\ RunOK(k, r)
    BY <1>1 DEF Run, RunOK
  <2>2. runs' = [runs EXCEPT ![k] = r] /\ UNCHANGED <<main, tags, told, broken, reruns>>
    BY <1>2 DEF Tag, Goto
  <2> QED BY <2>1, <2>2, RunMoves DEF TypeOK
<1>3. CASE runs[k].seen + 1 \notin DOMAIN tags
  <2>1. PICK n \in Nat : DOMAIN tags = 1..n
    BY DEF Counted
  <2>2. runs[k].seen = n
    BY <1>1, <1>3, <2>1 DEF RunOK, Run
  <2>0. HeadOf(k) = k + 1
    BY <1>1 DEF RunOK, HeadOf
  <2>3. /\ DOMAIN tags' = 1..(n + 1) /\ tags'[n + 1] = k + 1 /\ \A v \in 1..n : tags'[v] = tags[v]
        /\ UNCHANGED <<main, told, broken, reruns>>
    BY <1>3, <2>0, <2>1, <2>2 DEF Tag, AddTag
  <2>4. /\ k + 1 \in DOMAIN main /\ main[k + 1] = Regenerated(main[k]) /\ ~InSync(main[k])
        /\ \A v \in 1..n : tags[v] <= k
    BY <1>1, <2>1, <2>2 DEF RunOK
  <2>5. TypeOK'
    <3> DEFINE r == [runs[k] EXCEPT !.at = "tagged"]
    <3>1. r \in Run
      BY <1>1 DEF Run
    <3>2. runs' = [runs EXCEPT ![k] = r]
      BY <1>3 DEF Tag, Goto
    <3>3. runs' \in Seq(Run) /\ Len(runs') = Len(main)
      BY <1>1, <3>1, <3>2 DEF TypeOK
    <3>4. DOMAIN tags' \subseteq Nat \ {0} /\ \A v \in DOMAIN tags' : tags'[v] \in DOMAIN main
      BY <2>1, <2>3, <2>4 DEF TypeOK
    <3> QED BY <2>3, <3>3, <3>4 DEF TypeOK
  <2>6. Counted'
    BY <2>3 DEF Counted
  <2>7. TagsAreReleases'
    <3>1. /\ main[k + 1].by = "bot" /\ InSync(main[k + 1]) /\ ChangesCode(k + 1)
      BY <1>1, <2>4 DEF Regenerated, InSync, ChangesCode, Touches
    <3>2. \A v \in 1..n : /\ main[tags[v]].by = "bot" /\ InSync(main[tags[v]]) /\ ChangesCode(tags[v])
      BY <2>1 DEF TagsAreReleases
    <3> QED BY <2>3, <3>1, <3>2 DEF TagsAreReleases, InSync, ChangesCode
  <2>8. TagsFollowMain'
    <3> SUFFICES ASSUME NEW v \in 1..(n + 1), NEW w \in 1..(n + 1), v < w
                 PROVE  tags'[v] < tags'[w]
      BY <2>3 DEF TagsFollowMain
    <3>1. CASE w = n + 1
      <4>1. v \in 1..n /\ tags'[v] = tags[v] /\ tags'[w] = k + 1
        BY <2>3, <3>1
      <4>2. tags[v] \in Nat /\ tags[v] <= k /\ k \in Nat
        <5>1. tags[v] \in DOMAIN main
          BY <2>1, <4>1 DEF TypeOK
        <5>2. tags[v] <= k
          BY <2>4, <4>1
        <5>3. \A p \in DOMAIN main : p \in Nat
          BY <1>1
        <5> QED BY <5>1, <5>2, <5>3
      <4> QED BY <4>1, <4>2
    <3>2. CASE w # n + 1
      BY <2>1, <2>3, <3>2 DEF TagsFollowMain
    <3> QED BY <3>1, <3>2
  <2>9. RunsOK'
    <3> SUFFICES ASSUME NEW j \in DOMAIN main PROVE RunOK(j, runs[j])'
      BY <2>3 DEF RunsOK
    <3>1. CASE j = k
      <4>1. runs'[k].at = "tagged"
        BY <1>1, <1>3 DEF Tag, Goto, Run, TypeOK
      <4> QED BY <2>3, <2>4, <3>1, <4>1 DEF RunOK, Tagged
    <3>2. CASE j # k
      <4>1. runs'[j] = runs[j] /\ RunOK(j, runs[j]) /\ runs[j] \in Run
        BY <1>1, <1>3, <3>2 DEF Tag, Goto, RunsOK, TypeOK
      <4>2. \A p : Tagged(p) => Tagged(p)'
        BY <2>1, <2>3 DEF Tagged
      <4>3. runs[j].at = "tag" => runs[j].seen <= n
        BY <2>1, <4>1 DEF RunOK
      <4> QED BY <2>1, <2>3, <4>1, <4>2, <4>3 DEF RunOK, InSync, Run
    <3> QED BY <3>1, <3>2
  <2> QED BY <2>5, <2>6, <2>7, <2>8, <2>9
<1> QED BY <1>2, <1>3

(* Telling a service changes what is told and nothing else. *)
LEMMA DispatchInv ==
  ASSUME RInv, NEW k \in DOMAIN main, NEW s \in Services, Dispatch(k, s)
  PROVE  RInv'
<1> USE DEF RInv
<1>1. /\ UNCHANGED <<main, tags, runs, broken, reruns>>
      /\ told' \in Seq([Services -> {"pending", "sent", "failed", "none"}]) /\ Len(told') = Len(told)
  BY DEF Dispatch, TypeOK
<1>2. TypeOK'
  BY <1>1 DEF TypeOK
<1>3. Counted' /\ TagsAreReleases' /\ TagsFollowMain' /\ RunsOK'
  BY <1>1 DEF Counted, TagsAreReleases, TagsFollowMain, RunsOK, RunOK, Tagged, InSync, ChangesCode
<1> QED BY <1>2, <1>3

(* RInv is inductive: one step per action of the workflows. *)
LEMMA NextInv == RInv /\ [Next]_vars => RInv'
<1> SUFFICES ASSUME RInv, [Next]_vars PROVE RInv'
  OBVIOUS
<1>1. CASE Merge
  BY <1>1, MergeInv
<1>2. ASSUME NEW k \in DOMAIN main, Checkout(k) \/ Codegen(k) \/ Finish(k) \/ Break(k) \/ Rerun(k)
      PROVE  RInv'
  BY <1>2, LocalInv
<1>3. ASSUME NEW k \in DOMAIN main, Push(k) PROVE RInv'
  BY <1>3, PushInv
<1>4. ASSUME NEW k \in DOMAIN main, Tag(k) PROVE RInv'
  BY <1>4, TagInv
<1>5. ASSUME NEW k \in DOMAIN main, NEW s \in Services, Dispatch(k, s) PROVE RInv'
  BY <1>5, DispatchInv
<1>6. CASE UNCHANGED vars
  BY <1>6 DEF vars, RInv, TypeOK, Counted, TagsAreReleases, TagsFollowMain, RunsOK, RunOK, Tagged,
              InSync, ChangesCode
<1> QED BY <1>1, <1>2, <1>3, <1>4, <1>5, <1>6 DEF Next, Jobs, RunStep

(* However runs of the release workflow overlap, break and are run again,  *)
(* the invariant RInv holds of main, its tags and every run.               *)
THEOREM RInvariance == Spec => []RInv
<1> QED BY InitInv, NextInv, PTL DEF Spec

--------------------------------------------------------------------------------
(* Types: in particular, what a version stands for is a commit of main. *)
THEOREM ReleaseTypeCorrect == Spec => []TypeOK
<1>1. RInv => TypeOK
  BY DEF RInv
<1> QED BY <1>1, RInvariance, PTL

(* release.yml tags code the bot has just brought in line with its sources, *)
(* version after version.                                                   *)
THEOREM TagsAreReleasesThm == Spec => []TagsAreReleases
<1>1. RInv => TagsAreReleases
  BY DEF RInv
<1> QED BY <1>1, RInvariance, PTL

(* Versions follow main however the runs overlap. *)
THEOREM TagsFollowMainThm == Spec => []TagsFollowMain
<1>1. RInv => TagsFollowMain
  BY DEF RInv
<1> QED BY <1>1, RInvariance, PTL

(* A green run has released what it regenerated. *)
THEOREM PassedMeansReleasedThm == Spec => []PassedMeansReleased
<1>1. RInv => PassedMeansReleased
  BY DEF RInv, RunsOK, RunOK, PassedMeansReleased
<1> QED BY <1>1, RInvariance, PTL

(* No step moves or drops a tag, or rewrites main below one. *)
THEOREM ReleasesArePermanentThm == Spec => ReleasesArePermanent
<1> DEFINE Kept == \A v \in DOMAIN tags :
                     /\ v \in DOMAIN tags' /\ tags'[v] = tags[v]
                     /\ \A p \in 1..tags[v] : main'[p] = main[p]
<1>1. RInv /\ [Next]_vars => [Kept]_vars
  <2> SUFFICES ASSUME RInv, Next PROVE Kept
    BY DEF vars
  <2>1. \A v \in DOMAIN tags : \A p \in 1..tags[v] : p \in DOMAIN main
    BY DEF RInv, TypeOK
  <2>2. \A p \in DOMAIN main : main'[p] = main[p]
    <3>1. ASSUME NEW c, main' = Append(main, c) PROVE \A p \in DOMAIN main : main'[p] = main[p]
      BY <3>1 DEF RInv, TypeOK
    <3>2. UNCHANGED main \/ \E c : main' = Append(main, c)
      BY DEF Next, Jobs, RunStep, Merge, Checkout, Codegen, Push, Advance, Tag, Finish, Break, Rerun,
             Dispatch
    <3> QED BY <3>1, <3>2
  <2>3. \A v \in DOMAIN tags : v \in DOMAIN tags' /\ tags'[v] = tags[v]
    <3>1. ASSUME NEW k, Tag(k) PROVE \A v \in DOMAIN tags : v \in DOMAIN tags' /\ tags'[v] = tags[v]
      BY <3>1 DEF Tag, AddTag
    <3>2. UNCHANGED tags \/ \E k : Tag(k)
      BY DEF Next, Jobs, RunStep, Merge, Checkout, Codegen, Push, Finish, Break, Rerun, Dispatch
    <3> QED BY <3>1, <3>2
  <2> QED BY <2>1, <2>2, <2>3
<1> QED BY <1>1, RInvariance, PTL DEF Spec, ReleasesArePermanent

--------------------------------------------------------------------------------
(* What EventuallyInSync rests on besides fairness: the last commit of     *)
(* main is never left out of sync by a run that is over, and every run     *)
(* gets nearer to its end.                                                 *)

(* A commit without a run is the bot's, in sync; a run that was refused    *)
(* found main ahead of its commit.                                         *)
RunsOver ==
  \A k \in DOMAIN main :
    /\ runs[k].at = "skipped" => InSync(main[k])
    /\ runs[k].at = "rejected" => k < Len(main)

TipServed == InSync(Tip) \/ runs[Len(main)].at \in {"queued", "codegen", "push", "broken"}

(* A step that moves one run to a place where RunsOver asks nothing new. *)
LEMMA RunsOverMoves ==
  ASSUME RInv, RunsOver, NEW k \in DOMAIN main, NEW r \in Run, runs' = [runs EXCEPT ![k] = r],
         r.at # "skipped", r.at = "rejected" => k < Len(main), UNCHANGED main
  PROVE  RunsOver'
<1>1. /\ DOMAIN runs = DOMAIN main /\ runs'[k] = r
      /\ \A j \in DOMAIN main : j # k => runs'[j] = runs[j]
  BY DEF RInv, TypeOK
<1> QED BY <1>1 DEF RunsOver, InSync

(* Every step keeps it. *)
LEMMA RunsOverStep == RInv /\ RunsOver /\ [Next]_vars => RunsOver'
<1> SUFFICES ASSUME RInv, RunsOver, [Next]_vars PROVE RunsOver'
  OBVIOUS
<1>0. /\ DOMAIN main = 1..Len(main) /\ Len(main) \in Nat /\ DOMAIN runs = DOMAIN main
      /\ Len(runs) = Len(main) /\ main \in Seq(Commit) /\ runs \in Seq(Run)
      /\ \A k \in DOMAIN main : runs[k] \in Run /\ main[k] \in Commit
  BY DEF RInv, TypeOK
<1>1. CASE Merge
  <2>1. PICK c \in Commit : main' = Append(main, c)
    <3>1. Tip \in Commit
      BY <1>0 DEF RInv, TypeOK, Tip
    <3> QED BY <1>1, <3>1 DEF Merge, Commit
  <2> DEFINE r == [at |-> "queued", seen |-> 0]
  <2>2. r \in Run /\ r.at = "queued" /\ runs' = Append(runs, r)
    BY <1>1 DEF Merge, Run
  <2> HIDE DEF r
  <2>3. /\ DOMAIN main' = DOMAIN main \union {Len(main) + 1} /\ Len(main') = Len(main) + 1
        /\ \A k \in DOMAIN main : main'[k] = main[k]
    BY <1>0, <2>1, Appended
  <2>4. runs'[Len(main) + 1] = r /\ \A k \in DOMAIN main : runs'[k] = runs[k]
    BY <1>0, <2>2, Appended
  <2> QED BY <1>0, <2>2, <2>3, <2>4 DEF RunsOver, InSync
<1>2. ASSUME NEW k \in DOMAIN main, Checkout(k) \/ Codegen(k) \/ Finish(k) \/ Break(k) \/ Rerun(k)
      PROVE  RunsOver'
  <2>1. CASE Checkout(k)
    <3>1. PICK n \in Nat : DOMAIN tags = 1..n
      BY DEF RInv, Counted
    <3>2. [at |-> "codegen", seen |-> Latest] \in Run
      BY <3>1, LatestIsLast DEF Run
    <3> QED BY <2>1, <3>2, RunsOverMoves DEF Checkout
  <2>2. ASSUME NEW where \in {"passed", "push", "broken", "queued"}, Goto(k, where), UNCHANGED main
        PROVE  RunsOver'
    <3> DEFINE r == [runs[k] EXCEPT !.at = where]
    <3>1. r \in Run /\ r.at = where
      BY <1>0 DEF Run
    <3>2. runs' = [runs EXCEPT ![k] = r]
      BY <2>2 DEF Goto
    <3> HIDE DEF r
    <3> QED BY <2>2, <3>1, <3>2, RunsOverMoves
  <2> QED BY <1>2, <2>1, <2>2 DEF Codegen, Finish, Break, Rerun
<1>3. ASSUME NEW k \in DOMAIN main, (Push(k) /\ Len(main) # k) \/ Tag(k)
      PROVE  RunsOver'
  <2>1. PICK where \in {"rejected", "tagged"} : Goto(k, where)
    BY <1>3 DEF Push, Tag
  <2> UNCHANGED main
    BY <1>3 DEF Push, Tag
  <2>2. where = "rejected" => k < Len(main)
    <3>1. CASE Push(k) /\ Len(main) # k
      BY <1>0, <3>1
    <3>2. CASE Tag(k)
      <4>1. k + 1 \in DOMAIN main
        BY <3>2 DEF Tag, RInv, RunsOK, RunOK
      <4> QED BY <1>0, <4>1
    <3> QED BY <1>3, <3>1, <3>2
  <2> DEFINE r == [runs[k] EXCEPT !.at = where]
  <2>3. r \in Run /\ r.at = where
    BY <1>0 DEF Run
  <2>4. runs' = [runs EXCEPT ![k] = r]
    BY <2>1 DEF Goto
  <2> HIDE DEF r
  <2> QED BY <1>3, <2>2, <2>3, <2>4, RunsOverMoves
<1>4. ASSUME NEW k \in DOMAIN main, Push(k), Len(main) = k
      PROVE  RunsOver'
  <2> DEFINE c == Regenerated(main[k])
             r == [runs[k] EXCEPT !.at = "tag"]
             moved == [runs EXCEPT ![k] = r]
             s == [at |-> "skipped", seen |-> 0]
  <2>1. c \in Commit /\ InSync(c) /\ r \in Run /\ r.at = "tag" /\ s \in Run
    BY <1>0 DEF Regenerated, Commit, Run, InSync
  <2>2. main' = Append(main, c) /\ runs' = Append(moved, s)
    BY <1>4 DEF Push, Advance
  <2>3. /\ moved \in Seq(Run) /\ Len(moved) = Len(main) /\ DOMAIN moved = DOMAIN main /\ moved[k] = r
        /\ \A j \in DOMAIN main : j # k => moved[j] = runs[j]
    BY <1>0, <2>1
  <2> HIDE DEF c, r, s, moved
  <2>4. /\ DOMAIN main' = DOMAIN main \union {k + 1} /\ Len(main') = Len(main) + 1
        /\ main'[k + 1] = c /\ \A j \in DOMAIN main : main'[j] = main[j]
    BY <1>0, <1>4, <2>1, <2>2, Appended
  <2>5. /\ runs'[k + 1] = s /\ runs'[k] = r
        /\ \A j \in DOMAIN main : j # k => runs'[j] = runs[j]
    BY <1>0, <1>4, <2>1, <2>2, <2>3, Appended
  <2>6. ASSUME NEW j \in DOMAIN main, j # k
        PROVE  /\ runs'[j].at = "skipped" => InSync(main'[j])
               /\ runs'[j].at = "rejected" => j < Len(main')
    BY <1>0, <2>4, <2>5, <2>6 DEF RunsOver, InSync
  <2>7. s.at = "skipped"
    BY DEF s
  <2> QED BY <1>0, <2>1, <2>4, <2>5, <2>6, <2>7 DEF RunsOver, InSync
<1>5. ASSUME NEW k \in DOMAIN main, NEW s \in Services, Dispatch(k, s) PROVE RunsOver'
  BY <1>5 DEF Dispatch, RunsOver, InSync
<1>6. CASE UNCHANGED vars
  BY <1>6 DEF vars, RunsOver, InSync
<1> QED BY <1>1, <1>2, <1>3, <1>4, <1>5, <1>6 DEF Next, Jobs, RunStep

(* The code of the last commit of main matches its sources, or its run is  *)
(* still going to see to it, or a step of that run broke; being overtaken  *)
(* never leaves main out of sync.                                          *)
THEOREM TipServedThm == Spec => []TipServed
<1>1. Init => RunsOver
  BY DEF Init, RunsOver, InSync
<1>2. RInv /\ RunsOver /\ [Next]_vars => RunsOver'
  BY RunsOverStep
<1>3. RInv /\ RunsOver => TipServed
  <2> SUFFICES ASSUME RInv, RunsOver, ~InSync(Tip)
               PROVE  runs[Len(main)].at \in {"queued", "codegen", "push", "broken"}
    BY DEF TipServed
  <2> DEFINE n == Len(main)
  <2>1. n \in DOMAIN main /\ n \in Nat /\ n + 1 \notin DOMAIN main
    BY DEF RInv, TypeOK
  <2>2. runs[n] \in Run /\ RunOK(n, runs[n])
    BY <2>1 DEF RInv, RunsOK, TypeOK
  <2>3. runs[n].at \notin {"tag", "tagged", "passed"}
    BY <2>1, <2>2 DEF RunOK, Tip
  <2>4. runs[n].at \notin {"skipped", "rejected"}
    BY <2>1 DEF RunsOver, Tip
  <2> QED BY <2>2, <2>3, <2>4 DEF Run
<1> QED BY <1>1, <1>2, <1>3, RInvariance, PTL DEF Spec

(* The steps a run may still take. *)
RunLeft ==
  [queued |-> 5, codegen |-> 4, push |-> 3, tag |-> 2, tagged |-> 1,
   passed |-> 0, rejected |-> 0, broken |-> 0, skipped |-> 0]

(* A run that moves has less left, or was started again. *)
RunsShrink ==
  \A k \in DOMAIN main :
    runs'[k].at # runs[k].at => RunLeft[runs'[k].at] < RunLeft[runs[k].at] \/ reruns' > reruns

(* Each step of a run brings it nearer to its end; only starting it again  *)
(* by hand gives it more to do.                                            *)
THEOREM RunsShrinkThm == Spec => [][RunsShrink]_runs
<1>1. RInv /\ [Next]_vars => [RunsShrink]_runs
  <2> SUFFICES ASSUME RInv, [Next]_vars PROVE [RunsShrink]_runs
    OBVIOUS
  <2> SUFFICES ASSUME NEW j \in DOMAIN main, runs'[j].at # runs[j].at, reruns' = reruns
               PROVE  RunLeft[runs'[j].at] < RunLeft[runs[j].at]
    <3>1. reruns' = reruns \/ reruns' > reruns
      <4>1. ASSUME NEW k, Rerun(k) PROVE reruns' > reruns
        <5>1. reruns \in Nat
          BY DEF RInv, TypeOK
        <5>2. reruns' = reruns + 1
          BY <4>1 DEF Rerun
        <5> QED BY <5>1, <5>2
      <4>2. Merge => UNCHANGED reruns
        BY DEF Merge
      <4>3. \A k : RunStep(k) \/ Break(k) => UNCHANGED reruns
        BY DEF RunStep, Checkout, Codegen, Push, Tag, Finish, Break
      <4>4. \A k, s : Dispatch(k, s) => UNCHANGED reruns
        BY DEF Dispatch
      <4>5. UNCHANGED vars => UNCHANGED reruns
        BY DEF vars
      <4> QED BY <4>1, <4>2, <4>3, <4>4, <4>5 DEF Next, Jobs
    <3> QED BY <3>1 DEF RunsShrink
  <2>0. /\ DOMAIN main = 1..Len(main) /\ Len(main) \in Nat /\ DOMAIN runs = DOMAIN main
        /\ Len(runs) = Len(main) /\ runs \in Seq(Run)
        /\ \A k \in DOMAIN main : runs[k] \in Run
    BY DEF RInv, TypeOK
  <2>1. ASSUME NEW k \in DOMAIN main, Checkout(k) PROVE RunLeft[runs'[j].at] < RunLeft[runs[j].at]
    BY <2>0, <2>1 DEF Checkout, RunLeft
  <2>2. ASSUME NEW k \in DOMAIN main, NEW where, Goto(k, where)
        PROVE  j = k /\ runs'[j].at = where
    BY <2>0, <2>2 DEF Goto, Run
  <2>3. ASSUME NEW k \in DOMAIN main, Codegen(k) PROVE RunLeft[runs'[j].at] < RunLeft[runs[j].at]
    BY <2>2, <2>3 DEF Codegen, RunLeft
  <2>4. ASSUME NEW k \in DOMAIN main, Push(k) PROVE RunLeft[runs'[j].at] < RunLeft[runs[j].at]
    <3>1. CASE Len(main) # k
      <4>1. Goto(k, "rejected") /\ runs[k].at = "push"
        BY <2>4, <3>1 DEF Push
      <4> QED BY <2>2, <4>1 DEF RunLeft
    <3>2. CASE Len(main) = k
      <4> DEFINE moved == [runs EXCEPT ![k].at = "tag"]
                 s == [at |-> "skipped", seen |-> 0]
      <4>1. runs' = Append(moved, s) /\ runs[k].at = "push"
        BY <2>4, <3>2 DEF Push, Advance
      <4>2. moved \in Seq(Run) /\ DOMAIN moved = DOMAIN main /\ s \in Run
        BY <2>0 DEF Run
      <4>3. moved[j].at = IF j = k THEN "tag" ELSE runs[j].at
        BY <2>0 DEF Run
      <4> HIDE DEF moved, s
      <4>4. runs'[j] = moved[j]
        BY <4>1, <4>2, Appended
      <4> QED BY <4>1, <4>3, <4>4 DEF RunLeft
    <3> QED BY <3>1, <3>2
  <2>5. ASSUME NEW k \in DOMAIN main, Tag(k) PROVE RunLeft[runs'[j].at] < RunLeft[runs[j].at]
    BY <2>2, <2>5 DEF Tag, RunLeft
  <2>6. ASSUME NEW k \in DOMAIN main, Finish(k) \/ Break(k)
        PROVE  RunLeft[runs'[j].at] < RunLeft[runs[j].at]
    BY <2>2, <2>6 DEF Finish, Break, RunLeft
  <2>7. ~Merge
    <3> SUFFICES ASSUME Merge PROVE FALSE
      OBVIOUS
    <3> DEFINE r == [at |-> "queued", seen |-> 0]
    <3>1. r \in Run /\ runs' = Append(runs, r)
      BY DEF Merge, Run
    <3> HIDE DEF r
    <3>2. runs'[j] = runs[j]
      BY <2>0, <3>1, Appended
    <3> QED BY <3>2
  <2>8. \A k : ~Rerun(k)
    BY DEF Rerun, RInv, TypeOK
  <2>9. ASSUME UNCHANGED runs PROVE FALSE
    BY <2>9
  <2> QED BY <2>1, <2>3, <2>4, <2>5, <2>6, <2>7, <2>8, <2>9 DEF Next, Jobs, RunStep, Dispatch, vars
<1> QED BY <1>1, RInvariance, PTL DEF Spec

================================================================================
