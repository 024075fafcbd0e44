--------------------------- MODULE MemoirWorkflow ---------------------------
(***************************************************************************)
(* The memoir agent's workflow on one run: the executor walks the frozen   *)
(* node list, the runner carries out the nodes, and the model answers what *)
(* it likes.  Two graphs are in use: up to 1.0.4 three model nodes with    *)
(* template fallbacks, from 1.0.5 on a bounded loop over the materials     *)
(* and a repair of missing material types.                                 *)
(*                                                                         *)
(* Everything the nodes compute is in the memory of one attempt; the       *)
(* checkpoint keeps only names of finished nodes, all of which may be run  *)
(* again, so a later attempt starts with the first node and an empty       *)
(* state.  What survives an attempt is the usage ledger (usage) and the    *)
(* published document.                                                     *)
(***************************************************************************)
EXTENDS Naturals, FiniteSets, Sequences, FiniteSetsExt, SequencesExt

CONSTANTS
    Cases,          \* [version, snapshot]: package versions and the canonical
                    \* material lists the run may be bound to, see Material
    BatchMax,       \* materials of a batch (_LOOP_BATCH_MAX_MATERIALS)
    OldRefMax,      \* references a node before 1.0.5 may use
    RouteCap,       \* tokens of a batch the route allows
    MaxCalls,       \* max_model_calls of the frozen policy
    MaxTokens,      \* max_tokens of the frozen policy
    Costs,          \* tokens a model call may be found to have used
    MaxScenes,      \* scenes in an answer of the model (bound)
    MaxAttempt,     \* execution attempts (bound)
    Faults          \* what the environment may do; see the actions

Types == {"diary", "completed_bet", "handbook_note"}
SummaryTypes == {"diary", "completed_bet"}
Material == [ref : STRING, type : Types, form : {"digest", "metadata", "none"}, size : Nat \ {0}]

ASSUME ConstantsAssumption ==
    /\ \A c \in Cases : /\ c.version \in {"1.0.4", "1.0.5", "1.0.8"}
                       /\ c.snapshot \in Seq(Material)
                       \* A reference names a row of the business tables.
                       /\ \A i, j \in DOMAIN c.snapshot :
                              c.snapshot[i].ref = c.snapshot[j].ref => i = j
    /\ {BatchMax, OldRefMax, RouteCap, MaxCalls, MaxTokens, MaxAttempt} \subseteq Nat \ {0}
    /\ Costs \subseteq Nat /\ MaxScenes \in Nat

VARIABLES
    case,       \* the member of Cases the run is bound to
    run,        \* [status, attempt]
    usage,      \* [text, images, tokens]: the run's rows in agent_model_usage
    pos,        \* where the attempt is: [at, step, shot]
    work,       \* AgentState and the executor's partial flag
    loop,       \* the runner's and the executor's variables of the loop
    published,  \* the scenes of the published revision, <<>> before
    leaked      \* an unsafe scene was sent to the image provider (history)

vars == <<case, run, usage, pos, work, loop, published, leaked>>

(* workflow.graph.py of the package versions that differ in control.       *)
Graph104 == <<"load", "sanitize", "stats", "highlights", "chapters", "scenes",
              "actions", "media", "safety", "publish">>
Graph105 == <<"load", "sanitize", "stats", "batches", "batch", "coverage",
              "actions", "media", "safety", "publish">>
Graph108 == <<"load", "sanitize", "stats", "batches", "batch", "coverage",
              "actions", "media", "safety", "audio", "publish">>
Graph == CASE case.version = "1.0.4" -> Graph104
           [] case.version = "1.0.5" -> Graph105
           [] case.version = "1.0.8" -> Graph108
Looped == case.version # "1.0.4"
Strict == case.version = "1.0.8"    \* 1.0.6 and later

Ended == {"succeeded", "partial", "failed", "cancelled"}
Fresh == [at |-> 1, step |-> "node", shot |-> 0]
NoWork == [material |-> <<>>, types |-> {}, picked |-> <<>>, scenes |-> <<>>,
           actions |-> <<>>, media |-> {}, doc |-> <<>>, partial |-> FALSE]
NoLoop == [cursor |-> 0, left |-> 0, errors |-> FALSE, exhausted |-> FALSE,
           first |-> {}, final |-> {}, read |-> {}, dropped |-> {}, mends |-> 0]

Init ==
    /\ case \in Cases
    /\ run = [status |-> "queued", attempt |-> 0]
    /\ usage = [text |-> 0, images |-> 0, tokens |-> 0]
    /\ pos = Fresh /\ work = NoWork /\ loop = NoLoop
    /\ published = <<>> /\ leaked = FALSE

(***************************************************************************)
(* Scenes.  What the nodes tell apart is the identifier, the kind, the     *)
(* references and whether the guardrails object to the body (harm).        *)
(***************************************************************************)
Scene(id, kind, refs, harm) == [id |-> id, kind |-> kind, refs |-> refs, harm |-> harm]
IdsOf(scenes) == {scenes[i].id : i \in DOMAIN scenes}
RefsOf(scenes) == UNION {scenes[i].refs : i \in DOMAIN scenes}
NextId(scenes) == 1 + Max({0} \cup IdsOf(scenes))
Base == [i \in 1 .. 3 |-> Scene(i, "summary", {}, FALSE)]

(* The elements of a list at some of its positions, in their order.        *)
Nth(positions, k) == CHOOSE i \in positions : Cardinality(positions \cap (1 .. i)) = k
Picks(list, positions) == [k \in 1 .. Cardinality(positions) |-> list[Nth(positions, k)]]

(* merge_unique_scenes: the first scene of an identifier stays.            *)
MergeUnique(scenes) ==
    Picks(scenes, {i \in DOMAIN scenes : \A j \in 1 .. i - 1 : scenes[j].id # scenes[i].id})

(* _rule_actions: one action for every scene, in the scenes' order.        *)
RuleActions(scenes) == [i \in DOMAIN scenes |-> scenes[i].id]

(***************************************************************************)
(* Materials.                                                              *)
(***************************************************************************)
Sanitized(m) ==
    [ref |-> m.ref, type |-> m.type, size |-> m.size, text |-> m.form = "digest",
     sensitive |-> m.form = "none" \/ (m.form = "metadata" /\ m.type \notin SummaryTypes)]
Texts == Picks(work.material, {i \in DOMAIN work.material :
                                 ~work.material[i].sensitive /\ work.material[i].text})
SafeRefs ==
    LET safe == Picks(work.material, {i \in DOMAIN work.material : ~work.material[i].sensitive})
        n == IF Looped THEN Len(safe) ELSE Min({Len(safe), OldRefMax})
    IN {safe[i].ref : i \in 1 .. n}
TypesOf(refs) == {case.snapshot[i].type :
                    i \in {j \in DOMAIN case.snapshot : case.snapshot[j].ref \in refs}}

(***************************************************************************)
(* A model call: refused or failed without an answer, or answered.  A      *)
(* rate-limited call is made again by the gateway and leaves two rows.     *)
(***************************************************************************)
Rows == usage.text + usage.images
Spent == Rows >= MaxCalls \/ usage.tokens >= MaxTokens
Permitted == Rows < MaxCalls /\ usage.tokens <= MaxTokens

Calls(answers) ==
    {[rows |-> 0, cost |-> 0, answered |-> FALSE, out |-> <<>>]}
    \cup {c \in [rows : 1 .. 2, cost : {0}, answered : {FALSE}, out : {<<>>}]
                \cup [rows : 1 .. 2, cost : Costs, answered : {TRUE}, out : answers] :
            /\ Permitted /\ c.rows <= MaxCalls - Rows
            /\ c.rows = 2 => "throttle" \in Faults}
Charged(u, c) == [u EXCEPT !.text = @ + c.rows, !.tokens = @ + c.cost]

(* What the model may write about the references it is given.              *)
Kinds == {"cover", "card", "summary"}
Foreign == "foreign"
Drafts(refs) ==
    UNION {[1 .. n -> [kind : Kinds, refs : {refs, {}, {Foreign}} \cup {{r} : r \in refs}]] :
            n \in 0 .. MaxScenes}

(* The scenes of a draft.  The last one may come under an identifier used  *)
(* before (clash) or with a body the guardrails object to (harm).          *)
Quirks == {"none", "clash", "harm"}
Named(draft, quirk) ==
    [i \in DOMAIN draft |->
        Scene(IF quirk = "clash" /\ i = Len(draft) /\ work.scenes # <<>>
              THEN work.scenes[1].id ELSE NextId(work.scenes) + i - 1,
              draft[i].kind, draft[i].refs, quirk = "harm" /\ i = Len(draft))]

(* _parse_batch_output.                                                    *)
InPlace(d, first, final) ==
    \A i \in DOMAIN d : /\ d[i].kind = "cover" => first /\ i = 1
                        /\ d[i].kind = "summary" => final /\ i = Len(d)
Accepted(d, refs, first, final) ==
    /\ \A i \in DOMAIN d : d[i].refs # {} /\ d[i].refs \subseteq refs
    /\ InPlace(d, first, final)
    /\ Strict /\ first => d # <<>> /\ d[1].kind = "cover"
    /\ Strict /\ final => d # <<>> /\ d[Len(d)].kind = "summary"

(***************************************************************************)
(* The executor.                                                           *)
(***************************************************************************)
At(step) == run.status = "running" /\ pos.step = step
Go(node) == At("node") /\ pos.at <= Len(Graph) /\ Graph[pos.at] = node
Advance == pos' = [Fresh EXCEPT !.at = pos.at + 1]

(* The attempt is over and its memory with it.                             *)
EndedAs(status) ==
    /\ run' = [run EXCEPT !.status = status]
    /\ pos' = Fresh /\ work' = NoWork /\ loop' = NoLoop
Failed == EndedAs("failed")

Claim ==
    /\ run.status = "queued"
    /\ run' = [status |-> "running", attempt |-> run.attempt + 1]
    /\ pos' = Fresh /\ work' = NoWork /\ loop' = NoLoop
    /\ UNCHANGED <<case, usage, published, leaked>>

(* The worker dies, loses its lease or drains: a later attempt starts over *)
(* with what the database holds.                                           *)
Requeue ==
    /\ "crash" \in Faults /\ run.status = "running" /\ run.attempt < MaxAttempt
    /\ EndedAs("queued")
    /\ UNCHANGED <<case, usage, published, leaked>>

(* A cancellation, a revoked package or authorisation, seen before a node  *)
(* or before a round of the loop; or the time budget, before a node.       *)
Stop ==
    /\ "stop" \in Faults
    /\ (At("node") /\ pos.at <= Len(Graph)) \/ At("rounds")
    /\ EndedAs("cancelled") \/ (At("node") /\ Failed)
    /\ UNCHANGED <<case, usage, published, leaked>>

(* load_snapshot, publish_document: the business side refuses, which the   *)
(* executor turns into the end of the run.                                 *)
ToolRefused ==
    /\ "tool" \in Faults
    /\ Go("load") \/ Go("publish")
    /\ Failed
    /\ UNCHANGED <<case, usage, published, leaked>>

(* load_snapshot and the two loop-free nodes that only pass on.            *)
PassThrough ==
    /\ Go("load") \/ Go("batch") \/ Go("audio")
    /\ Advance
    /\ UNCHANGED <<case, run, usage, work, loop, published, leaked>>

SanitizeMaterials ==
    /\ Go("sanitize") /\ Advance
    /\ work' = [work EXCEPT !.material = [i \in DOMAIN case.snapshot |-> Sanitized(case.snapshot[i])]]
    /\ UNCHANGED <<case, run, usage, loop, published, leaked>>

(* compute_stats counts the raw snapshot: a type is available even when    *)
(* nothing of it may be shown to the model.                                *)
ComputeStats ==
    /\ Go("stats") /\ Advance
    /\ work' = [work EXCEPT !.types = {case.snapshot[i].type : i \in DOMAIN case.snapshot}]
    /\ UNCHANGED <<case, run, usage, loop, published, leaked>>

(***************************************************************************)
(* The bounded loop.                                                       *)
(***************************************************************************)
BeginLoop ==
    /\ Go("batches")
    /\ IF Spent \/ Texts = <<>>
       THEN Failed
       ELSE /\ pos' = [pos EXCEPT !.step = "rounds"]
            /\ loop' = [NoLoop EXCEPT !.left = MaxCalls - Rows]
            /\ UNCHANGED <<run, work>>
    /\ UNCHANGED <<case, usage, published, leaked>>

(* The budget is recomputed before every round; a round may begin while    *)
(* something of it and of the number of rounds is left.                    *)
Within == ~Spent /\ loop.left > 0

NextRound ==
    /\ At("rounds") /\ Within
    /\ pos' = [pos EXCEPT !.step = "body"]
    /\ UNCHANGED <<case, run, usage, work, loop, published, leaked>>

Exhaust ==
    /\ At("rounds") /\ (~Within \/ "time" \in Faults)
    /\ loop' = [loop EXCEPT !.exhausted = TRUE]
    /\ pos' = [pos EXCEPT !.step = "closing"]
    /\ UNCHANGED <<case, run, usage, work, published, leaked>>

(* The batch of a round: materials are taken in order, as many as the      *)
(* batch and the token cap allow; one that is over the cap by itself is    *)
(* left out and the scan goes on behind it.                                *)
Cap == Min({RouteCap, MaxTokens - usage.tokens})
Fitting(c, e) == {i \in c + 1 .. e : Texts[i].size <= Cap}
SizeOf(batch) == MapThenSumSet(LAMBDA i : Texts[i].size, batch)
Takes(c, j) ==
    LET before == Fitting(c, j - 1) IN
    /\ Cardinality(before) < BatchMax
    /\ Texts[j].size > Cap \/ SizeOf(before) + Texts[j].size <= Cap
ScanEnd(c) == Max({e \in c .. Len(Texts) : \A j \in c + 1 .. e : Takes(c, j)})
TextRefs(is) == {Texts[i].ref : i \in is}
OverCap(c) == TextRefs((c + 1 .. ScanEnd(c)) \ Fitting(c, ScanEnd(c)))

Counted(l) == [l EXCEPT !.left = @ - 1]

(* A round that makes no call: the materials are used up, or everything    *)
(* the scan passed is over the cap.                                        *)
RoundWithoutCall ==
    /\ At("body")
    /\ \/ /\ loop.cursor = Len(Texts)
          /\ loop' = Counted(loop)
          /\ pos' = [pos EXCEPT !.step = "closing"]
       \/ /\ loop.cursor < Len(Texts) /\ Fitting(loop.cursor, ScanEnd(loop.cursor)) = {}
          /\ loop' = [Counted(loop) EXCEPT !.cursor = ScanEnd(@),
                                           !.dropped = @ \cup OverCap(loop.cursor)]
          /\ pos' = [pos EXCEPT !.step = "rounds"]
    /\ UNCHANGED <<case, run, usage, work, published, leaked>>

(* The loop's variables when the batch has been put together and, if the   *)
(* answer was accepted, when it has been taken over.  Before 1.0.6 the     *)
(* batch is used up before the call.                                       *)
Stashed(l, refs, first, final) ==
    [l EXCEPT !.first = IF first THEN refs ELSE @, !.final = IF final THEN refs ELSE @]
Consumed(l, refs) ==
    [l EXCEPT !.cursor = ScanEnd(loop.cursor), !.read = @ \cup refs,
              !.dropped = @ \cup OverCap(loop.cursor)]
SkippedSilently(l) ==      \* (mutant)
    [l EXCEPT !.cursor = IF Strict THEN @ ELSE ScanEnd(loop.cursor)]
SkippedFree(l) ==          \* (mutant)
    [l EXCEPT !.errors = TRUE, !.left = @ + 1, !.cursor = IF Strict THEN @ ELSE ScanEnd(loop.cursor)]
Skipped(l) ==
    [l EXCEPT !.errors = TRUE, !.cursor = IF Strict THEN @ ELSE ScanEnd(loop.cursor)]

Round ==
    /\ At("body") /\ loop.cursor < Len(Texts)
    /\ LET end   == ScanEnd(loop.cursor)
           refs  == TextRefs(Fitting(loop.cursor, end))
           first == work.scenes = <<>>
           final == end = Len(Texts)
           Begun == Stashed(Counted(loop), refs, first, final)
       IN /\ refs # {}
          /\ \E c \in Calls(Drafts(refs)) :
               /\ usage' = Charged(usage, c)
               /\ IF ~(c.answered /\ Accepted(c.out, refs, first, final))
                  THEN /\ loop' = Skipped(Begun)
                       /\ pos' = [pos EXCEPT !.step = "rounds"]
                       /\ UNCHANGED <<run, work>>
                  ELSE IF c.rows > 1
                  THEN Failed
                  ELSE /\ loop' = Consumed(Begun, refs)
                       /\ \E quirk \in Quirks :
                            work' = [work EXCEPT !.scenes = MergeUnique(@ \o Named(c.out, quirk))]
                       /\ pos' = [pos EXCEPT !.step = IF final THEN "closing" ELSE "rounds"]
                       /\ UNCHANGED run
    /\ UNCHANGED <<case, published, leaked>>

(* finalize_loop: _loop_structure_reason, _repair_loop_structure.          *)
Structure(scenes) ==
    CASE Len(scenes) < 3                        -> "few"
      [] scenes[1].kind # "cover"               -> "cover"
      [] scenes[Len(scenes)].kind # "summary"   -> "summary"
      [] OTHER                                  -> "complete"
Gap == Structure(work.scenes)
Stash == IF Gap = "summary" THEN loop.final ELSE loop.first
Mendable == Gap \in {"cover", "summary"} /\ loop.mends < 2 /\ Stash # {}

Mend ==
    /\ At("closing") /\ Mendable
    /\ \E c \in Calls(Drafts(Stash)) :
         /\ usage' = Charged(usage, c)
         /\ LET cards == {i \in DOMAIN c.out : c.out[i].kind = Gap}
            IN IF /\ c.answered /\ cards # {}
                  /\ Accepted(c.out, Stash, Gap = "cover", Gap = "summary")
               THEN /\ \E quirk \in Quirks :
                         LET card == Named(<<c.out[CHOOSE i \in cards : TRUE]>>, quirk)
                         IN work' = [work EXCEPT !.scenes = IF Gap = "cover" THEN card \o @
                                                            ELSE @ \o card]
                    /\ loop' = [loop EXCEPT !.mends = @ + 1]
                    /\ UNCHANGED <<run, pos>>
               ELSE Failed
    /\ UNCHANGED <<case, published, leaked>>

CloseLoop ==
    /\ At("closing") /\ ~Mendable
    /\ IF Gap = "complete"
       THEN /\ work' = [work EXCEPT !.partial = loop.exhausted \/ loop.errors]
            /\ Advance /\ UNCHANGED <<run, loop>>
       ELSE Failed
    /\ UNCHANGED <<case, usage, published, leaked>>

(***************************************************************************)
(* repair_coverage_gaps: one call for the material types no scene refers   *)
(* to; nothing is made up when it does not help.                           *)
(***************************************************************************)
Missing(scenes) == work.types \ TypesOf(RefsOf(scenes))
RepairRefs == {Texts[i].ref : i \in {j \in DOMAIN Texts : Texts[j].type \in Missing(work.scenes)}}
Repairable == \A t \in Missing(work.scenes) : \E i \in DOMAIN Texts : Texts[i].type = t
BeforeSummary(scenes, added) ==
    IF scenes[Len(scenes)].kind = "summary"
    THEN Front(scenes) \o added \o <<Last(scenes)>> ELSE scenes \o added
RepairAcceptedPartly(d) ==      \* (mutant)
    \A i \in DOMAIN d : d[i].kind = "card" /\ d[i].refs # {} /\ d[i].refs \subseteq RepairRefs
RepairAccepted(d) ==
    /\ \A i \in DOMAIN d : d[i].kind = "card" /\ d[i].refs # {} /\ d[i].refs \subseteq RepairRefs
    /\ Missing(work.scenes) \subseteq TypesOf(RefsOf(d))

RepairCoverage ==
    /\ Go("coverage")
    /\ \/ /\ Missing(work.scenes) = {}
          /\ Advance /\ UNCHANGED <<run, usage, work, loop>>
       \/ /\ Missing(work.scenes) # {} /\ ~Repairable
          /\ Failed /\ UNCHANGED usage
       \/ /\ Missing(work.scenes) # {} /\ Repairable
          /\ \E c \in Calls(Drafts(RepairRefs)) :
               /\ usage' = Charged(usage, c)
               /\ IF c.answered /\ RepairAccepted(c.out)
                  THEN /\ \E quirk \in Quirks \ {"clash"} :
                            work' = [work EXCEPT !.scenes = BeforeSummary(@, Named(c.out, quirk))]
                       /\ Advance /\ UNCHANGED <<run, loop>>
                  ELSE Failed
    /\ UNCHANGED <<case, published, leaked>>

(***************************************************************************)
(* The three model nodes of the graph before 1.0.5.  An answer that is     *)
(* not valid is sent back once for repair; without a valid answer the      *)
(* node goes on with a template.                                           *)
(***************************************************************************)
Asked(valid) ==
    Calls(valid)
    \cup {[p[1] EXCEPT !.rows = @ + 1, !.cost = @ + p[2]] :
            p \in {q \in Calls(valid) \X Costs :
                /\ Permitted /\ q[1].rows + 1 <= MaxCalls - Rows
                /\ q[1].rows > 0 => usage.tokens + q[2] <= MaxTokens}}
Picked == UNION {work.picked[i] : i \in DOMAIN work.picked}
TemplateScenes ==
    [i \in 1 .. 3 |-> Scene(i, "summary", IF i <= Len(work.picked) THEN work.picked[i] ELSE {}, FALSE)]

(* _valid_highlights, _valid_chapters, _valid_scenes: the answers that      *)
(* pass, with at most two chapters and three scenes of one kind.           *)
HighlightAnswers == {<<refs>> : refs \in SUBSET SafeRefs}
ChapterAnswers == UNION {[1 .. n -> SUBSET Picked] : n \in 1 .. 2}
SceneAnswers == {[i \in 1 .. 3 |-> s] : s \in [kind : {"card", "image"}, refs : SUBSET Picked]}

ExtractHighlights ==
    /\ Go("highlights") /\ Advance
    /\ \E c \in Asked(HighlightAnswers) :
         /\ usage' = Charged(usage, c)
         /\ work' = [work EXCEPT !.picked = IF c.answered THEN c.out ELSE <<SafeRefs>>]
    /\ UNCHANGED <<case, run, loop, published, leaked>>

PlanChapters ==
    /\ Go("chapters") /\ Advance
    /\ \E c \in Asked(ChapterAnswers) :
         /\ usage' = Charged(usage, c)
         /\ work' = [work EXCEPT !.picked = IF c.answered THEN c.out ELSE <<Picked>>]
    /\ UNCHANGED <<case, run, loop, published, leaked>>

GenerateScenes ==
    /\ Go("scenes") /\ Advance
    /\ \E c \in Asked(SceneAnswers) :
         /\ usage' = Charged(usage, c)
         /\ \E quirk \in Quirks \ {"clash"} :
              work' = [work EXCEPT !.scenes = IF c.answered THEN Named(c.out, quirk)
                                              ELSE TemplateScenes]
    /\ UNCHANGED <<case, run, loop, published, leaked>>

GenerateActions ==
    /\ Go("actions") /\ Advance
    /\ work' = [work EXCEPT !.actions = RuleActions(work.scenes)]
    /\ UNCHANGED <<case, run, usage, loop, published, leaked>>

(***************************************************************************)
(* The review: MemoirPlaybackEvaluator.evaluate and _is_safe_playback.     *)
(* Before the images are drawn (pending) an image scene needs none yet.    *)
(***************************************************************************)
ManifestValid(scenes, media) == media \subseteq IdsOf(scenes)
Reviewed(scenes, actions, media, pending) ==
    /\ Len(scenes) >= 3
    /\ Cardinality(IdsOf(scenes)) = Len(scenes)
    /\ \A i \in DOMAIN scenes : ~scenes[i].harm /\ scenes[i].refs \subseteq SafeRefs
    /\ actions = RuleActions(scenes)
    /\ ManifestValid(scenes, media)
    /\ ~pending => \A i \in DOMAIN scenes : scenes[i].kind = "image" => scenes[i].id \in media

(* An image scene without an image becomes a text card.                    *)
Degraded(scenes, media) ==
    [i \in DOMAIN scenes |->
        IF scenes[i].kind = "image" /\ scenes[i].id \notin media
        THEN [scenes[i] EXCEPT !.kind = "summary"] ELSE scenes[i]]
Shown(w, scenes, media) ==
    [w EXCEPT !.scenes = scenes, !.actions = RuleActions(scenes), !.media = media]

SendableAnyway == Len(work.scenes) >= 3      \* (mutant)
Sendable == Reviewed(work.scenes, work.actions, {}, TRUE)

(* enqueue_media_tasks: without a media service the image scenes become    *)
(* text cards; a document that is not safe to send is replaced.            *)
EnqueueMedia ==
    /\ Go("media")
    /\ \/ /\ work' = Shown(work, Degraded(work.scenes, {}), {})
          /\ Advance
       \/ /\ ~Sendable
          /\ work' = Shown(work, Base, {})
          /\ Advance
       \/ /\ Sendable
          /\ pos' = [pos EXCEPT !.step = "images", !.shot = 1]
          /\ UNCHANGED work
    /\ UNCHANGED <<case, run, usage, loop, published, leaked>>

(* One image: drawn or not, it leaves a row in the usage ledger (a failed  *)
(* write of the row is left out).  Of the manifest only the entries of     *)
(* image scenes are kept: the other scenes may do without.                 *)
Illustrate ==
    /\ At("images") /\ pos.shot <= Len(work.scenes)
    /\ LET scene == work.scenes[pos.shot] IN
         /\ \/ scene.kind = "image" /\ work' = [work EXCEPT !.media = @ \cup {scene.id}]
            \/ UNCHANGED work
         /\ leaked' = (leaked \/ scene.harm \/ ~(scene.refs \subseteq SafeRefs))
    /\ usage' = [usage EXCEPT !.images = @ + 1]
    /\ pos' = [pos EXCEPT !.shot = @ + 1]
    /\ UNCHANGED <<case, run, loop, published>>

(* All images are drawn, or the node's time is over and the rest is not.   *)
MediaDone ==
    /\ At("images") /\ (pos.shot > Len(work.scenes) \/ "time" \in Faults)
    /\ work' = Shown(work, Degraded(work.scenes, work.media), work.media)
    /\ Advance
    /\ UNCHANGED <<case, run, usage, loop, published, leaked>>

SafetyReview ==
    /\ Go("safety") /\ Advance
    /\ LET w == IF Reviewed(work.scenes, work.actions, work.media, FALSE)
                THEN work ELSE Shown(work, Base, {})
       IN work' = [w EXCEPT !.doc = w.scenes]
    /\ UNCHANGED <<case, run, usage, loop, published, leaked>>

(* publish_document: the revision of an earlier attempt is adopted.        *)
PublishDocument ==
    /\ Go("publish") /\ Advance
    /\ published' = IF published = <<>> THEN work.doc ELSE published
    /\ UNCHANGED <<case, run, usage, work, loop, leaked>>

Finish ==
    /\ At("node") /\ pos.at > Len(Graph)
    /\ run' = [run EXCEPT !.status = IF work.partial THEN "partial" ELSE "succeeded"]
    /\ UNCHANGED <<case, usage, pos, work, loop, published, leaked>>

Worker ==
    \/ Claim \/ PassThrough \/ SanitizeMaterials \/ ComputeStats
    \/ BeginLoop \/ NextRound \/ Exhaust \/ RoundWithoutCall \/ Round \/ Mend \/ CloseLoop \/ RepairCoverage
    \/ ExtractHighlights \/ PlanChapters \/ GenerateScenes \/ GenerateActions
    \/ EnqueueMedia \/ Illustrate \/ MediaDone \/ SafetyReview \/ PublishDocument \/ Finish

Next == Worker \/ Requeue \/ Stop \/ ToolRefused

Spec == Init /\ [][Next]_vars

(* A worker that holds the run goes on; a released or lapsed run is taken  *)
(* up again, which RunLedger is about.                                     *)
FairSpec == Spec /\ WF_vars(Worker)

(***************************************************************************)
(* Properties.                                                             *)
(***************************************************************************)
Refs == {case.snapshot[i].ref : i \in DOMAIN case.snapshot}
SceneSet == [id : Nat, kind : Kinds \cup {"image"}, refs : SUBSET Refs, harm : BOOLEAN]

(* Types, and the bounds that keep an attempt finite: the loop's rounds    *)
(* and the model calls stay within what the frozen policy grants the run.  *)
TypeOK ==
    /\ run.status \in {"queued", "running"} \cup Ended /\ run.attempt \in 0 .. MaxAttempt
    /\ usage.text \in 0 .. MaxCalls /\ usage.images \in Nat /\ usage.tokens \in Nat
    /\ pos.at \in 1 .. Len(Graph) + 1
    /\ loop.cursor \in 0 .. Len(case.snapshot) /\ loop.left \in 0 .. MaxCalls
    /\ \A i \in DOMAIN work.scenes : work.scenes[i] \in SceneSet
    /\ \A i \in DOMAIN published : published[i] \in SceneSet

(* From 1.0.5 on a published document is either the three base cards or    *)
(* has a scene for every material type of the snapshot, between a cover    *)
(* and a summary, whatever the model answered, dropped or repeated         *)
(* (finalize_loop, _repair_coverage_gaps, safety_review).                  *)
PublishedCovers ==
    Looped /\ published # <<>> /\ published # Base =>
        /\ {case.snapshot[i].type : i \in DOMAIN case.snapshot} = TypesOf(RefsOf(published))
        /\ published[1].kind = "cover" /\ published[Len(published)].kind = "summary"

(* Whatever the version, a published scene is not repeated, is harmless    *)
(* and refers only to materials the model was allowed to see               *)
(* (_parse_batch_output, evaluate, _is_safe_playback).                     *)
PublishedIsGrounded ==
    /\ Cardinality(IdsOf(published)) = Len(published)
    /\ \A i \in DOMAIN published :
         /\ ~published[i].harm
         /\ \A j \in DOMAIN case.snapshot : case.snapshot[j].ref \in published[i].refs =>
                ~Sanitized(case.snapshot[j]).sensitive

(* Nothing leaves for the image provider that the review would not let     *)
(* through to the player: the provider is called before safety_review.     *)
EgressIsSafe == ~leaked

(* Together, with the bounds: whatever leaves the agent is safe.           *)
PlaybackIsSafe == TypeOK /\ PublishedIsGrounded /\ EgressIsSafe

(* A run that ends as succeeded has put every material with a text before  *)
(* the model in a batch whose answer it took over, unless the material was *)
(* over the token cap; a batch that was skipped or never reached shows as  *)
(* partial (_bounded_loop_outcome, the candidate cursor of 1.0.6).         *)
SucceededReadEverything ==
    run.status = "succeeded" /\ Looped =>
        {Texts[i].ref : i \in DOMAIN Texts} \subseteq loop.read \cup loop.dropped

(* The loop does not run for ever on failed or refused rounds, and no      *)
(* node waits: every run ends.                                             *)
Terminates == <>(run.status \in Ended)

=============================================================================
