------------------------------ MODULE MusicTags ------------------------------
(***************************************************************************)
(* Album tags from MusicBrainz (_system/music-tagging): a plan and its     *)
(* application by hand, a daily job that does both, and a roll-back from a *)
(* snapshot. All of them load a file's tags, change them in memory and     *)
(* save the whole block; Ivan edits the same files. A file has its album,  *)
(* which decides whether it is touched, and its other fields as one. What  *)
(* MusicBrainz answers is cached, a search apart from the releases of each *)
(* recording it found, and the release groups are chosen from them all.    *)
(***************************************************************************)
EXTENDS Integers, FiniteSets

CONSTANTS
  Song,        \* files of the library, each of its own artist and title
  Recording, Release, ReleaseGroup,  \* of MusicBrainz
  Passing,     \* song -> the recordings that pass its confidence gate
  GroupOf,     \* release -> its release group
  RankOf, DateOf,  \* release group -> its rank, first release
  Answers,     \* bound on what MusicBrainz answers: song -> sets of recordings, recording -> sets of releases
  Allowed,     \* ALLOWED_RANKS, and the --ranks of apply.py
  MissTtl,     \* MISS_TTL_DAYS
  LastDay, MaxTouches, MaxTrips  \* bounds on days, on edits by Ivan, on failures

ASSUME MusicNumbers == {MissTtl, LastDay, MaxTouches, MaxTrips} \subseteq Nat
ASSUME MusicReleases ==
  /\ IsFiniteSet(Recording) /\ IsFiniteSet(Release) /\ GroupOf \in [Release -> ReleaseGroup]
  /\ \A g \in ReleaseGroup : RankOf[g] \in 1..5 /\ DateOf[g] \in Nat
  /\ {"empty", "ivan", "none"} \cap ReleaseGroup = {}
ASSUME MusicAnswers ==
  /\ Passing \in [Song -> SUBSET Recording]
  /\ \A s \in Song : Answers[s] \subseteq SUBSET Recording
  /\ \A k \in Recording : Answers[k] \subseteq SUBSET Release

VARIABLES
  today, touches, trips,
  cache,     \* mb_cache.sqlite: song -> its search, recording -> its releases; what was found, and the day
  tags,      \* song -> album and other fields: "empty", "ivan" or a release group
  before,    \* song -> its tags in the snapshot (diagnose.py), or "none"
  plan,      \* song -> the release group of its row with action fill, or "none"
  hand,      \* the tool run by hand: apply.py on a file
  daily,     \* the daily job
  unscanned, \* songs changed by the daily job since Navidrome scanned
  owed,      \* history: of these, the ones a run left that failed
  answers    \* history: song -> "open"; after a release group was chosen "same", and "moved" when they change after that

music == <<today, touches, trips, answers, cache, tags, before, plan, hand, daily, unscanned, owed>>

Empty(v) == v = "empty"
Resting == [at |-> "idle"]
NoAnswer == [found |-> {}, day |-> -1]
NoTags == [album |-> "none", other |-> "none"]

MtInit ==
  /\ today = 0 /\ touches = 0 /\ trips = 0 /\ answers = [s \in Song |-> "open"]
  /\ cache = [k \in Song \cup Recording |-> NoAnswer]
  /\ tags = [s \in Song |-> [album |-> "empty", other |-> "empty"]]
  /\ before = [s \in Song |-> NoTags] /\ plan = [s \in Song |-> "none"]
  /\ hand = Resting /\ daily = Resting /\ unscanned = {} /\ owed = {}

---------------------------------------------------------------------------
(* matching.py, mb_client.py *)

\* A pool is a set of pairs, of a recording and a release of it. release_count counts the pairs.
Groups(pool) == {GroupOf[p[2]] : p \in pool}
Count(pool, g) == Cardinality({p \in pool : GroupOf[p[2]] = g})
BestRank(pool) == {g \in Groups(pool) : \A q \in Groups(pool) : RankOf[g] <= RankOf[q]}
Earliest(pool) == {g \in BestRank(pool) : \A q \in BestRank(pool) : DateOf[g] <= DateOf[q]}

\* Mutant: the tie-break by the number of releases goes to the first one.
Chosen_First(pool) == IF pool = {} THEN "none" ELSE CHOOSE g \in Earliest(pool) : TRUE

\* choose_release_group: the best rank, in it the earliest, then the one of most releases; a tie is left alone.
Chosen(pool) ==
  LET most == {g \in Earliest(pool) : \A q \in Earliest(pool) : Count(pool, g) >= Count(pool, q)}
  IN  IF \E g \in most : most = {g} THEN CHOOSE g \in most : TRUE ELSE "none"

\* What was found stays for ever, also recordings that fail the gate; a miss stays for MISS_TTL_DAYS.
InForce(k) == cache[k] # NoAnswer /\ (cache[k].found # {} \/ today - cache[k].day < MissTtl)

\* pooled_release_groups: the releases of the recordings that were found and pass the gate
Hits(s) == cache[s].found \cap Passing[s]
Pool(s) == {p \in Hits(s) \X Release : p[2] \in cache[p[1]].found}
Answered(s) == InForce(s) /\ \A r \in Hits(s) : InForce(r)

AnswersMove ==
  answers' = [s \in Song |-> IF answers[s] = "same" /\ Pool(s)' # Pool(s) THEN "moved" ELSE answers[s]]
Chooses(s, g) == answers' = IF g # "none" /\ answers[s] = "open" THEN [answers EXCEPT ![s] = "same"] ELSE answers

\* apply_one, match_and_write: the album, and the other fields where they are empty
Filled(image, r) == [album |-> r, other |-> IF Empty(image.other) THEN r ELSE image.other]

---------------------------------------------------------------------------
(* Days, MusicBrainz, Ivan *)

DayPasses ==
  /\ today < LastDay /\ today' = today + 1
  /\ UNCHANGED <<touches, trips, answers, cache, tags, before, plan, hand, daily, unscanned, owed>>

\* search_recordings, releases_for_recording, of plan.py or of the daily job: MusicBrainz is asked, and its answer cached.
\* When both ask at the same time, the later answer replaces the other, even a hit.
AskedFor(s) == Empty(tags[s].album) \/ (daily.at = "match" /\ s \in daily.todo)
Overlapped(k) == daily.at = "match" /\ cache[k].day = today

Asks(k) ==
  /\ \E s \in Song : AskedFor(s) /\ (k = s \/ k \in Hits(s))
  /\ ~InForce(k) \/ Overlapped(k)
  /\ \E found \in Answers[k] : cache' = [cache EXCEPT ![k] = [found |-> found, day |-> today]]
  /\ AnswersMove
  /\ UNCHANGED <<today, touches, trips, tags, before, plan, hand, daily, unscanned, owed>>

\* A run that holds an image of the file will save it over this edit.
Crossed(p, s) == IF p.at = "save" /\ p.song = s THEN [p EXCEPT !.crossed = TRUE] ELSE p

Touch(s, field, v) ==
  /\ touches < MaxTouches /\ touches' = touches + 1 /\ tags[s][field] # v
  /\ tags' = [tags EXCEPT ![s] = [@ EXCEPT ![field] = v]]
  /\ hand' = Crossed(hand, s) /\ daily' = Crossed(daily, s)
  /\ UNCHANGED <<today, trips, answers, cache, before, plan, unscanned, owed>>

\* Ivan changes the title or the artist, for which there is no answer yet.
Retitles(s) ==
  /\ touches < MaxTouches /\ touches' = touches + 1
  /\ cache' = [cache EXCEPT ![s] = NoAnswer] /\ AnswersMove
  /\ hand' = Crossed(hand, s) /\ daily' = Crossed(daily, s)
  /\ UNCHANGED <<today, trips, tags, before, plan, unscanned, owed>>

---------------------------------------------------------------------------
(* Run by hand: diagnose.py, plan.py, apply.py, rollback.py *)

Snapshot ==
  /\ before = [s \in Song |-> NoTags] /\ before' = tags
  /\ UNCHANGED <<today, touches, trips, answers, cache, tags, plan, hand, daily, unscanned, owed>>

Plans(s) ==
  /\ hand = Resting /\ Empty(tags[s].album) /\ Answered(s)
  /\ plan' = [plan EXCEPT ![s] = Chosen(Pool(s))] /\ Chooses(s, Chosen(Pool(s)))
  /\ UNCHANGED <<today, touches, trips, cache, tags, before, hand, daily, unscanned, owed>>

\* The rows of the ranks that were approved, if the album is empty still.
Loads(s) == hand = Resting /\ plan[s] # "none" /\ RankOf[plan[s]] \in Allowed /\ Empty(tags[s].album)

ApplyLoads(s) ==
  /\ Loads(s) /\ hand' = [at |-> "save", song |-> s, image |-> Filled(tags[s], plan[s]), crossed |-> FALSE]
  /\ UNCHANGED <<today, touches, trips, answers, cache, tags, before, plan, daily, unscanned, owed>>

FileSaved(p) == tags' = [tags EXCEPT ![p.song] = p.image]

ApplySaves ==
  /\ hand.at = "save" /\ FileSaved(hand) /\ hand' = Resting /\ daily' = Crossed(daily, hand.song)
  /\ UNCHANGED <<today, touches, trips, answers, cache, before, plan, unscanned, owed>>

\* restore_one
RollsBack(s) ==
  /\ hand = Resting /\ before[s] # NoTags /\ tags[s] # before[s]
  /\ tags' = [tags EXCEPT ![s] = before[s]] /\ daily' = Crossed(daily, s)
  /\ UNCHANGED <<today, touches, trips, answers, cache, before, plan, hand, unscanned, owed>>

---------------------------------------------------------------------------
(* daily_tag.py *)

DailyStarts ==
  /\ daily = Resting /\ daily' = [at |-> "match", todo |-> {s \in Song : Empty(tags[s].album)}, wrote |-> FALSE]
  /\ UNCHANGED <<today, touches, trips, answers, cache, tags, before, plan, hand, unscanned, owed>>

\* A file is matched, and when it is sure and of an approved rank, loaded; its album must be empty still.
DailyMatches(s) ==
  /\ daily.at = "match" /\ s \in daily.todo /\ Answered(s)
  /\ LET g == Chosen(Pool(s))
         left == daily.todo \ {s}
     IN  /\ daily' = IF g # "none" /\ RankOf[g] \in Allowed /\ Empty(tags[s].album)
                     THEN [at |-> "save", song |-> s, image |-> Filled(tags[s], g), crossed |-> FALSE,
                           todo |-> left, wrote |-> daily.wrote]
                     ELSE [daily EXCEPT !.todo = left]
         /\ Chooses(s, g)
  /\ UNCHANGED <<today, touches, trips, cache, tags, before, plan, hand, unscanned, owed>>

DailySaves ==
  /\ daily.at = "save" /\ FileSaved(daily) /\ unscanned' = unscanned \cup {daily.song}
  /\ daily' = [at |-> "match", todo |-> daily.todo, wrote |-> TRUE] /\ hand' = Crossed(hand, daily.song)
  /\ UNCHANGED <<today, touches, trips, answers, cache, before, plan, owed>>

\* All files done: Navidrome scans when something was written.
DailyEnds ==
  /\ daily.at = "match" /\ daily.todo = {} /\ daily' = Resting
  /\ IF daily.wrote THEN unscanned' = {} /\ owed' = {} ELSE UNCHANGED <<unscanned, owed>>
  /\ UNCHANGED <<today, touches, trips, answers, cache, tags, before, plan, hand>>

\* MusicBrainz does not answer, the scan fails, or the job is killed: what was written waits for the
\* scan of a later run that writes something.
DailyFails ==
  /\ daily # Resting /\ trips < MaxTrips /\ trips' = trips + 1 /\ daily' = Resting /\ owed' = unscanned
  /\ UNCHANGED <<today, touches, answers, cache, tags, before, plan, hand, unscanned>>

MtNext ==
  \/ DayPasses \/ Snapshot \/ ApplySaves \/ DailyStarts \/ DailySaves \/ DailyEnds \/ DailyFails
  \/ \E s \in Song :
       \/ Retitles(s) \/ Plans(s) \/ ApplyLoads(s) \/ RollsBack(s) \/ DailyMatches(s)
       \/ \E field \in {"album", "other"}, v \in {"empty", "ivan"} : Touch(s, field, v)
  \/ \E k \in Song \cup Recording : Asks(k)

MtSpec == MtInit /\ [][MtNext]_music

---------------------------------------------------------------------------
(* Properties *)

Value == {"empty", "ivan"} \cup ReleaseGroup

MtTypeOK ==
  /\ today \in 0..LastDay /\ touches \in 0..MaxTouches /\ trips \in 0..MaxTrips /\ owed \subseteq unscanned
  /\ \A s \in Song : tags[s] \in [album : Value, other : Value] /\ plan[s] \in ReleaseGroup \cup {"none"}
  /\ \A k \in Song \cup Recording : cache[k].day <= today

\* apply.py: "never overwrites anything Ivan or an earlier pass already set". So it is but for an
\* edit that falls between the load of a file and its save (and a roll-back, which restores).
SetIsKept ==
  \A s \in Song, field \in {"album", "other"} :
    ~Empty(tags[s][field]) /\ tags'[s][field] # tags[s][field] =>
      \/ touches' # touches \/ tags'[s] = before[s]
      \/ \E p \in {hand, daily} : p.at = "save" /\ p.song = s /\ p.crossed

\* Album and ids of a file are of one release group, although the album may be emptied and filled again:
\* "a real match doesn't go stale" (mb_client.py). Not so for a song whose answers moved after one was chosen:
\* a recording that had no releases is asked again after 30 days, and then others may be chosen.
OneRelease ==
  \A s \in Song :
    answers[s] # "moved" /\ {tags[s].album, tags[s].other} \subseteq ReleaseGroup => tags[s].album = tags[s].other

\* "genuinely ambiguous, don't guess" (matching.py): a release group that was written is of an
\* approved rank, and of those that were found no other is of a better rank, or of the same one and
\* earlier, or as early with as many releases.
Better(pool, q, g) ==
  \/ RankOf[q] < RankOf[g]
  \/ RankOf[q] = RankOf[g] /\ (DateOf[q] < DateOf[g] \/ (DateOf[q] = DateOf[g] /\ Count(pool, q) >= Count(pool, g)))
WrittenIsBest ==
  \A s \in Song : tags[s].album \in ReleaseGroup =>
    /\ RankOf[tags[s].album] \in Allowed
    /\ answers[s] # "moved" =>
         LET pool == Pool(s) IN \A q \in Groups(pool) \ {tags[s].album} : ~Better(pool, q, tags[s].album)

\* "A Navidrome full scan runs only if at least one file was actually changed" (daily_tag.py), and
\* then it does, but for a run that failed after it wrote: those files wait for another change.
ChangedIsScanned == daily = Resting => unscanned \subseteq owed

\* The tags of a file fit together and are the best known, and what was changed gets scanned.
MusicTagsSafe ==
  /\ MtTypeOK
  /\ OneRelease
  /\ WrittenIsBest
  /\ ChangedIsScanned
=============================================================================
