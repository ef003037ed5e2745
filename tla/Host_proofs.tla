----------------------------- MODULE Host_proofs -----------------------------
(***************************************************************************)
(* Proofs about the programs of the host that share no state, for any      *)
(* songs, releases, hosts, threads, timetables and bounds. Each has its    *)
(* inductive invariant (HostInvariants); MCHost, of which one of them      *)
(* moves, inherits it.                                                     *)
(***************************************************************************)
EXTENDS HostInvariants, FiniteSetTheorems, WellFoundedInduction, TLAPS

-----------------------------------------------------------------------------
(* One program moves, and it takes its own steps.                          *)

\* In a behaviour the program that moves stays the same, and its steps are those of its specification.
LEMMA PartStarts ==
  HostInit =>
    /\ part = "relay" => RelayInit
    /\ part = "notify" => NotifyInit
    /\ part = "vacuumAlerts" => VaInit
    /\ part = "plugAlerts" => PlugInit
    /\ part = "watchers" => WatchInit
    /\ part = "updates" => UpdInit
    /\ part = "music" => MtInit
  BY Zenon DEF HostInit

LEMMA PartMoves ==
  [HostNext]_hostVars =>
    /\ part' = part
    /\ part = "relay" => [RelayNext]_relayVars
    /\ part = "notify" => [NotifyNext]_notifyVars
    /\ part = "vacuumAlerts" => [VaNext]_vaVars
    /\ part = "plugAlerts" => [PlugNext]_plugVars
    /\ part = "watchers" => [WatchNext]_watchVars
    /\ part = "updates" => [UpdNext]_updVars
    /\ part = "music" => [MtNext]_music
<1> SUFFICES ASSUME [HostNext]_hostVars
             PROVE  /\ part' = part
                    /\ part = "relay" => [RelayNext]_relayVars
                    /\ part = "notify" => [NotifyNext]_notifyVars
                    /\ part = "vacuumAlerts" => [VaNext]_vaVars
                    /\ part = "plugAlerts" => [PlugNext]_plugVars
                    /\ part = "watchers" => [WatchNext]_watchVars
                    /\ part = "updates" => [UpdNext]_updVars
                    /\ part = "music" => [MtNext]_music
  OBVIOUS
<1>1. CASE UNCHANGED hostVars
  BY <1>1, Zenon DEF hostVars
<1>2. CASE HostNext
  BY <1>2 DEF HostNext
<1> QED
  BY <1>1, <1>2

-----------------------------------------------------------------------------
(* MusicTags: the tags of the files.                                       *)

\* A pool is of recordings and releases, so its releases can be counted.
LEMMA PoolIsFinite ==
  ASSUME NEW s \in Song
  PROVE  Pool(s) \in SUBSET (Recording \X Release)
  BY MusicAnswers DEF Pool, Hits

LEMMA PoolsCount ==
  ASSUME NEW pool \in SUBSET (Recording \X Release)
  PROVE  /\ Groups(pool) \subseteq ReleaseGroup
         /\ \A g : Count(pool, g) \in Nat
<1>1. Groups(pool) \subseteq ReleaseGroup
  BY MusicReleases DEF Groups
<1>2. IsFiniteSet(Recording \X Release)
  BY FS_Product, MusicReleases
<1>3. ASSUME NEW g PROVE Count(pool, g) \in Nat
  <2>1. IsFiniteSet({p \in pool : GroupOf[p[2]] = g})
    BY <1>2, FS_Subset
  <2> QED
    BY <2>1, FS_CardinalityType DEF Count
<1> QED
  BY <1>1, <1>3

\* A decision is for a release group that was found, and that no other one is better than.
LEMMA ChosenIsBest ==
  ASSUME NEW pool \in SUBSET (Recording \X Release)
  PROVE  /\ Chosen(pool) \in Groups(pool) \cup {"none"} /\ Chosen(pool) \in ReleaseGroup \cup {"none"}
         /\ Chosen(pool) # "none" => \A q \in Groups(pool) \ {Chosen(pool)} : ~Better(pool, q, Chosen(pool))
<1> DEFINE groups == Groups(pool)
<1>0. /\ groups \subseteq ReleaseGroup
      /\ \A r \in groups : RankOf[r] \in Int /\ DateOf[r] \in Int /\ Count(pool, r) \in Int
  <2>1. \A r \in ReleaseGroup : RankOf[r] \in 1..5 /\ DateOf[r] \in Nat
    BY MusicReleases, Zenon
  <2> QED
    BY <2>1, PoolsCount
<1> DEFINE best  == BestRank(pool)
           early == Earliest(pool)
           most  == {r \in early : \A q \in early : Count(pool, r) >= Count(pool, q)}
<1>1. Chosen(pool) = IF \E r \in most : most = {r} THEN CHOOSE r \in most : TRUE ELSE "none"
  BY DEF Chosen
<1>b. best = {r \in groups : \A q \in groups : RankOf[r] <= RankOf[q]}
  BY DEF BestRank
<1>e. early = {r \in best : \A q \in best : DateOf[r] <= DateOf[q]}
  BY DEF Earliest
<1> HIDE DEF groups, best, early
<1>2. CASE ~\E r \in most : most = {r}
  BY <1>1, <1>2
<1>3. CASE \E r \in most : most = {r}
  <2>1. PICK r \in most : most = {r}
    BY <1>3
  <2>2. Chosen(pool) = r
    BY <1>1, <2>1
  <2>3. r \in groups /\ r \in best /\ r \in early
    BY <1>b, <1>e
  <2>4. ASSUME NEW q \in groups, q # r, Better(pool, q, r) PROVE FALSE
    <3>1. /\ RankOf[q] \in Int /\ DateOf[q] \in Int /\ Count(pool, q) \in Int
          /\ RankOf[r] \in Int /\ DateOf[r] \in Int /\ Count(pool, r) \in Int
      BY <2>3, <1>0
    <3>2. RankOf[q] = RankOf[r] /\ q \in best
      <4>1. RankOf[r] <= RankOf[q]
        BY <2>3, <1>b
      <4>2. RankOf[q] = RankOf[r]
        BY <4>1, <3>1, <2>4 DEF Better
      <4> QED
        BY <4>2, <2>3, <1>b
    <3>3. DateOf[q] = DateOf[r] /\ q \in early
      <4>1. DateOf[r] <= DateOf[q]
        BY <2>3, <3>2, <1>e
      <4>2. DateOf[q] = DateOf[r]
        BY <4>1, <3>1, <3>2, <2>4 DEF Better
      <4> QED
        BY <4>2, <3>2, <2>3, <1>e
    <3>4. Count(pool, q) >= Count(pool, r)
      BY <3>1, <3>2, <3>3, <2>4 DEF Better
    <3>5. \A u \in early : Count(pool, r) >= Count(pool, u) /\ Count(pool, u) \in Int
      BY <1>0, <2>3, <1>b, <1>e
    <3>6. q \in most
      BY <3>1, <3>3, <3>4, <3>5
    <3> QED
      BY <3>6, <2>1, <2>4
  <2> QED
    BY <2>2, <2>3, <2>4, <1>0 DEF groups
<1> QED
  BY <1>2, <1>3

LEMMA MusicNats == MissTtl \in Nat /\ LastDay \in Nat /\ MaxTouches \in Nat /\ MaxTrips \in Nat
  BY MusicNumbers, Zenon

\* No release group is the empty tag, an edit of Ivan's, or "none".
LEMMA NamesDiffer == "empty" \notin ReleaseGroup /\ "ivan" \notin ReleaseGroup /\ "none" \notin ReleaseGroup
  BY MusicReleases, Zenon

LEMMA MtStarts == MtInit => MtInv
<1> SUFFICES ASSUME MtInit PROVE MtInv
  OBVIOUS
<1>0. /\ today = 0 /\ touches = 0 /\ trips = 0 /\ answers = [s \in Song |-> "open"]
      /\ cache = [k \in Song \cup Recording |-> NoAnswer] /\ tags = [s \in Song |-> [album |-> "empty", other |-> "empty"]]
      /\ before = [s \in Song |-> NoTags] /\ plan = [s \in Song |-> "none"]
      /\ hand = Resting /\ daily = Resting /\ unscanned = {} /\ owed = {}
  BY Zenon DEF MtInit
<1>1. MtTypes
  <2>1. today \in 0..LastDay /\ touches \in 0..MaxTouches /\ trips \in 0..MaxTrips
    BY <1>0, MusicNats
  <2>2. tags \in [Song -> Image] /\ before \in [Song -> Image \cup {NoTags}]
    BY <1>0 DEF Image, Value
  <2>3. NoAnswer \in CachedAnswer /\ NoAnswer.day = -1
    BY DEF CachedAnswer, NoAnswer
  <2>4. cache \in [Song \cup Recording -> CachedAnswer] /\ \A k \in Song \cup Recording : cache[k] = NoAnswer
    BY <1>0, <2>3
  <2>5. \A k \in Song \cup Recording : cache[k].day <= today
    BY <1>0, <2>3, <2>4
  <2>6. answers \in [Song -> {"open", "same", "moved"}] /\ plan \in [Song -> ReleaseGroup \cup {"none"}]
    BY <1>0
  <2>7. hand \in HandRun /\ daily \in DailyRun
    BY <1>0 DEF HandRun, DailyRun
  <2> QED
    BY <2>1, <2>2, <2>4, <2>5, <2>6, <2>7 DEF MtTypes
<1>2. SoundTags
  BY <1>0, NamesDiffer DEF SoundTags, Sound, FromAnswer, Approved, NoTags, Resting
<1>3. LoadedKeeps /\ ScanOwed
  BY <1>0 DEF LoadedKeeps, ScanOwed, Resting
<1> QED
  BY <1>1, <1>2, <1>3 DEF MtInv

\* What Crossed makes of a run under way.
LEMMA CrossedRuns ==
  ASSUME NEW p, NEW s, p \in HandRun \/ p \in DailyRun
  PROVE  /\ p \in HandRun => Crossed(p, s) \in HandRun
         /\ p \in DailyRun => Crossed(p, s) \in DailyRun
         /\ Crossed(p, s).at = p.at /\ (Crossed(p, s) = Resting <=> p = Resting)
         /\ p.at = "save" => /\ Crossed(p, s).song = p.song /\ Crossed(p, s).image = p.image
                             /\ Crossed(p, s).crossed <=> (p.crossed \/ p.song = s)
         /\ p \in DailyRun /\ p # Resting => Crossed(p, s).wrote = p.wrote
<1>1. CASE ~(p.at = "save" /\ p.song = s)
  <2>1. Crossed(p, s) = p
    BY <1>1 DEF Crossed
  <2>2. p.at = "save" => p.crossed \in BOOLEAN
    BY DEF HandRun, DailyRun, Resting
  <2> QED
    BY <1>1, <2>1, <2>2
<1>2. CASE p.at = "save" /\ p.song = s
  <2>1. Crossed(p, s) = [p EXCEPT !.crossed = TRUE]
    BY <1>2 DEF Crossed
  <2>2. CASE p \in HandRun
    <3>1. p \in [at : {"save"}, song : Song, image : Image, crossed : BOOLEAN]
      BY <1>2, <2>2 DEF HandRun, Resting
    <3> QED
      BY <1>2, <2>1, <3>1 DEF HandRun, DailyRun, Resting
  <2>3. CASE p \in DailyRun
    <3>1. p \in [at : {"save"}, song : Song, image : Image, crossed : BOOLEAN, todo : SUBSET Song, wrote : BOOLEAN]
      BY <1>2, <2>3 DEF DailyRun, Resting
    <3> QED
      BY <1>2, <2>1, <3>1 DEF HandRun, DailyRun, Resting
  <2> QED
    BY <2>2, <2>3
<1> QED
  BY <1>1, <1>2

LEMMA FilledImage ==
  ASSUME NEW image \in Image, NEW r \in ReleaseGroup, Empty(image.album)
  PROVE  Filled(image, r) \in Image /\ Keeps(Filled(image, r), image)
  BY DEF Filled, Image, Value, Keeps, Empty

\* Whoever asks or changes a title leaves a well-formed cache, and says which answers moved.
LEMMA AnswersAreCached ==
  ASSUME MtTypes, (\E k \in Song \cup Recording : Asks(k)) \/ (\E s \in Song : Retitles(s))
  PROVE  /\ cache' \in [Song \cup Recording -> CachedAnswer]
         /\ \A k \in Song \cup Recording : cache'[k].day <= today
         /\ AnswersMove /\ answers' \in [Song -> {"open", "same", "moved"}]
<1>1. ASSUME NEW k \in Song \cup Recording, NEW a \in CachedAnswer, a.day <= today, cache' = [cache EXCEPT ![k] = a]
      PROVE  /\ cache' \in [Song \cup Recording -> CachedAnswer]
             /\ \A u \in Song \cup Recording : cache'[u].day <= today
  BY <1>1 DEF MtTypes
<1>2. AnswersMove => answers' \in [Song -> {"open", "same", "moved"}]
  BY DEF AnswersMove, MtTypes
<1>3. ASSUME NEW k \in Song \cup Recording, Asks(k)
      PROVE  \E a \in CachedAnswer : a.day <= today /\ cache' = [cache EXCEPT ![k] = a]
  <2>1. PICK a \in Answers[k] : cache' = [cache EXCEPT ![k] = [found |-> a, day |-> today]]
    BY <1>3 DEF Asks
  <2>2. a \in SUBSET (Recording \cup Release)
    BY <2>1, MusicAnswers
  <2>3. [found |-> a, day |-> today] \in CachedAnswer /\ today <= today
    BY <2>2 DEF CachedAnswer, MtTypes
  <2> QED
    BY <2>1, <2>3
<1>4. NoAnswer \in CachedAnswer /\ NoAnswer.day <= today
  BY DEF NoAnswer, CachedAnswer, MtTypes
<1>5. CASE \E k \in Song \cup Recording : Asks(k)
  BY <1>1, <1>2, <1>3, <1>5 DEF Asks
<1>6. CASE \E s \in Song : Retitles(s)
  BY <1>1, <1>2, <1>4, <1>6 DEF Retitles
<1> QED
  BY <1>5, <1>6

LEMMA MtTypesStay == MtTypes /\ [MtNext]_music => MtTypes'
<1> SUFFICES ASSUME MtTypes, [MtNext]_music PROVE MtTypes'
  OBVIOUS
<1>0. CASE UNCHANGED music
  BY <1>0 DEF MtTypes, music
<1>1. CASE DayPasses
  <2>1. today' \in 0..LastDay /\ \A k \in Song \cup Recording : cache[k].day <= today'
    BY <1>1, MusicNats DEF MtTypes, DayPasses, CachedAnswer
  <2> QED
    BY <1>1, <2>1 DEF MtTypes, DayPasses
<1>2. ASSUME NEW k \in Song \cup Recording, Asks(k) PROVE MtTypes'
  BY <1>2, AnswersAreCached DEF MtTypes, Asks
<1>r. ASSUME NEW s \in Song, Retitles(s) PROVE MtTypes'
  <2>1. hand' \in HandRun /\ daily' \in DailyRun
    BY <1>r, CrossedRuns DEF MtTypes, Retitles
  <2>2. touches' \in 0..MaxTouches
    BY <1>r, MusicNats DEF MtTypes, Retitles
  <2> QED
    BY <1>r, <2>1, <2>2, AnswersAreCached DEF MtTypes, Retitles
<1>3. ASSUME NEW s \in Song, NEW field \in {"album", "other"}, NEW v \in {"empty", "ivan"}, Touch(s, field, v) PROVE MtTypes'
  <2>1. tags' \in [Song -> Image]
    BY <1>3 DEF MtTypes, Touch, Image, Value
  <2>2. hand' \in HandRun /\ daily' \in DailyRun
    BY <1>3, CrossedRuns DEF MtTypes, Touch
  <2>3. touches \in 0..MaxTouches /\ touches < MaxTouches /\ touches' = touches + 1
    BY <1>3, Zenon DEF MtTypes, Touch
  <2>4. touches' \in 0..MaxTouches
    BY <2>3, MusicNats
  <2> QED
    BY <1>3, <2>1, <2>2, <2>4 DEF MtTypes, Touch
<1>4. CASE Snapshot
  BY <1>4 DEF MtTypes, Snapshot
<1>5. ASSUME NEW s \in Song, Plans(s) PROVE MtTypes'
  <2>1. Chosen(Pool(s)) \in ReleaseGroup \cup {"none"}
    BY PoolIsFinite, ChosenIsBest
  <2>2. answers' \in [Song -> {"open", "same", "moved"}]
    BY <1>5 DEF MtTypes, Plans, Chooses
  <2> QED
    BY <1>5, <2>1, <2>2 DEF MtTypes, Plans
<1>6. ASSUME NEW s \in Song, ApplyLoads(s) PROVE MtTypes'
  <2>1. plan[s] \in ReleaseGroup /\ Filled(tags[s], plan[s]) \in Image
    BY <1>6, FilledImage DEF MtTypes, ApplyLoads, Loads
  <2>2. hand' \in HandRun
    BY <1>6, <2>1 DEF ApplyLoads, HandRun
  <2> QED
    BY <1>6, <2>2 DEF MtTypes, ApplyLoads
<1>7. CASE ApplySaves
  <2>1. hand.image \in Image /\ hand.song \in Song
    BY <1>7 DEF MtTypes, ApplySaves, HandRun, Resting
  <2>2. daily' \in DailyRun /\ hand' \in HandRun
    BY <1>7, CrossedRuns DEF MtTypes, ApplySaves, HandRun
  <2> QED
    BY <1>7, <2>1, <2>2 DEF MtTypes, ApplySaves, FileSaved
<1>8. ASSUME NEW s \in Song, RollsBack(s) PROVE MtTypes'
  <2>1. daily' \in DailyRun
    BY <1>8, CrossedRuns DEF MtTypes, RollsBack
  <2> QED
    BY <1>8, <2>1 DEF MtTypes, RollsBack
<1>9. CASE DailyStarts
  <2>1. daily' \in DailyRun
    BY <1>9 DEF DailyStarts, DailyRun
  <2> QED
    BY <1>9, <2>1 DEF MtTypes, DailyStarts
<1>10. ASSUME NEW s \in Song, DailyMatches(s) PROVE MtTypes'
  <2>1. Chosen(Pool(s)) \in ReleaseGroup \cup {"none"}
    BY PoolIsFinite, ChosenIsBest
  <2>2. Empty(tags[s].album) /\ Chosen(Pool(s)) # "none" => Filled(tags[s], Chosen(Pool(s))) \in Image
    BY <2>1, FilledImage DEF MtTypes
  <2>3. daily' \in DailyRun
    BY <1>10, <2>1, <2>2 DEF MtTypes, DailyMatches, DailyRun, Resting
  <2>4. answers' \in [Song -> {"open", "same", "moved"}]
    BY <1>10 DEF MtTypes, DailyMatches, Chooses
  <2> QED
    BY <1>10, <2>3, <2>4 DEF MtTypes, DailyMatches
<1>11. CASE DailySaves
  <2>1. daily.image \in Image /\ daily.song \in Song /\ daily' \in DailyRun
    BY <1>11 DEF MtTypes, DailySaves, DailyRun, Resting
  <2>2. hand' \in HandRun
    BY <1>11, CrossedRuns DEF MtTypes, DailySaves
  <2> QED
    BY <1>11, <2>1, <2>2 DEF MtTypes, DailySaves, FileSaved
<1>12. CASE DailyEnds \/ DailyFails
  BY <1>12, MusicNumbers DEF MtTypes, DailyEnds, DailyFails, DailyRun
<1> QED
  BY <1>0, <1>1, <1>2, <1>r, <1>3, <1>4, <1>5, <1>6, <1>7, <1>8, <1>9, <1>10, <1>11, <1>12, Zenon DEF MtNext

\* A tag that fits what the answers say fits it afterwards, or the answers are said to have moved.
LEMMA SoundStays ==
  ASSUME MtTypes, [MtNext]_music
  PROVE  \A u \in Song : /\ \A v : FromAnswer(Say[u], v) => FromAnswer(Say'[u], v)
                         /\ \A image : Sound(Say[u], image) => Sound(Say'[u], image)
<1> SUFFICES ASSUME NEW u \in Song
             PROVE  Say'[u] = Say[u] \/ Say'[u].how = "moved" \/ Say[u].how = "open"
  BY DEF Sound, FromAnswer
<1>0. /\ Say[u].how = answers[u] /\ Say'[u].how = answers'[u]
      /\ Pool(u)' = Pool(u) /\ answers'[u] = answers[u] => Say'[u] = Say[u]
      /\ answers[u] \in {"open", "same", "moved"}
  BY DEF Say, MtTypes
<1>1. UNCHANGED cache => Pool(u)' = Pool(u)
  BY DEF Pool, Hits
<1>2. CASE UNCHANGED <<answers, cache>>
  BY <1>0, <1>1, <1>2
<1>3. CASE AnswersMove
  BY <1>0, <1>3 DEF AnswersMove
<1>4. ASSUME NEW s \in Song, NEW g, Chooses(s, g), UNCHANGED cache
      PROVE  answers'[u] = answers[u] \/ answers[u] = "open"
  BY <1>4 DEF Chooses, MtTypes
<1>5. CASE \E s \in Song : Plans(s) \/ DailyMatches(s)
  BY <1>0, <1>1, <1>4, <1>5 DEF Plans, DailyMatches
<1> QED
  BY <1>2, <1>3, <1>5, Zenon DEF MtNext, music, DayPasses, Snapshot, ApplySaves, DailyStarts, DailySaves, DailyEnds,
       DailyFails, Asks, Retitles, ApplyLoads, RollsBack, Touch

\* What is chosen now is what the answers say: of a song that has one already, the same one again.
LEMMA ChosenIsSound ==
  ASSUME MtTypes, NEW s \in Song, Chooses(s, Chosen(Pool(s))), UNCHANGED cache
  PROVE  FromAnswer(Say'[s], Chosen(Pool(s)))
<1>1. Pool(s)' = Pool(s)
  BY DEF Pool, Hits
<1>2. Say'[s].how = answers'[s] /\ Say'[s].group = Chosen(Pool(s))
  BY <1>1 DEF Say
<1>3. Chosen(Pool(s)) # "none" => answers'[s] \in {"same", "moved"}
  BY DEF Chooses, MtTypes
<1> QED
  BY <1>2, <1>3, NamesDiffer DEF FromAnswer

\* A decision that is written by the rules is sound, also in a file whose other fields an earlier one filled.
LEMMA FilledSound ==
  ASSUME NEW say, NEW image, NEW r \in ReleaseGroup,
         Sound(say, image), RankOf[r] \in Allowed, FromAnswer(say, r)
  PROVE  Sound(say, Filled(image, r))
  BY DEF Sound, FromAnswer, Approved, Filled

\* A saved file is one whose image was sound, and the other files stay as they were.
LEMMA SoundTagsStay == MtTypes /\ SoundTags /\ [MtNext]_music => SoundTags'
<1> SUFFICES ASSUME MtTypes, SoundTags, [MtNext]_music PROVE SoundTags'
  OBVIOUS
<1> DEFINE SoundSongs == \A s \in Song : Sound(Say'[s], tags'[s]) /\ Sound(Say'[s], before'[s]) /\ FromAnswer(Say'[s], plan'[s])
           SoundHand == hand'.at = "save" => Sound(Say'[hand'.song], hand'.image)
           SoundDaily == daily'.at = "save" => Sound(Say'[daily'.song], daily'.image)
<1>0. SoundTags' = (SoundSongs /\ SoundHand /\ SoundDaily)
  BY DEF SoundTags
<1>1. \A s \in Song : Sound(Say'[s], tags[s]) /\ Sound(Say'[s], before[s]) /\ FromAnswer(Say'[s], plan[s])
  BY SoundStays DEF SoundTags
<1>2. hand.at = "save" => hand.song \in Song /\ Sound(Say'[hand.song], hand.image)
  BY SoundStays DEF SoundTags, MtTypes, HandRun, Resting
<1>3. daily.at = "save" => daily.song \in Song /\ Sound(Say'[daily.song], daily.image)
  <2>1. daily.at = "save" => daily.song \in Song
    BY DEF MtTypes, DailyRun, Resting
  <2> QED
    BY <2>1, SoundStays DEF SoundTags
<1>4. hand \in HandRun /\ daily \in DailyRun
  BY DEF MtTypes
<1>5. \A s : /\ hand' = Crossed(hand, s) => SoundHand
             /\ daily' = Crossed(daily, s) => SoundDaily
  BY <1>2, <1>3, <1>4, CrossedRuns
<1>6. /\ UNCHANGED <<tags, before, plan>> => SoundSongs
      /\ UNCHANGED hand => SoundHand
      /\ UNCHANGED daily => SoundDaily
  <2>1. UNCHANGED <<tags, before, plan>> => SoundSongs
    BY <1>1
  <2> QED
    BY <2>1, <1>2, <1>3
<1> HIDE DEF SoundSongs, SoundHand, SoundDaily
<1>7. CASE UNCHANGED music \/ DayPasses \/ (\E k \in Song \cup Recording : Asks(k))
  BY <1>0, <1>6, <1>7 DEF music, DayPasses, Asks
<1>r. CASE \E s \in Song : Retitles(s)
  BY <1>0, <1>5, <1>6, <1>r DEF Retitles
<1>8. ASSUME NEW s \in Song, NEW field \in {"album", "other"}, NEW v \in {"empty", "ivan"}, Touch(s, field, v)
      PROVE  SoundTags'
  <2>1. v \notin ReleaseGroup
    BY NamesDiffer
  <2>2. tags[s] \in Image
    BY DEF MtTypes
  <2>3. Sound(Say'[s], tags'[s])
    BY <1>1, <1>8, <2>1, <2>2 DEF Touch, MtTypes, Image, Sound, FromAnswer, Approved
  <2>4. SoundSongs
    BY <1>1, <1>8, <2>3 DEF Touch, MtTypes, SoundSongs
  <2> QED
    BY <1>0, <1>5, <1>8, <2>4 DEF Touch
<1>9. CASE Snapshot
  <2>1. SoundSongs
    BY <1>1, <1>9 DEF Snapshot, SoundSongs
  <2> QED
    BY <1>0, <1>6, <1>9, <2>1 DEF Snapshot
<1>10. ASSUME NEW s \in Song, Plans(s) PROVE SoundTags'
  <2>1. plan' = [plan EXCEPT ![s] = Chosen(Pool(s))] /\ UNCHANGED <<tags, before, hand, daily>>
    BY <1>10 DEF Plans
  <2>2. FromAnswer(Say'[s], plan'[s])
    <3>1. FromAnswer(Say'[s], Chosen(Pool(s)))
      BY <1>10, ChosenIsSound DEF Plans
    <3> QED
      BY <2>1, <3>1 DEF MtTypes
  <2>3. SoundSongs
    BY <1>1, <2>1, <2>2 DEF SoundSongs, MtTypes
  <2> QED
    BY <1>0, <1>6, <2>1, <2>3
<1>11. ASSUME NEW s \in Song, ApplyLoads(s) PROVE SoundTags'
  <2>1. plan[s] \in ReleaseGroup /\ RankOf[plan[s]] \in Allowed
    BY <1>11 DEF MtTypes, ApplyLoads, Loads
  <2>2. Sound(Say'[s], Filled(tags[s], plan[s]))
    BY <1>1, <2>1, FilledSound
  <2>3. SoundHand
    BY <1>11, <2>2 DEF ApplyLoads, SoundHand
  <2> QED
    BY <1>0, <1>6, <1>11, <2>3 DEF ApplyLoads
<1>12. CASE ApplySaves
  <2>1. SoundSongs
    BY <1>1, <1>2, <1>12 DEF ApplySaves, FileSaved, SoundSongs, MtTypes
  <2>2. SoundHand
    BY <1>12 DEF ApplySaves, SoundHand, Resting
  <2> QED
    BY <1>0, <1>5, <1>12, <2>1, <2>2 DEF ApplySaves
<1>13. ASSUME NEW s \in Song, RollsBack(s) PROVE SoundTags'
  <2>1. SoundSongs
    BY <1>1, <1>13 DEF RollsBack, SoundSongs, MtTypes
  <2> QED
    BY <1>0, <1>5, <1>6, <1>13, <2>1 DEF RollsBack
<1>14. CASE DailyStarts \/ DailyEnds \/ DailyFails
  <2>1. SoundDaily
    BY <1>14 DEF DailyStarts, DailyEnds, DailyFails, SoundDaily, Resting
  <2> QED
    BY <1>0, <1>6, <1>14, <2>1 DEF DailyStarts, DailyEnds, DailyFails
<1>15. ASSUME NEW s \in Song, DailyMatches(s) PROVE SoundTags'
  <2> DEFINE r == Chosen(Pool(s))
  <2>1. UNCHANGED <<tags, before, plan, hand>> /\ daily.at = "match"
    BY <1>15 DEF DailyMatches
  <2>2. r # "none" => r \in ReleaseGroup /\ FromAnswer(Say'[s], r)
    <3>1. r \in ReleaseGroup \cup {"none"}
      BY PoolIsFinite, ChosenIsBest
    <3>2. FromAnswer(Say'[s], r)
      BY <1>15, ChosenIsSound DEF DailyMatches
    <3> QED
      BY <3>1, <3>2
  <2>3. r # "none" /\ RankOf[r] \in Allowed => Sound(Say'[s], Filled(tags[s], r))
    BY <1>1, <2>2, FilledSound
  <2>4. SoundDaily
    <3>1. CASE r # "none" /\ RankOf[r] \in Allowed /\ Empty(tags[s].album)
      BY <1>15, <2>3, <3>1 DEF DailyMatches, SoundDaily
    <3>2. CASE ~(r # "none" /\ RankOf[r] \in Allowed /\ Empty(tags[s].album))
      BY <1>15, <2>1, <3>2 DEF DailyMatches, SoundDaily, MtTypes, DailyRun, Resting
    <3> QED
      BY <3>1, <3>2
  <2> QED
    BY <1>0, <1>6, <2>1, <2>4
<1>16. CASE DailySaves
  <2>1. SoundSongs
    BY <1>1, <1>3, <1>16 DEF DailySaves, FileSaved, SoundSongs, MtTypes
  <2>2. SoundDaily
    BY <1>16 DEF DailySaves, SoundDaily
  <2> QED
    BY <1>0, <1>5, <1>16, <2>1, <2>2 DEF DailySaves
<1> QED
  BY <1>7, <1>r, <1>8, <1>9, <1>10, <1>11, <1>12, <1>13, <1>14, <1>15, <1>16, Zenon DEF MtNext

\* Whoever saves a file marks the runs that hold an older image of it.
LEMMA LoadedKeepsStay == MtTypes /\ LoadedKeeps /\ [MtNext]_music => LoadedKeeps'
<1> SUFFICES ASSUME MtTypes, LoadedKeeps, [MtNext]_music PROVE LoadedKeeps'
  OBVIOUS
<1> DEFINE Kept(p, f) == p.at = "save" /\ ~p.crossed => Keeps(p.image, f[p.song])
<1>0. /\ LoadedKeeps = (Kept(hand, tags) /\ Kept(daily, tags))
      /\ LoadedKeeps' = (Kept(hand', tags') /\ Kept(daily', tags'))
      /\ hand \in HandRun /\ daily \in DailyRun
  BY DEF LoadedKeeps, MtTypes
\* A change of the file of one song does not matter to a run that marks it.
<1>1. ASSUME NEW p, p \in HandRun \/ p \in DailyRun, Kept(p, tags), NEW s, NEW image, tags' = [tags EXCEPT ![s] = image]
      PROVE  Kept(Crossed(p, s), tags')
  <2> DEFINE q == Crossed(p, s)
  <2>1. q.at = p.at /\ (p.at = "save" => q.song = p.song /\ q.image = p.image /\ (q.crossed <=> (p.crossed \/ p.song = s)))
    BY <1>1, CrossedRuns
  <2>2. p.at = "save" => p.song \in Song
    BY <1>1 DEF HandRun, DailyRun, Resting
  <2> HIDE DEF q
  <2> SUFFICES ASSUME q.at = "save", ~q.crossed PROVE Keeps(q.image, tags'[q.song])
    BY DEF q
  <2>3. q.song = p.song /\ q.image = p.image /\ p.song # s /\ ~p.crossed /\ p.at = "save"
    BY <2>1
  <2>4. tags'[p.song] = tags[p.song]
    BY <1>1, <2>2, <2>3 DEF MtTypes
  <2> QED
    BY <1>1, <2>3, <2>4
<1> HIDE DEF Kept
<1>2. Kept(Resting, tags')
  BY DEF Kept, Resting
<1>3. CASE \/ UNCHANGED music \/ DayPasses \/ Snapshot
           \/ \E k \in Song \cup Recording : Asks(k)
           \/ \E s \in Song : Plans(s)
  BY <1>0, <1>3, Zenon DEF music, DayPasses, Snapshot, Asks, Plans
<1>r. ASSUME NEW s \in Song, Retitles(s) PROVE LoadedKeeps'
  <2>1. tags' = [tags EXCEPT ![s] = tags[s]]
    BY <1>r DEF Retitles, MtTypes
  <2> QED
    BY <1>0, <1>1, <1>r, <2>1 DEF Retitles
<1>4. ASSUME NEW s \in Song, NEW field \in {"album", "other"}, NEW v \in {"empty", "ivan"}, Touch(s, field, v)
      PROVE  LoadedKeeps'
  BY <1>0, <1>1, <1>4 DEF Touch
<1>5. ASSUME NEW s \in Song, ApplyLoads(s) PROVE LoadedKeeps'
  <2>1. plan[s] \in ReleaseGroup /\ Keeps(Filled(tags[s], plan[s]), tags[s])
    BY <1>5, FilledImage DEF MtTypes, ApplyLoads, Loads
  <2>2. Kept(hand', tags')
    BY <1>5, <2>1 DEF ApplyLoads, Kept
  <2> QED
    BY <1>0, <1>5, <2>2 DEF ApplyLoads
<1>6. CASE ApplySaves
  BY <1>0, <1>1, <1>2, <1>6 DEF ApplySaves, FileSaved
<1>7. ASSUME NEW s \in Song, RollsBack(s) PROVE LoadedKeeps'
  BY <1>0, <1>1, <1>2, <1>7 DEF RollsBack
<1>8. CASE DailyStarts \/ DailyEnds \/ DailyFails
  <2>1. Kept(daily', tags')
    BY <1>2, <1>8 DEF DailyStarts, DailyEnds, DailyFails, Kept
  <2> QED
    BY <1>0, <1>8, <2>1 DEF DailyStarts, DailyEnds, DailyFails
<1>9. ASSUME NEW s \in Song, DailyMatches(s) PROVE LoadedKeeps'
  <2> DEFINE r == Chosen(Pool(s))
  <2>1. r # "none" => r \in ReleaseGroup
    BY PoolIsFinite, ChosenIsBest
  <2>2. UNCHANGED <<tags, hand>> /\ daily.at = "match"
    BY <1>9 DEF DailyMatches
  <2>3. Kept(daily', tags')
    <3>1. CASE r # "none" /\ RankOf[r] \in Allowed /\ Empty(tags[s].album)
      <4>1. Keeps(Filled(tags[s], r), tags[s])
        BY <2>1, <3>1, FilledImage DEF MtTypes
      <4> QED
        BY <1>9, <2>2, <3>1, <4>1 DEF DailyMatches, Kept
    <3>2. CASE ~(r # "none" /\ RankOf[r] \in Allowed /\ Empty(tags[s].album))
      BY <1>9, <2>2, <3>2 DEF DailyMatches, Kept, MtTypes, DailyRun, Resting
    <3> QED
      BY <3>1, <3>2
  <2> QED
    BY <1>0, <2>2, <2>3
<1>10. CASE DailySaves
  <2>1. Kept(daily', tags')
    BY <1>10 DEF DailySaves, Kept
  <2> QED
    BY <1>0, <1>1, <1>10, <2>1 DEF DailySaves, FileSaved
<1> QED
  BY <1>3, <1>r, <1>4, <1>5, <1>6, <1>7, <1>8, <1>9, <1>10, Zenon DEF MtNext

LEMMA ScanOwedStays == MtTypes /\ ScanOwed /\ [MtNext]_music => ScanOwed'
<1> SUFFICES ASSUME MtTypes, ScanOwed, [MtNext]_music PROVE ScanOwed'
  OBVIOUS
<1>1. ASSUME NEW s, daily' = Crossed(daily, s), UNCHANGED <<unscanned, owed>> PROVE ScanOwed'
  BY <1>1, CrossedRuns DEF ScanOwed, MtTypes
<1>2. CASE UNCHANGED <<daily, unscanned, owed>>
  BY <1>2 DEF ScanOwed
<1>3. CASE DailyStarts \/ DailyEnds \/ DailyFails
  BY <1>3 DEF ScanOwed, DailyStarts, DailyEnds, DailyFails, Resting
<1>4. ASSUME NEW s \in Song, DailyMatches(s) PROVE ScanOwed'
  <2>1. daily # Resting /\ daily'.wrote = daily.wrote /\ UNCHANGED <<unscanned, owed>>
    BY <1>4 DEF DailyMatches, MtTypes, DailyRun, Resting
  <2>2. daily' # Resting
    BY <1>4 DEF DailyMatches, MtTypes, DailyRun, Resting
  <2> QED
    BY <2>1, <2>2 DEF ScanOwed
<1>5. CASE DailySaves
  BY <1>5 DEF ScanOwed, DailySaves, Resting
<1> QED
  BY <1>1, <1>2, <1>3, <1>4, <1>5, Zenon DEF MtNext, music, DayPasses, Snapshot, ApplySaves, Asks, Retitles, Plans,
       ApplyLoads, RollsBack, Touch

LEMMA MtStays == MtInv /\ [MtNext]_music => MtInv'
  BY MtTypesStay, SoundTagsStay, LoadedKeepsStay, ScanOwedStays DEF MtInv

LEMMA MtInvIsEnough == MtInv => MusicTagsSafe
<1> SUFFICES ASSUME MtInv PROVE MusicTagsSafe
  OBVIOUS
<1>1. MtTypeOK
  BY DEF MtInv, MtTypes, ScanOwed, MtTypeOK, Image
<1>2. OneRelease
  BY DEF MtInv, SoundTags, Say, Sound, FromAnswer, OneRelease
<1>3. WrittenIsBest
  <2> SUFFICES ASSUME NEW s \in Song, tags[s].album \in ReleaseGroup
               PROVE  /\ RankOf[tags[s].album] \in Allowed
                      /\ answers[s] # "moved" =>
                           \A q \in Groups(Pool(s)) \ {tags[s].album} : ~Better(Pool(s), q, tags[s].album)
    BY DEF WrittenIsBest
  <2>1. answers[s] # "moved" => tags[s].album = Chosen(Pool(s))
    BY DEF MtInv, SoundTags, Say, Sound, FromAnswer
  <2>2. RankOf[tags[s].album] \in Allowed
    BY DEF MtInv, SoundTags, Sound, Approved
  <2>3. tags[s].album # "none"
    BY NamesDiffer
  <2> QED
    BY <2>1, <2>2, <2>3, PoolIsFinite, ChosenIsBest
<1>4. ChangedIsScanned
  BY DEF MtInv, ScanOwed, ChangedIsScanned
<1> QED
  BY <1>1, <1>2, <1>3, <1>4 DEF MusicTagsSafe

\* MusicTagsHold: a written album is of an approved rank; as long as what MusicBrainz answers for a song does not
\* change after a release group was chosen, the album and the other fields of its file are of one release group,
\* which is the one the rules decide for among those that were found; and what a run changed is scanned at its end.
THEOREM MusicTagsStaySafe == HostSpec => []MusicTagsHold
<1> DEFINE I == part = "music" => MtInv
<1>1. HostInit => I
  BY PartStarts, MtStarts
<1>2. I /\ [HostNext]_hostVars => I'
  BY PartMoves, MtStays
<1>3. I => MusicTagsHold
  BY MtInvIsEnough DEF MusicTagsHold
<1> QED
  BY <1>1, <1>2, <1>3, PTL DEF HostSpec

\* A step that changes a field that is set is an edit, a roll-back, or the save of a run that an edit
\* or another run crossed.
LEMMA SetTagsAreKept == MtInv /\ [MtNext]_music => SetIsKept
<1> SUFFICES ASSUME MtInv, [MtNext]_music, NEW s \in Song, NEW field \in {"album", "other"},
                    ~Empty(tags[s][field]), tags'[s][field] # tags[s][field]
             PROVE  \/ touches' # touches \/ tags'[s] = before[s]
                    \/ \E p \in {hand, daily} : p.at = "save" /\ p.song = s /\ p.crossed
  BY DEF SetIsKept
<1>1. CASE UNCHANGED tags
  BY <1>1
<1>2. ASSUME NEW u \in Song, NEW f \in {"album", "other"}, NEW v \in {"empty", "ivan"}, Touch(u, f, v)
      PROVE  touches' # touches
  BY <1>2 DEF Touch, MtInv, MtTypes
<1>3. ASSUME NEW p \in {hand, daily}, p.at = "save", FileSaved(p)
      PROVE  p.song = s /\ p.crossed
  <2>1. p.song \in Song /\ (~p.crossed => Keeps(p.image, tags[p.song]))
    BY <1>3 DEF MtInv, MtTypes, HandRun, DailyRun, Resting, LoadedKeeps
  <2>2. p.song = s
    BY <1>3, <2>1 DEF FileSaved, MtInv, MtTypes
  <2>3. tags'[s] = p.image
    BY <1>3, <2>1, <2>2 DEF FileSaved, MtInv, MtTypes
  <2>4. CASE field = "album"
    BY <2>1, <2>2, <2>3, <2>4 DEF Keeps
  <2>5. CASE field = "other"
    BY <2>1, <2>2, <2>3, <2>5 DEF Keeps
  <2> QED
    BY <2>2, <2>4, <2>5
<1>4. ASSUME NEW u \in Song, RollsBack(u) PROVE tags'[s] = before[s]
  BY <1>4 DEF RollsBack, MtInv, MtTypes
<1> QED
  BY <1>1, <1>2, <1>3, <1>4, Zenon DEF MtNext, music, DayPasses, Snapshot, ApplySaves, DailyStarts, DailySaves,
       DailyEnds, DailyFails, Asks, Retitles, Plans, ApplyLoads, DailyMatches

-----------------------------------------------------------------------------
(* Updates: the update channel in the app.                                 *)

LEMMA Others == Other("screen") = "job" /\ Other("job") = "screen"
  BY DEF Other, Worker

LEMMA Codes == LastCode \in Nat /\ 1 \in Code /\ Code \subseteq Number /\ \A c \in Number : c \in Nat /\ c <= LastCode
  BY UpdateNumbers DEF Code, Number

LEMMA UpdStarts == UpdInit => UpdInv
<1> SUFFICES ASSUME UpdInit PROVE UpdInv
  OBVIOUS
<1>0. Rest \in Run /\ NoSession \in Session /\ NoSession.code = 0 /\ Rest.at = "idle" /\ NoSession.at = "none"
  BY Codes DEF Rest, RunOf, Run, Checking, Number, NoSession, Session
<1>1. UpdTypes
  <2>1. offer \in Released /\ offer.min <= offer.code
    BY Codes DEF UpdInit, Released, Number
  <2>2. highest \in Number /\ lastSeen \in 0..highest /\ minSupported \in 0..highest /\ installing \in 0..highest
    BY Codes DEF UpdInit, Number
  <2>3. worker \in [Worker -> Run] /\ session \in [Worker -> Session]
    BY <1>0 DEF UpdInit
  <2> QED
    BY <2>1, <2>2, <2>3, Codes DEF UpdInit, UpdTypes
<1>2. OfSeen
  BY <1>0 DEF UpdInit, OfSeen, InFolder
<1>3. AloneIsUndisturbed
  BY <1>0 DEF UpdInit, AloneIsUndisturbed, InFolder
<1>4. VerifiedWhenAlone /\ InstallingIsReal
  BY <1>0 DEF UpdInit, VerifiedWhenAlone, InstallingIsReal, InFlight
<1>5. StoresAreCurrent
  BY <1>0 DEF UpdInit, StoresAreCurrent
<1>6. UiTypes /\ PastIsBlocked
  BY DEF UpdInit, UiTypes, PastIsBlocked
<1> QED
  BY <1>1, <1>2, <1>3, <1>4, <1>5, <1>6 DEF UpdInv

\* What the small steps of a run do to it, to the folder and to the sessions.
LEMMA GoesTo ==
  ASSUME UpdTypes, NEW w \in Worker, NEW at \in Checking \cup InFolder, Goes(w, at)
  PROVE  /\ worker' \in [Worker -> Run] /\ worker'[w].at = at
         /\ worker'[w].code = worker[w].code /\ worker'[w].min = worker[w].min
         /\ worker'[w].stores = worker[w].stores /\ worker'[w].alone = worker[w].alone
         /\ \A u \in Worker \ {w} : worker'[u] = worker[u]
  BY DEF UpdTypes, Goes, Run

LEMMA RestIsRun == Rest \in Run /\ Rest.at = "idle"
  BY Codes DEF Rest, RunOf, Run, Checking, Number

LEMMA RestsAfter ==
  ASSUME UpdTypes, NEW w \in Worker, RunOver(w)
  PROVE  /\ worker' \in [Worker -> Run] /\ worker'[w] = Rest /\ worker'[w].at = "idle"
         /\ \A u \in Worker \ {w} : worker'[u] = worker[u]
<1>1. worker' = [worker EXCEPT ![w] = Rest] /\ worker \in [Worker -> Run]
  BY DEF UpdTypes, RunOver
<1>2. Rest \in Run /\ Rest.at = "idle"
  BY RestIsRun
<1>3. worker' \in [Worker -> Run] /\ worker'[w] = Rest /\ \A u \in Worker \ {w} : worker'[u] = worker[u]
  BY <1>1, <1>2
<1> QED
  BY <1>2, <1>3

Written == {"whole", "unfit"}

LEMMA LeftFiles ==
  ASSUME NEW files \in [File -> Worker \cup {"none"}], NEW written \in [Worker -> Written], Leaves(files, written)
  PROVE  /\ folder' = files /\ folder' \in [File -> Worker \cup {"none"}] /\ fetched' \in [Worker -> Written]
         /\ \A f \in File : files[f] # "none" => fetched'[files[f]] = written[files[f]]
  BY DEF Leaves, Written

LEMMA CleanedFiles ==
  ASSUME UpdTypes
  PROVE  /\ Cleaned \in [File -> Worker \cup {"none"}]
         /\ \A f \in File : Cleaned[f] = folder[f] \/ Cleaned[f] = "none"
         /\ \A f \in File : f[1] = "part" \/ f[2] > installed => Cleaned[f] = folder[f]
  BY Codes DEF Cleaned, UpdTypes, File, Code

\* The manifests that a check may be given.
Manifests == {offer} \cup {[code |-> c, min |-> 0] : c \in 1..highest}

LEMMA ManifestsAreReleased ==
  ASSUME UpdTypes, NEW m \in Manifests
  PROVE  m \in Released /\ m.min <= m.code
<1>1. CASE m = offer
  BY <1>1 DEF UpdTypes
<1>2. ASSUME NEW c \in 1..highest, m = [code |-> c, min |-> 0] PROVE m \in Released /\ m.min <= m.code
  <2>1. c \in Number /\ 0 \in Number /\ 0 <= c
    BY Codes DEF UpdTypes, Number
  <2> QED
    BY <1>2, <2>1 DEF Released
<1> QED
  BY <1>1, <1>2 DEF Manifests

\* Somebody comes in or goes out.
Comes == Prompts \/ StartsSession \/ OpensWeb

\* A step is one of these.
LEMMA UpdMoves ==
  [UpdNext]_updVars =>
    \/ UNCHANGED updVars
    \/ OfferChanges \/ Opens \/ Hides \/ Comes \/ ScreenAsks \/ JobStarts \/ Killed \/ Receives
    \/ \E w \in Worker :
         \/ CheckEnds(w) \/ Remembers(w) \/ Fetches(w) \/ Downloads(w) \/ ChecksFile(w) \/ Renames(w)
         \/ SetsInstalling(w) \/ OpensSession(w) \/ Commits(w) \/ Installs(w) \/ Refuses(w)
         \/ \E m \in Manifests : Verifies(w, m)
  BY Zenon DEF UpdNext, Comes, Manifests

LEMMA ComesIs ==
  Comes => UNCHANGED <<offer, offers, appDeaths, installed, lastSeen, minSupported, installing, worker, folder, fetched,
                       session, answered, highest, orphaned, lateMin, crossed>>
  BY DEF Comes, Prompts, StartsSession, OpensWeb, chan, prefs, hist

LEMMA UiTypesStay == UiTypes /\ [UpdNext]_updVars => UiTypes'
<1> SUFFICES ASSUME UiTypes, [UpdNext]_updVars PROVE UiTypes'
  OBVIOUS
<1>1. CASE UNCHANGED ui
  BY <1>1 DEF UiTypes, ui, Queued
<1>2. CASE Opens \/ ScreenAsks
  <2>1. UNCHANGED entry /\ (place' = place \/ (place' = "ahead" /\ Queued) \/ place' = "behind")
    BY <1>2 DEF Opens, ScreenAsks, QueuesCheck
  <2>2. face' = face \/ face' \in {"door", "web", "force"}
    BY <1>2 DEF Opens, ScreenAsks
  <2> QED
    BY <2>1, <2>2 DEF UiTypes, Queued
<1>3. CASE Hides
  BY <1>3 DEF Hides, UiTypes, Queued
<1>4. CASE Comes
  BY <1>4 DEF Comes, Prompts, StartsSession, OpensWeb, PlaceNow, UiTypes, Queued
<1>5. CASE Killed \/ \E w \in Worker : Installs(w)
  BY <1>5 DEF Killed, AppDies, Installs, UiTypes
<1>6. ASSUME NEW w \in Worker, AfterCheck(w) PROVE UiTypes'
  <2>1. UNCHANGED <<entry, place>> /\ (face' = face \/ face' = "force")
    BY <1>6 DEF AfterCheck
  <2> QED
    BY <2>1 DEF UiTypes, Queued
<1>7. ASSUME NEW w \in Worker, CheckEnds(w) \/ Remembers(w) \/ \E m \in Manifests : Verifies(w, m)
      PROVE  AfterCheck(w) \/ UNCHANGED ui
  BY <1>7 DEF CheckEnds, Remembers, Verifies
<1> QED
  BY <1>1, <1>2, <1>3, <1>4, <1>5, <1>6, <1>7, UpdMoves, Zenon DEF updVars, OfferChanges, JobStarts, Receives, Fetches,
     Downloads, ChecksFile, Renames, SetsInstalling, OpensSession, Commits, Refuses

LEMMA UpdTypesStay == UpdTypes /\ OfSeen /\ [UpdNext]_updVars => UpdTypes'
<1> SUFFICES ASSUME UpdTypes, OfSeen, [UpdNext]_updVars PROVE UpdTypes'
  OBVIOUS
<1>0. CASE UNCHANGED updVars
  BY <1>0 DEF UpdTypes, updVars, hist
<1>1. CASE OfferChanges
  <2>1. offer' \in Released /\ offer'.min <= offer'.code
    <3>1. CASE \E c \in Code, m \in 0..LastCode : m <= c /\ offer' = [code |-> c, min |-> m]
      BY <3>1, Codes DEF Released, Number
    <3>2. CASE offer' = [code |-> 0, min |-> 0]
      BY <3>2, Codes DEF Released, Number
    <3> QED
      BY <1>1, <3>1, <3>2, Zenon DEF OfferChanges
  <2> QED
    BY <1>1, <2>1 DEF OfferChanges, UpdTypes, prefs, hist
<1>2. CASE Opens
  <2>1. worker' \in [Worker -> Run] /\ lateMin' \in BOOLEAN
    BY <1>2, GoesTo DEF Opens, QueuesCheck, UpdTypes, Worker, Checking
  <2> QED
    BY <1>2, <2>1 DEF Opens, QueuesCheck, UpdTypes, chan, prefs
<1>3. CASE Hides \/ Comes \/ Receives
  <2>1. 0 \in 0..highest
    BY Codes DEF UpdTypes
  <2> QED
    BY <1>3, <2>1, ComesIs DEF Hides, Receives, UpdTypes, chan, prefs, hist
<1>4. CASE ScreenAsks \/ JobStarts
  <2>1. worker' \in [Worker -> Run]
    BY <1>4, GoesTo DEF ScreenAsks, QueuesCheck, JobStarts, Worker, Checking
  <2> QED
    BY <1>4, <2>1 DEF ScreenAsks, QueuesCheck, JobStarts, UpdTypes, chan, prefs, hist
<1>5. CASE Killed
  <2>1. worker' \in [Worker -> Run]
    BY <1>5, RestIsRun DEF Killed, AppDies
  <2>2. session' \in [Worker -> Session]
    BY <1>5 DEF Killed, AppDies, UpdTypes, Session
  <2> QED
    BY <1>5, <2>1, <2>2 DEF Killed, AppDies, UpdTypes, chan, prefs
<1>6. ASSUME NEW w \in Worker, CheckEnds(w) PROVE UpdTypes'
  <2>1. worker' \in [Worker -> Run]
    BY <1>6, RestsAfter DEF CheckEnds
  <2>2. folder' \in [File -> Worker \cup {"none"}] /\ fetched' \in [Worker -> Written]
    BY <1>6, CleanedFiles, LeftFiles DEF CheckEnds, UpdTypes, Written
  <2> QED
    BY <1>6, <2>1, <2>2 DEF CheckEnds, UpdTypes, chan, prefs, hist, Written
<1>7. ASSUME NEW w \in Worker, NEW m \in Manifests, Verifies(w, m) PROVE UpdTypes'
  <2>1. worker' \in [Worker -> Run]
    <3>1. [at |-> "store", code |-> m.code, min |-> m.min, stores |-> Stores(m), alone |-> TRUE] \in Run
      BY ManifestsAreReleased DEF Run, Checking, Released, Stores
    <3> QED
      BY <1>7, <3>1, RestsAfter DEF Verifies, UpdTypes
  <2>2. folder' \in [File -> Worker \cup {"none"}] /\ fetched' \in [Worker -> Written]
    BY <1>7, CleanedFiles, LeftFiles DEF Verifies, UpdTypes, Written
  <2>3. crossed' \in BOOLEAN
    BY <1>7 DEF Verifies, UpdTypes
  <2> QED
    BY <1>7, <2>1, <2>2, <2>3 DEF Verifies, UpdTypes, chan, prefs, Written
<1>8. ASSUME NEW w \in Worker, Remembers(w) PROVE UpdTypes'
  <2>1. worker[w] \in Run /\ worker[w].code \in Code /\ worker[w].min <= worker[w].code
    BY <1>8 DEF Remembers, UpdTypes, OfSeen
  <2>2. worker' \in [Worker -> Run]
    <3>1. RunOf("fetch", worker[w].code, TRUE) \in Run
      BY <2>1, Codes DEF RunOf, Run, Checking, Number
    <3> QED
      BY <1>8, <3>1, RestsAfter DEF Remembers, UpdTypes
  <2>3. /\ highest' \in Number /\ lastSeen' \in 0..highest' /\ minSupported' \in 0..highest'
        /\ installing \in 0..highest'
    BY <1>8, <2>1, Codes DEF Remembers, UpdTypes, Run, Number
  <2>4. lateMin' \in BOOLEAN
    BY <1>8 DEF Remembers, UpdTypes
  <2> QED
    BY <1>8, <2>2, <2>3, <2>4 DEF Remembers, UpdTypes, chan
<1>9. ASSUME NEW w \in Worker, Fetches(w) PROVE UpdTypes'
  <2>1. worker' \in [Worker -> Run]
    <3>1. \A a \in BOOLEAN : RunOf("download", worker[w].code, a) \in Run
      BY Codes DEF RunOf, Run, InFolder, Number, UpdTypes
    <3>2. \A u \in Worker : worker[u] \in Run /\ [worker[u] EXCEPT !.alone = FALSE] \in Run
      <4>1. \A u \in Worker : worker[u] \in Run
        BY Zenon DEF UpdTypes
      <4>2. \A r \in Run : [r EXCEPT !.alone = FALSE] \in Run
        BY ZenonT(60) DEF Run
      <4> QED
        BY <4>1, <4>2, Zenon
    <3> QED
      BY <1>9, <3>1, <3>2 DEF Fetches
  <2>2. folder' \in [File -> Worker \cup {"none"}] /\ fetched' \in [Worker -> Written]
    <3>1. [fetched EXCEPT ![w] = "unfit"] \in [Worker -> Written]
      BY DEF UpdTypes, Written
    <3>2. [f \in File |-> IF f = Part(w) THEN w ELSE "none"] \in [File -> Worker \cup {"none"}]
      OBVIOUS
    <3> QED
      BY <1>9, <3>1, <3>2, LeftFiles DEF Fetches
  <2> QED
    BY <1>9, <2>1, <2>2 DEF Fetches, UpdTypes, chan, prefs, hist, Written
<1>10. ASSUME NEW w \in Worker, Downloads(w) PROVE UpdTypes'
  <2>1. worker' \in [Worker -> Run]
    BY <1>10, RestsAfter, GoesTo DEF Downloads, InFolder
  <2>2. folder' \in [File -> Worker \cup {"none"}] /\ fetched' \in [Worker -> Written]
    <3>1. \A what \in {"whole", "unfit"} : [fetched EXCEPT ![w] = what] \in [Worker -> Written]
      BY DEF UpdTypes, Written
    <3>2. [folder EXCEPT ![Part(w)] = "none"] \in [File -> Worker \cup {"none"}]
      BY DEF UpdTypes
    <3> QED
      BY <1>10, <3>1, <3>2, LeftFiles DEF Downloads, UpdTypes, Written
  <2> QED
    BY <1>10, <2>1, <2>2 DEF Downloads, UpdTypes, chan, prefs, hist, Written
<1>11. ASSUME NEW w \in Worker, ChecksFile(w) PROVE UpdTypes'
  <2>1. worker' \in [Worker -> Run]
    BY <1>11, RestsAfter, GoesTo DEF ChecksFile, InFolder
  <2>2. folder' \in [File -> Worker \cup {"none"}] /\ fetched' \in [Worker -> Written]
    <3>2. [folder EXCEPT ![Part(w)] = "none"] \in [File -> Worker \cup {"none"}]
      BY DEF UpdTypes
    <3> QED
      BY <1>11, <3>2, LeftFiles DEF ChecksFile, UpdTypes, Written
  <2> QED
    BY <1>11, <2>1, <2>2 DEF ChecksFile, UpdTypes, chan, prefs, hist, Written
<1>12. ASSUME NEW w \in Worker, Renames(w) PROVE UpdTypes'
  <2>1. worker' \in [Worker -> Run]
    BY <1>12, RestsAfter, GoesTo DEF Renames, InFolder
  <2>2. folder' \in [File -> Worker \cup {"none"}] /\ fetched' \in [Worker -> Written]
    <3>1. Part(w) \in File
      BY <1>12 DEF Renames, OfSeen, InFolder, Part, File, Code, UpdTypes, Run, Number
    <3>2. [folder EXCEPT ![Apk(w)] = folder[Part(w)], ![Part(w)] = "none"] \in [File -> Worker \cup {"none"}]
      BY <3>1 DEF UpdTypes
    <3> QED
      BY <1>12, <3>2, LeftFiles DEF Renames, UpdTypes, Written
  <2> QED
    BY <1>12, <2>1, <2>2 DEF Renames, UpdTypes, chan, prefs, hist, Written
<1>13. ASSUME NEW w \in Worker, SetsInstalling(w) PROVE UpdTypes'
  <2>1. worker' \in [Worker -> Run]
    BY <1>13, GoesTo DEF SetsInstalling, InFolder
  <2>2. worker[w].code \in 0..highest
    BY <1>13 DEF SetsInstalling, OfSeen, InFolder, UpdTypes, Run, Number
  <2> QED
    BY <1>13, <2>1, <2>2 DEF SetsInstalling, UpdTypes, chan, prefs
<1>14. ASSUME NEW w \in Worker, OpensSession(w) PROVE UpdTypes'
  <2>1. worker' \in [Worker -> Run]
    BY <1>14, GoesTo DEF OpensSession, InFolder
  <2>2. session' \in [Worker -> Session]
    BY <1>14 DEF OpensSession, Session, UpdTypes, Run
  <2> QED
    BY <1>14, <2>1, <2>2 DEF OpensSession, UpdTypes, chan, prefs, hist
<1>15. ASSUME NEW w \in Worker, Commits(w) PROVE UpdTypes'
  <2>1. worker' \in [Worker -> Run]
    BY <1>15, RestsAfter DEF Commits
  <2>2. session' \in [Worker -> Session] /\ installing' \in 0..highest
    <3>1. [at |-> "committed", code |-> worker[w].code, good |-> Whole(Apk(w)), alone |-> worker[w].alone] \in Session
      BY DEF Session, UpdTypes, Run, Whole
    <3>2. NoSession \in Session /\ 0 \in 0..highest
      BY DEF Session, UpdTypes, Number
    <3> QED
      BY <1>15, <3>1, <3>2 DEF Commits, InstallFails, UpdTypes
  <2> QED
    BY <1>15, <2>1, <2>2 DEF Commits, UpdTypes, chan, prefs, hist
<1>16. ASSUME NEW w \in Worker, Refuses(w) PROVE UpdTypes'
  <2>1. session' \in [Worker -> Session]
    BY <1>16 DEF Refuses, UpdTypes, Session
  <2> QED
    BY <1>16, <2>1 DEF Refuses, UpdTypes, chan, prefs, hist
<1>17. ASSUME NEW w \in Worker, Installs(w) PROVE UpdTypes'
  <2>1. worker' \in [Worker -> Run]
    BY <1>17, RestIsRun DEF Installs
  <2>2. session' \in [Worker -> Session]
    BY <1>17 DEF Installs, UpdTypes, Session
  <2>3. installed' \in Code
    BY <1>17 DEF Installs, UpdTypes, Session, Code, Number, NoSession
  <2> QED
    BY <1>17, <2>1, <2>2, <2>3 DEF Installs, UpdTypes, chan, prefs
<1> QED
  BY <1>0, <1>1, <1>2, <1>3, <1>4, <1>5, <1>6, <1>7, <1>8, <1>9, <1>10, <1>11, <1>12, <1>13, <1>14, <1>15, <1>16, <1>17,
     UpdMoves

\* The runs that a step does not move, and where it moves one that is past its check.
LEMMA RunsMove ==
  ASSUME UpdTypes, [UpdNext]_updVars, NEW u \in Worker
  PROVE  \/ worker'[u] = worker[u] \/ worker'[u] = Rest
         \/ /\ worker'[u].at = worker[u].at /\ worker'[u].code = worker[u].code
            /\ worker'[u].min = worker[u].min /\ worker'[u].stores = worker[u].stores
         \/ worker[u].at = "idle" /\ worker'[u].at = "asked"
         \/ \E m \in Manifests : Verifies(u, m)
         \/ Remembers(u) /\ Wanted(u, worker[u].code) /\ worker'[u] = RunOf("fetch", worker[u].code, TRUE)
         \/ /\ worker[u].at \in InFolder \cup {"fetch"} /\ worker'[u].at \in InFolder
            /\ worker'[u].code = worker[u].code
<1>0. CASE UNCHANGED worker
  BY <1>0
<1>1. CASE Opens \/ ScreenAsks
  BY <1>1, GoesTo DEF Opens, ScreenAsks, QueuesCheck, Worker, Checking
<1>2. CASE JobStarts
  BY <1>2, GoesTo DEF JobStarts, Worker, Checking
<1>3. CASE Killed \/ (\E w \in Worker : Installs(w))
  BY <1>3 DEF Killed, AppDies, Installs
<1>4. ASSUME NEW w \in Worker, CheckEnds(w) \/ Commits(w) PROVE worker'[u] = worker[u] \/ worker'[u] = Rest
  BY <1>4, RestsAfter DEF CheckEnds, Commits
<1>5. ASSUME NEW w \in Worker, w # u, \E m \in Manifests : Verifies(w, m) PROVE worker'[u] = worker[u] \/ worker'[u] = Rest
  BY <1>5, RestsAfter DEF Verifies, UpdTypes
<1>6. ASSUME NEW w \in Worker, Remembers(w)
      PROVE  \/ worker'[u] = worker[u] \/ worker'[u] = Rest
             \/ Remembers(u) /\ Wanted(u, worker[u].code) /\ worker'[u] = RunOf("fetch", worker[u].code, TRUE)
  BY <1>6, RestsAfter DEF Remembers, UpdTypes
<1>7. ASSUME NEW w \in Worker, Fetches(w)
      PROVE  \/ /\ worker'[u].at = worker[u].at /\ worker'[u].code = worker[u].code
               /\ worker'[u].min = worker[u].min /\ worker'[u].stores = worker[u].stores
             \/ /\ worker[u].at \in InFolder \cup {"fetch"} /\ worker'[u].at \in InFolder
                /\ worker'[u].code = worker[u].code
  <2>1. CASE u = w
    BY <1>7, <2>1 DEF Fetches, RunOf, InFolder
  <2>2. CASE u # w
    BY <1>7, <2>2 DEF Fetches, UpdTypes, Run
  <2> QED
    BY <2>1, <2>2
<1>8. ASSUME NEW w \in Worker, Downloads(w) \/ ChecksFile(w) \/ Renames(w) \/ SetsInstalling(w) \/ OpensSession(w)
      PROVE  \/ worker'[u] = worker[u] \/ worker'[u] = Rest
             \/ /\ worker[u].at \in InFolder \cup {"fetch"} /\ worker'[u].at \in InFolder
                /\ worker'[u].code = worker[u].code
  BY <1>8, GoesTo, RestsAfter DEF Downloads, ChecksFile, Renames, SetsInstalling, OpensSession, InFolder
<1> QED
  BY <1>0, <1>1, <1>2, <1>3, <1>4, <1>5, <1>6, <1>7, <1>8, UpdMoves, ComesIs, Zenon DEF updVars, OfferChanges, Hides, Receives,
     Refuses

\* What was seen does not become less, and the version of the app changes when its process ends.
LEMMA SeenGrows ==
  ASSUME UpdTypes, OfSeen, [UpdNext]_updVars
  PROVE  /\ highest <= highest'
         /\ \/ UNCHANGED installed
            \/ (\A u \in Worker : worker'[u] = Rest) /\ \E w \in Worker : Installs(w)
<1>1. ASSUME NEW w \in Worker, Remembers(w) PROVE highest <= highest' /\ UNCHANGED installed
  BY <1>1, Codes DEF Remembers, UpdTypes, Run, Number
<1>2. ASSUME NEW w \in Worker, Installs(w) PROVE highest <= highest' /\ \A u \in Worker : worker'[u] = Rest
  BY <1>2, Codes DEF Installs, UpdTypes
<1>3. UNCHANGED <<installed, highest>> => highest <= highest' /\ UNCHANGED installed
  BY Codes DEF UpdTypes
<1>4. CASE \/ UNCHANGED updVars
           \/ OfferChanges \/ Opens \/ Hides \/ Comes \/ ScreenAsks \/ JobStarts \/ Killed \/ Receives
  BY <1>3, <1>4, ComesIs DEF updVars, hist, OfferChanges, Opens, Hides, ScreenAsks, JobStarts, Killed, AppDies, Receives
<1>5. ASSUME NEW w \in Worker,
             \/ CheckEnds(w) \/ Fetches(w) \/ Downloads(w) \/ ChecksFile(w) \/ Renames(w) \/ SetsInstalling(w)
             \/ OpensSession(w) \/ Commits(w) \/ Refuses(w) \/ \E m \in Manifests : Verifies(w, m)
      PROVE  UNCHANGED <<installed, highest>>
  BY <1>5 DEF hist, CheckEnds, Verifies, Fetches, Downloads, ChecksFile, Renames, SetsInstalling, OpensSession,
     Commits, Refuses
<1> QED
  BY <1>1, <1>2, <1>3, <1>4, <1>5, UpdMoves, Zenon

\* A file of the app in the folder was there, or is the download of a run.
LEMMA ApksAppear ==
  ASSUME UpdTypes, OfSeen, [UpdNext]_updVars, NEW f \in File, f[1] = "apk", folder'[f] # "none"
  PROVE  folder[f] # "none" \/ \E w \in Worker : worker[w].at = "rename" /\ f = Apk(w)
<1>1. ASSUME NEW w \in Worker, Fetches(w) PROVE f = Part(w)
  BY <1>1 DEF Fetches, Leaves
<1>2. ASSUME NEW w \in Worker, Downloads(w) \/ ChecksFile(w) PROVE folder[f] # "none"
  BY <1>2 DEF Downloads, ChecksFile, Leaves, UpdTypes
<1>3. ASSUME NEW w \in Worker, Renames(w) PROVE folder[f] # "none" \/ (worker[w].at = "rename" /\ f = Apk(w))
  BY <1>3 DEF Renames, Leaves, UpdTypes
<1>4. ASSUME NEW w \in Worker, CheckEnds(w) \/ \E m \in Manifests : Verifies(w, m) PROVE folder[f] # "none"
  BY <1>4, CleanedFiles DEF CheckEnds, Verifies, Leaves
<1>5. \A w \in Worker : f # Part(w)
  BY DEF Part
<1> QED
  BY <1>1, <1>2, <1>3, <1>4, <1>5, UpdMoves, ComesIs, Zenon DEF updVars, OfferChanges, Opens, Hides, ScreenAsks, JobStarts,
     Killed, AppDies, Receives, Remembers, SetsInstalling, OpensSession, Commits, Refuses, Installs

\* A session is the one there was, none, or one for the version of a run that is in the folder.
LEMMA SessionsAppear ==
  ASSUME UpdTypes, [UpdNext]_updVars, NEW u \in Worker
  PROVE  \/ session'[u].code = session[u].code \/ session'[u] = NoSession
         \/ worker[u].at \in InFolder /\ session'[u].code = worker[u].code
<1>1. ASSUME NEW w \in Worker, OpensSession(w)
      PROVE  session'[u] = NoSession \/ (worker[u].at \in InFolder /\ session'[u].code = worker[u].code)
  BY <1>1 DEF OpensSession, InFolder
<1>2. ASSUME NEW w \in Worker, Commits(w)
      PROVE  \/ session'[u].code = session[u].code \/ session'[u] = NoSession
             \/ worker[u].at \in InFolder /\ session'[u].code = worker[u].code
  BY <1>2 DEF Commits, InstallFails, UpdTypes, InFolder
<1>3. ASSUME NEW w \in Worker, Refuses(w)
      PROVE  session'[u].code = session[u].code \/ session'[u] = NoSession
  BY <1>3 DEF Refuses, UpdTypes
<1>4. CASE Killed \/ \E w \in Worker : Installs(w)
  BY <1>4 DEF Killed, AppDies, Installs
<1>5. CASE UNCHANGED session
  BY <1>5
<1> QED
  BY <1>1, <1>2, <1>3, <1>4, <1>5, UpdMoves, ComesIs, Zenon DEF updVars, OfferChanges, Opens, Hides, ScreenAsks, JobStarts,
     Receives, CheckEnds, Verifies, Remembers, Fetches, Downloads, ChecksFile, Renames, SetsInstalling

LEMMA OfSeenStays == UpdTypes /\ OfSeen /\ [UpdNext]_updVars => OfSeen'
<1> SUFFICES ASSUME UpdTypes, OfSeen, [UpdNext]_updVars PROVE OfSeen'
  OBVIOUS
<1>0. /\ highest \in Nat /\ highest' \in Nat /\ highest <= highest' /\ installed \in Nat
      /\ \A u \in Worker : worker[u].code \in Nat /\ worker'[u].code \in Nat /\ session[u].code \in Nat
  <2>1. UpdTypes'
    BY UpdTypesStay
  <2>2. \A u \in Worker : worker[u].code \in Nat /\ worker'[u].code \in Nat
    BY <2>1, Codes DEF UpdTypes, Run
  <2>3. \A u \in Worker : session[u].code \in Nat
    BY Codes DEF UpdTypes, Session, NoSession
  <2>4. highest \in Nat /\ highest' \in Nat /\ installed \in Nat
    BY <2>1, Codes DEF UpdTypes
  <2> QED
    BY <2>2, <2>3, <2>4, SeenGrows
<1>1. ASSUME NEW u \in Worker
      PROVE  /\ worker'[u].at = "store" => worker'[u].code \in Code /\ worker'[u].min <= worker'[u].code
             /\ worker'[u].at \in InFolder \cup {"fetch"} => worker'[u].code > installed /\ worker'[u].code <= highest'
  <2>1. CASE worker'[u] = worker[u]
    BY <1>0, <2>1 DEF OfSeen
  <2>2. CASE worker'[u] = Rest
    BY <2>2, RestIsRun DEF InFolder
  <2>3. CASE worker'[u].at = worker[u].at /\ worker'[u].code = worker[u].code /\ worker'[u].min = worker[u].min
    BY <1>0, <2>3 DEF OfSeen
  <2>4. CASE worker[u].at = "idle" /\ worker'[u].at = "asked"
    BY <2>4 DEF InFolder
  <2>5. ASSUME NEW m \in Manifests, Verifies(u, m), worker'[u] # Rest
        PROVE  worker'[u].at = "store" /\ worker'[u].code \in Code /\ worker'[u].min <= worker'[u].code
    <3>1. worker'[u] = [at |-> "store", code |-> m.code, min |-> m.min, stores |-> Stores(m), alone |-> TRUE]
      BY <2>5, RestsAfter DEF Verifies, UpdTypes
    <3>2. m \in Released /\ m.min <= m.code /\ m.code # 0
      BY <2>5, ManifestsAreReleased DEF Verifies
    <3> QED
      BY <3>1, <3>2, Codes DEF Released, Number, Code
  <2>6. CASE Remembers(u) /\ Wanted(u, worker[u].code) /\ worker'[u] = RunOf("fetch", worker[u].code, TRUE)
    <3>1. worker[u].code <= highest'
      BY <1>0, <2>6 DEF Remembers
    <3> QED
      BY <2>6, <3>1 DEF Wanted, RunOf, InFolder
  <2>7. CASE /\ worker[u].at \in InFolder \cup {"fetch"} /\ worker'[u].at \in InFolder
             /\ worker'[u].code = worker[u].code
    BY <1>0, <2>7 DEF OfSeen, InFolder
  <2> QED
    BY <2>1, <2>2, <2>3, <2>4, <2>5, <2>6, <2>7, RunsMove DEF InFolder
<1>2. ASSUME NEW u \in Worker PROVE session'[u].code <= highest'
  <2>1. session'[u] = NoSession => session'[u].code = 0
    BY DEF NoSession
  <2> QED
    BY <1>0, <2>1, SessionsAppear DEF OfSeen
<1>3. ASSUME NEW f \in File, f[1] = "apk", folder'[f] # "none" PROVE f[2] <= highest'
  <2>1. CASE folder[f] # "none"
    BY <1>0, <1>3, <2>1 DEF OfSeen, File, Code
  <2>2. ASSUME NEW w \in Worker, worker[w].at = "rename", f = Apk(w) PROVE f[2] <= highest'
    BY <1>0, <2>2 DEF OfSeen, Apk, InFolder
  <2> QED
    BY <1>3, <2>1, <2>2, ApksAppear
<1>4. ASSUME NEW u \in Worker, worker'[u].at \in InFolder \cup {"fetch"} PROVE installed' = installed
  BY <1>4, SeenGrows, RestIsRun DEF InFolder
<1> QED
  BY <1>1, <1>2, <1>3, <1>4 DEF OfSeen

\* What is in a file that a step leaves where it is stays what it was.
LEMMA WholeStays ==
  ASSUME UpdTypes, NEW files \in [File -> Worker \cup {"none"}], Leaves(files, fetched),
         NEW f \in File, NEW g \in File, files[g] = folder[f], Whole(f)
  PROVE  Whole(g)'
  BY LeftFiles DEF UpdTypes, Whole, Written

\* A run that is alone in the folder loses nothing by what a run outside does, and goes on by itself.
LEMMA AloneStays == UpdTypes /\ OfSeen /\ AloneIsUndisturbed /\ [UpdNext]_updVars => AloneIsUndisturbed'
<1> SUFFICES ASSUME UpdTypes, OfSeen, AloneIsUndisturbed, [UpdNext]_updVars, NEW u \in Worker,
                    worker'[u].at \in InFolder, worker'[u].alone
             PROVE  /\ worker'[Other(u)].at \notin InFolder
                    /\ worker'[u].at = "rename" => Whole(Part(u))'
                    /\ worker'[u].at \in {"install", "open", "commit"} => Whole(Apk(u))'
  BY DEF AloneIsUndisturbed
<1> DEFINE o == Other(u)
<1>0. o \in Worker /\ o # u /\ Worker = {u, o} /\ Other(o) = u
  BY Others DEF Worker
<1> HIDE DEF o
<1>a. UpdTypes' /\ worker[u] \in Run /\ worker[o] \in Run /\ worker'[u] \in Run
  BY <1>0, UpdTypesStay DEF UpdTypes
<1>b. ASSUME worker[u].at \in InFolder PROVE Part(u) \in File /\ Apk(u) \in File /\ worker[u].code > installed
  BY <1>a, <1>b, Codes DEF OfSeen, UpdTypes, Part, Apk, File, Code, Run, Number
<1>c. ASSUME worker[u].at \in InFolder, worker[u].alone
      PROVE  /\ worker[o].at \notin InFolder
             /\ worker[u].at = "rename" => Whole(Part(u))
             /\ worker[u].at \in {"install", "open", "commit"} => Whole(Apk(u))
  BY <1>c DEF AloneIsUndisturbed, o
<1>d. worker'[u].code = worker[u].code => Part(u)' = Part(u) /\ Apk(u)' = Apk(u)
  BY DEF Part, Apk
<1>e. UNCHANGED <<folder, fetched>> => \A f \in File : Whole(f)' <=> Whole(f)
  BY DEF Whole
\* The run itself is not moved, and the other does not come into the folder.
<1>f. ASSUME worker'[u] = worker[u], worker'[o].at \notin InFolder, UNCHANGED <<folder, fetched>> \/ Leaves(Cleaned, fetched)
      PROVE  /\ worker'[o].at \notin InFolder
             /\ worker'[u].at = "rename" => Whole(Part(u))'
             /\ worker'[u].at \in {"install", "open", "commit"} => Whole(Apk(u))'
  <2>1. Part(u) \in File /\ Apk(u) \in File /\ worker[u].code > installed
    BY <1>b, <1>f
  <2>2. Cleaned[Part(u)] = folder[Part(u)] /\ Cleaned[Apk(u)] = folder[Apk(u)]
    <3>1. Part(u)[1] = "part" /\ Apk(u)[2] > installed
      BY <2>1 DEF Part, Apk
    <3> QED
      BY <2>1, <3>1, CleanedFiles
  <2>3. (Whole(Part(u)) => Whole(Part(u))') /\ (Whole(Apk(u)) => Whole(Apk(u))')
    <3>1. \A f \in {Part(u), Apk(u)} : UNCHANGED <<folder, fetched>> /\ Whole(f) => Whole(f)'
      BY <1>e, <2>1
    <3>2. \A f \in {Part(u), Apk(u)} : Leaves(Cleaned, fetched) /\ Whole(f) => Whole(f)'
      BY <2>1, <2>2, CleanedFiles, WholeStays
    <3>3. \A f \in {Part(u), Apk(u)} : Whole(f) => Whole(f)'
      BY <1>f, <3>1, <3>2
    <3> QED
      BY <1>d, <1>f, <3>3 DEF Whole, Part, Apk
  <2> QED
    BY <1>c, <1>f, <2>3
<1> DEFINE Goal == /\ worker'[o].at \notin InFolder
                   /\ worker'[u].at = "rename" => Whole(Part(u))'
                   /\ worker'[u].at \in {"install", "open", "commit"} => Whole(Apk(u))'
<1>g. SUFFICES Goal
  BY DEF o
<1> HIDE DEF Goal
<1>1. CASE UNCHANGED <<worker, folder, fetched>>
  <2>1. worker'[o].at \notin InFolder
    BY <1>1, <1>c
  <2> QED
    BY <1>1, <1>f, <2>1 DEF Goal
<1>2. CASE Opens \/ ScreenAsks \/ JobStarts
  <2>1. UNCHANGED <<folder, fetched>>
    BY <1>2 DEF Opens, ScreenAsks, QueuesCheck, JobStarts
  <2>2. UNCHANGED worker \/ Goes("screen", "asked") \/ Goes("job", "asked")
    BY <1>2 DEF Opens, ScreenAsks, QueuesCheck, JobStarts
  <2>3. worker'[u] = worker[u] /\ (worker'[o] = worker[o] \/ worker'[o].at = "asked")
    BY <2>2, <1>0, GoesTo DEF Worker, Checking, InFolder
  <2>4. worker'[o].at \notin InFolder
    BY <2>3, <1>c DEF InFolder
  <2> QED
    BY <2>1, <2>3, <2>4, <1>f DEF Goal
<1>3. CASE Killed \/ \E w \in Worker : Installs(w)
  <2>1. worker'[u] = Rest
    BY <1>3 DEF Killed, AppDies, Installs
  <2> QED
    BY <2>1, RestIsRun DEF InFolder
\* What is left is a step of the run itself, or of one outside the folder.
<1>4. ASSUME NEW w \in Worker, RunOver(w), UNCHANGED <<folder, fetched>> \/ Leaves(Cleaned, fetched) PROVE Goal
  <2>1. w = o
    BY <1>0, <1>4, RestsAfter DEF InFolder
  <2>2. worker'[u] = worker[u] /\ worker'[o].at \notin InFolder
    BY <1>0, <1>4, <2>1, RestsAfter DEF InFolder
  <2> QED
    BY <1>4, <2>2, <1>f DEF Goal
<1>5. ASSUME NEW w \in Worker, NEW r, r.at \notin InFolder, worker' = [worker EXCEPT ![w] = r],
             UNCHANGED <<folder, fetched>> \/ Leaves(Cleaned, fetched)
      PROVE  Goal
  <2>1. w = o
    BY <1>0, <1>5 DEF UpdTypes
  <2>2. worker'[u] = worker[u] /\ worker'[o].at \notin InFolder
    BY <1>0, <1>5, <2>1 DEF UpdTypes
  <2> QED
    BY <1>5, <2>2, <1>f DEF Goal
<1>6. ASSUME NEW w \in Worker, CheckEnds(w) PROVE Goal
  BY <1>4, <1>6 DEF CheckEnds
<1>7. ASSUME NEW w \in Worker, NEW m \in Manifests, Verifies(w, m) PROVE Goal
  <2>1. [at |-> "store", code |-> m.code, min |-> m.min, stores |-> Stores(m), alone |-> TRUE].at \notin InFolder
    BY DEF InFolder
  <2> QED
    BY <1>4, <1>5, <1>7, <2>1 DEF Verifies
<1>8. ASSUME NEW w \in Worker, Remembers(w) PROVE Goal
  <2>1. RunOf("fetch", worker[w].code, TRUE).at \notin InFolder
    BY DEF InFolder, RunOf
  <2> QED
    BY <1>4, <1>5, <1>8, <2>1 DEF Remembers
<1>9. CASE Fetches(u)
  <2>1. worker'[o].at \notin InFolder /\ worker'[u].at = "download"
    BY <1>0, <1>9 DEF Fetches, RunOf, o, UpdTypes, Run
  <2> QED
    BY <2>1 DEF Goal
<1>10. CASE Fetches(o)
  <2>1. worker'[u].at = worker[u].at /\ worker'[u].alone = FALSE
    BY <1>0, <1>10, <1>a DEF Fetches, Run
  <2> QED
    BY <2>1
\* A step inside the folder is then of the run itself, for the other is not there.
<1>11. ASSUME NEW w \in Worker, worker[w].at \in InFolder, worker'[w].at \in InFolder, worker'[w].alone = worker[w].alone,
              \A v \in Worker \ {w} : worker'[v] = worker[v]
       PROVE  w = u /\ worker[u].alone /\ worker'[o].at \notin InFolder
  BY <1>0, <1>11, <1>c
<1>12. ASSUME NEW w \in Worker, Downloads(w) PROVE Goal
  <2>1. CASE Goes(w, "verify")
    <3>1. w = u /\ worker'[u].at = "verify" /\ worker'[o].at \notin InFolder
      BY <1>11, <1>12, <2>1, GoesTo DEF Downloads, InFolder
    <3> QED
      BY <3>1 DEF Goal
  <2>2. CASE RunOver(w)
    BY <1>0, <1>c, <1>12, <2>2, RestsAfter DEF Downloads, InFolder
  <2> QED
    BY <1>12, <2>1, <2>2 DEF Downloads
<1>13. ASSUME NEW w \in Worker, ChecksFile(w) PROVE Goal
  <2>1. CASE Verified(w)
    <3>1. Goes(w, "rename") /\ UNCHANGED <<folder, fetched>>
      BY <1>13, <2>1 DEF ChecksFile
    <3>2. w = u /\ worker'[u].at = "rename" /\ worker'[o].at \notin InFolder /\ worker'[u].code = worker[u].code
      BY <1>11, <1>13, <3>1, GoesTo DEF ChecksFile, InFolder
    <3>3. Whole(Part(u))'
      BY <2>1, <3>1, <3>2, <1>d DEF Verified, Whole
    <3> QED
      BY <3>2, <3>3 DEF Goal
  <2>2. CASE ~Verified(w)
    BY <1>0, <1>c, <1>13, <2>2, RestsAfter DEF ChecksFile, InFolder
  <2> QED
    BY <2>1, <2>2
<1>14. ASSUME NEW w \in Worker, Renames(w) PROVE Goal
  <2>1. CASE RunOver(w)
    BY <1>0, <1>c, <1>14, <2>1, RestsAfter DEF Renames, InFolder
  <2>2. CASE Goes(w, "install") /\ Leaves([folder EXCEPT ![Apk(w)] = folder[Part(w)], ![Part(w)] = "none"], fetched)
    <3>1. w = u /\ worker[u].alone /\ worker'[u].at = "install" /\ worker'[o].at \notin InFolder /\ worker'[u].code = worker[u].code
      BY <1>11, <1>14, <2>2, GoesTo DEF Renames, InFolder
    <3>2. Whole(Part(u)) /\ Part(u) \in File /\ Apk(u) \in File
      BY <1>b, <1>c, <1>14, <3>1 DEF Renames, InFolder
    <3> DEFINE files == [folder EXCEPT ![Apk(u)] = folder[Part(u)], ![Part(u)] = "none"]
    <3>3. files \in [File -> Worker \cup {"none"}] /\ files[Apk(u)] = folder[Part(u)]
      BY <3>2 DEF UpdTypes, Part, Apk
    <3> HIDE DEF files
    <3>4. Leaves(files, fetched)
      BY <2>2, <3>1 DEF files
    <3>5. \A g \in File : files[g] = folder[Part(u)] => Whole(g)'
      BY <3>2, <3>3, <3>4, WholeStays
    <3>6. Whole(Apk(u))'
      BY <1>d, <3>1, <3>2, <3>3, <3>5 DEF Whole
    <3> QED
      BY <3>1, <3>6 DEF Goal
  <2> QED
    BY <1>14, <2>1, <2>2 DEF Renames
<1>15. ASSUME NEW w \in Worker, SetsInstalling(w) \/ OpensSession(w) PROVE Goal
  <2>1. UNCHANGED <<folder, fetched>> /\ worker[w].at \in {"install", "open"}
    BY <1>15 DEF SetsInstalling, OpensSession
  <2>2. Goes(w, "open") \/ Goes(w, "commit")
    BY <1>15 DEF SetsInstalling, OpensSession
  <2>3. /\ w = u /\ worker[u].alone /\ worker'[u].at \in {"open", "commit"} /\ worker'[o].at \notin InFolder
        /\ worker'[u].code = worker[u].code
    BY <1>11, <2>1, <2>2, GoesTo DEF InFolder
  <2>4. Whole(Apk(u))
    BY <1>c, <2>1, <2>3 DEF InFolder
  <2>5. Whole(Apk(u))'
    BY <1>d, <2>1, <2>3, <2>4 DEF Whole
  <2> QED
    BY <2>3, <2>5 DEF Goal
<1>16. ASSUME NEW w \in Worker, Commits(w) PROVE Goal
  BY <1>4, <1>16 DEF Commits
<1> QED
  BY <1>0, <1>1, <1>2, <1>3, <1>6, <1>7, <1>8, <1>9, <1>10, <1>12, <1>13, <1>14, <1>15, <1>16, UpdMoves, ComesIs, Zenon
     DEF updVars, OfferChanges, Hides, Receives, Refuses

\* Only a commit puts a file in flight, and a run that was alone commits what it verified.
LEMMA VerifiedStays ==
  UpdTypes /\ AloneIsUndisturbed /\ VerifiedWhenAlone /\ [UpdNext]_updVars => VerifiedWhenAlone'
<1> SUFFICES ASSUME UpdTypes, AloneIsUndisturbed, VerifiedWhenAlone, [UpdNext]_updVars, NEW u \in Worker,
                    session'[u].at = "committed"
             PROVE  session'[u].good \/ ~session'[u].alone
  BY DEF VerifiedWhenAlone, InFlight
<1>0. InFlight(u) => session[u].good \/ ~session[u].alone
  BY DEF VerifiedWhenAlone
<1>1. CASE session'[u] = session[u]
  BY <1>0, <1>1 DEF InFlight
<1>2. CASE Killed
  BY <1>0, <1>2 DEF InFlight, Killed, AppDies, NoSession
<1>3. ASSUME NEW w \in Worker, OpensSession(w) PROVE FALSE
  BY <1>3 DEF OpensSession, NoSession
<1>4. ASSUME NEW w \in Worker, Commits(w) PROVE session'[u].good \/ ~session'[u].alone
  <2>1. CASE session' = [session EXCEPT ![w] = NoSession]
    <3>1. u # w /\ session'[u] = session[u]
      BY <2>1 DEF UpdTypes, NoSession
    <3> QED
      BY <1>1, <3>1
  <2>2. CASE session' = [session EXCEPT ![w] = [at |-> "committed", code |-> worker[w].code, good |-> Whole(Apk(w)), alone |-> worker[w].alone]]
    <3>1. CASE u = w
      <4>1. worker[w].alone => Whole(Apk(w))
        BY <1>4 DEF AloneIsUndisturbed, Commits, InFolder
      <4>2. session'[u].good = Whole(Apk(w)) /\ session'[u].alone = worker[w].alone
        BY <2>2, <3>1 DEF UpdTypes
      <4> QED
        BY <4>1, <4>2
    <3>2. CASE u # w
      BY <1>1, <2>2, <3>2 DEF UpdTypes
    <3> QED
      BY <3>1, <3>2
  <2> QED
    BY <1>4, <2>1, <2>2 DEF Commits, InstallFails
<1>6. ASSUME NEW w \in Worker, Refuses(w) PROVE session'[u].good \/ ~session'[u].alone
  <2>1. u # w /\ session'[u] = session[u]
    BY <1>6 DEF Refuses, UpdTypes, NoSession
  <2> QED
    BY <1>1, <2>1
<1>7. ASSUME NEW w \in Worker, Installs(w) PROVE session'[u].good \/ ~session'[u].alone
  <2>1. session'[u] = session[u]
    BY <1>7 DEF Installs, NoSession
  <2> QED
    BY <1>1, <2>1
<1>8. CASE UNCHANGED session
  BY <1>1, <1>8
<1> QED
  BY <1>2, <1>3, <1>4, <1>6, <1>7, <1>8, UpdMoves, ComesIs, Zenon DEF updVars, OfferChanges, Opens, Hides, ScreenAsks,
     JobStarts, Receives, CheckEnds, Verifies, Remembers, Fetches, Downloads, ChecksFile, Renames, SetsInstalling

\* The mark stands for something as long as no process died between setting it and the commit.
LEMMA InstallingStays == UpdTypes /\ InstallingIsReal /\ [UpdNext]_updVars => InstallingIsReal'
<1> DEFINE Held == \E w \in Worker : worker[w].at \in {"open", "commit"} \/ InFlight(w)
<1>0. InstallingIsReal = (installing # 0 /\ ~orphaned => Held \/ answered)
  BY DEF InstallingIsReal
<1> SUFFICES ASSUME UpdTypes, installing # 0 /\ ~orphaned => Held \/ answered, [UpdNext]_updVars,
                    installing' # 0, ~orphaned'
             PROVE  Held' \/ answered'
  BY DEF InstallingIsReal
<1>1. ASSUME \A u \in Worker : \/ worker'[u].at = worker[u].at
                               \/ worker[u].at \notin {"open", "commit"},
             UNCHANGED <<session, installing, answered, orphaned>>
      PROVE  Held' \/ answered'
  BY <1>1 DEF InFlight
<1>2. ASSUME NEW w \in Worker, NEW at \in Checking \cup InFolder, Goes(w, at), worker[w].at \notin {"open", "commit"}
      PROVE  \A u \in Worker : worker'[u].at = worker[u].at \/ worker[u].at \notin {"open", "commit"}
  BY <1>2, GoesTo
<1>3. ASSUME NEW w \in Worker, RunOver(w), worker[w].at \notin {"open", "commit"}
      PROVE  \A u \in Worker : worker'[u].at = worker[u].at \/ worker[u].at \notin {"open", "commit"}
  BY <1>3, RestsAfter
<1>4. CASE UNCHANGED <<worker, session, installing, answered, orphaned>>
  BY <1>1, <1>4
<1>5. CASE Opens \/ ScreenAsks \/ JobStarts
  <2>1. UNCHANGED <<session, installing, answered, orphaned>>
    BY <1>5 DEF Opens, ScreenAsks, QueuesCheck, JobStarts, hist
  <2>2. "screen" \in Worker /\ "job" \in Worker /\ "asked" \in Checking
    BY DEF Worker, Checking
  <2>3. \A u \in Worker : worker'[u].at = worker[u].at \/ worker[u].at \notin {"open", "commit"}
    <3>1. CASE UNCHANGED worker
      BY <3>1
    <3>2. CASE Goes("screen", "asked") /\ worker["screen"].at = "idle"
      BY <1>2, <2>2, <3>2
    <3>3. CASE Goes("job", "asked") /\ worker["job"].at = "idle"
      BY <1>2, <2>2, <3>3
    <3>4. Opens => UNCHANGED worker \/ (Goes("screen", "asked") /\ worker["screen"].at = "idle")
      BY DEF Opens, QueuesCheck
    <3>5. ScreenAsks => Goes("screen", "asked") /\ worker["screen"].at = "idle"
      BY DEF ScreenAsks, QueuesCheck
    <3>6. JobStarts => Goes("job", "asked") /\ worker["job"].at = "idle"
      BY DEF JobStarts
    <3> QED
      BY <1>5, <3>1, <3>2, <3>3, <3>4, <3>5, <3>6
  <2> QED
    BY <1>1, <2>1, <2>3
<1>6. ASSUME NEW w \in Worker, CheckEnds(w) PROVE Held' \/ answered'
  BY <1>1, <1>3, <1>6 DEF CheckEnds, HasTurn, hist
<1>7. ASSUME NEW w \in Worker, NEW m \in Manifests, Verifies(w, m) PROVE Held' \/ answered'
  <2>1. \A u \in Worker : worker'[u].at = worker[u].at \/ worker[u].at \notin {"open", "commit"}
    BY <1>3, <1>7 DEF Verifies, HasTurn, UpdTypes
  <2> QED
    BY <1>1, <1>7, <2>1 DEF Verifies
<1>8. ASSUME NEW w \in Worker, Remembers(w) PROVE Held' \/ answered'
  <2>1. \A u \in Worker : worker'[u].at = worker[u].at \/ worker[u].at \notin {"open", "commit"}
    BY <1>3, <1>8 DEF Remembers, UpdTypes
  <2> QED
    BY <1>1, <1>8, <2>1 DEF Remembers
<1>9. ASSUME NEW w \in Worker, Fetches(w) PROVE Held' \/ answered'
  <2>1. \A u \in Worker : worker'[u].at = worker[u].at \/ worker[u].at \notin {"open", "commit"}
    BY <1>9 DEF Fetches, UpdTypes, Run
  <2> QED
    BY <1>1, <1>9, <2>1 DEF Fetches, hist
<1>10. ASSUME NEW w \in Worker, Downloads(w) \/ ChecksFile(w) \/ Renames(w) PROVE Held' \/ answered'
  <2>1. worker[w].at \notin {"open", "commit"} /\ UNCHANGED <<session, installing, answered, orphaned>>
    BY <1>10 DEF Downloads, ChecksFile, Renames, hist
  <2>2. RunOver(w) \/ \E at \in Checking \cup InFolder : Goes(w, at)
    BY <1>10 DEF Downloads, ChecksFile, Renames, InFolder
  <2> QED
    BY <1>1, <1>2, <1>3, <2>1, <2>2
<1>11. ASSUME NEW w \in Worker, SetsInstalling(w) PROVE Held' \/ answered'
  <2>1. worker'[w].at = "open"
    BY <1>11, GoesTo DEF SetsInstalling, InFolder
  <2> QED
    BY <2>1
<1>12. ASSUME NEW w \in Worker, OpensSession(w) PROVE Held' \/ answered'
  <2>1. worker'[w].at = "commit"
    BY <1>12, GoesTo DEF OpensSession, InFolder
  <2> QED
    BY <2>1
<1>13. ASSUME NEW w \in Worker, Commits(w) PROVE Held' \/ answered'
  <2>1. session'[w].at = "committed"
    BY <1>13 DEF Commits, InstallFails, UpdTypes
  <2> QED
    BY <2>1 DEF InFlight
<1>14. CASE Killed
  <2>1. \A u \in Worker : InFlight(u) => InFlight(u)'
    BY <1>14 DEF Killed, AppDies, InFlight
  <2>2. ~(\E u \in Worker : worker[u].at \in {"open", "commit"}) /\ ~orphaned /\ UNCHANGED <<installing, answered>>
    BY <1>14 DEF Killed, AppDies
  <2> QED
    BY <2>1, <2>2
<1>16. CASE (\E w \in Worker : Installs(w) \/ Refuses(w)) \/ Receives
  BY <1>16 DEF Installs, Refuses, Receives
<1> QED
  BY <1>4, <1>5, <1>6, <1>7, <1>8, <1>9, <1>10, <1>11, <1>12, <1>13, <1>14, <1>16, UpdMoves, ComesIs, Zenon
     DEF updVars, hist, OfferChanges, Hides

\* As long as two checks do not store at once, the second sees what the first stored.
LEMMA StoresStay == UpdTypes /\ OfSeen /\ StoresAreCurrent /\ [UpdNext]_updVars => StoresAreCurrent'
<1> SUFFICES ASSUME UpdTypes, OfSeen, StoresAreCurrent, [UpdNext]_updVars, ~crossed'
             PROVE  /\ lastSeen' >= highest'
                    /\ \A w \in Worker : worker'[w].at = "store" =>
                         worker'[Other(w)].at # "store" /\ (worker'[w].code > lastSeen' <=> "seen" \in worker'[w].stores)
  BY DEF StoresAreCurrent
<1>0. /\ lastSeen \in Nat /\ highest \in Nat /\ \A u \in Worker : worker[u].code \in Nat
      /\ \A u \in Worker : Other(u) \in Worker /\ Other(u) # u /\ \A v \in Worker : v # u => v = Other(u)
  BY Codes, Others DEF UpdTypes, Run, Worker
<1>1. ASSUME UNCHANGED <<lastSeen, highest, crossed>>,
             \A u \in Worker : worker'[u].at = "store" =>
               worker[u].at = "store" /\ worker'[u].code = worker[u].code /\ worker'[u].stores = worker[u].stores
      PROVE  /\ lastSeen' >= highest'
             /\ \A w \in Worker : worker'[w].at = "store" =>
                  worker'[Other(w)].at # "store" /\ (worker'[w].code > lastSeen' <=> "seen" \in worker'[w].stores)
  BY <1>0, <1>1 DEF StoresAreCurrent
<1>2. ASSUME NEW w \in Worker, Remembers(w)
      PROVE  /\ lastSeen' >= highest'
             /\ \A u \in Worker : worker'[u].at # "store"
  <2>1. /\ ~crossed /\ worker[w].at = "store" /\ worker[Other(w)].at # "store" /\ lastSeen >= highest
        /\ worker[w].code > lastSeen <=> "seen" \in worker[w].stores
    BY <1>2 DEF Remembers, StoresAreCurrent
  <2>2. /\ lastSeen' = IF worker[w].code > lastSeen THEN worker[w].code ELSE lastSeen
        /\ highest' = IF worker[w].code > highest THEN worker[w].code ELSE highest
    BY <1>2, <2>1 DEF Remembers
  <2>3. worker'[w].at # "store" /\ \A u \in Worker \ {w} : worker'[u] = worker[u]
    BY <1>2, RestsAfter DEF Remembers, RunOf, UpdTypes
  <2> QED
    BY <1>0, <2>1, <2>2, <2>3
<1>3. ASSUME NEW w \in Worker, NEW m \in Manifests, Verifies(w, m)
      PROVE  /\ lastSeen' >= highest'
             /\ \A u \in Worker : worker'[u].at = "store" =>
                  worker'[Other(u)].at # "store" /\ (worker'[u].code > lastSeen' <=> "seen" \in worker'[u].stores)
  <2>1. UNCHANGED <<lastSeen, highest>> /\ worker[w].at = "asked"
    BY <1>3 DEF Verifies, HasTurn, prefs
  <2>2. CASE RunOver(w) /\ UNCHANGED crossed
    <3>1. \A u \in Worker : worker'[u].at = "store" => worker'[u] = worker[u]
      BY <2>2, RestsAfter
    <3> QED
      BY <1>1, <2>1, <2>2, <3>1
  <2>3. CASE ~Stale(m)
    <3>1. ~crossed /\ worker[Other(w)].at # "store"
      BY <1>3, <2>3 DEF Verifies
    <3>2. worker' = [worker EXCEPT ![w] = [at |-> "store", code |-> m.code, min |-> m.min, stores |-> Stores(m), alone |-> TRUE]]
      BY <1>3, <2>3 DEF Verifies
    <3>3. worker'[w].code = m.code /\ worker'[w].stores = Stores(m) /\ \A u \in Worker \ {w} : worker'[u] = worker[u]
      BY <3>2 DEF UpdTypes
    <3>4. m.code > lastSeen <=> "seen" \in Stores(m)
      BY DEF Stores
    <3> QED
      BY <1>0, <2>1, <3>1, <3>3, <3>4 DEF StoresAreCurrent
  <2> QED
    BY <1>3, <2>2, <2>3 DEF Verifies
<1>4. ASSUME UNCHANGED <<lastSeen, highest, crossed>>, ~\E w \in Worker : \E m \in Manifests : Verifies(w, m),
             ~\E w \in Worker : Remembers(w)
      PROVE  \A u \in Worker : worker'[u].at = "store" =>
               worker[u].at = "store" /\ worker'[u].code = worker[u].code /\ worker'[u].stores = worker[u].stores
  <2> SUFFICES ASSUME NEW u \in Worker, worker'[u].at = "store"
               PROVE  worker[u].at = "store" /\ worker'[u].code = worker[u].code /\ worker'[u].stores = worker[u].stores
    OBVIOUS
  <2>1. worker'[u] # Rest /\ worker'[u].at \notin InFolder
    BY RestIsRun DEF InFolder
  <2> QED
    BY <1>4, <2>1, RunsMove
<1>5. \/ UNCHANGED <<lastSeen, highest, crossed>>
      \/ \E w \in Worker : Remembers(w) \/ \E m \in Manifests : Verifies(w, m)
  <2>1. CASE \/ UNCHANGED updVars
             \/ OfferChanges \/ Opens \/ Hides \/ Comes \/ ScreenAsks \/ JobStarts \/ Killed \/ Receives
    BY <2>1, ComesIs DEF updVars, prefs, hist, OfferChanges, Opens, Hides, ScreenAsks, JobStarts, Killed, AppDies, Receives
  <2>2. ASSUME NEW w \in Worker,
               \/ CheckEnds(w) \/ Fetches(w) \/ Downloads(w) \/ ChecksFile(w) \/ Renames(w) \/ SetsInstalling(w)
               \/ OpensSession(w) \/ Commits(w) \/ Refuses(w) \/ Installs(w)
        PROVE  UNCHANGED <<lastSeen, highest, crossed>>
    BY <2>2 DEF prefs, hist, CheckEnds, Fetches, Downloads, ChecksFile, Renames, SetsInstalling, OpensSession,
       Commits, Refuses, Installs
  <2> QED
    BY <2>1, <2>2, UpdMoves, Zenon
<1> QED
  BY <1>1, <1>2, <1>3, <1>4, <1>5

\* The screen's check blocks it when it ends; a minimum that the job stores later is noted.
LEMMA BlockedStays == UpdTypes /\ UiTypes /\ PastIsBlocked /\ [UpdNext]_updVars => PastIsBlocked'
<1> SUFFICES ASSUME UpdTypes, UiTypes, PastIsBlocked, [UpdNext]_updVars,
                    face' \in {"web", "door"} \/ entry' # "none", MustUpdate',
                    worker'["screen"].at \notin {"asked", "store"},
                    visible' \/ worker'["screen"].at # "idle"
             PROVE  lateMin' \/ slipped'
  BY DEF PastIsBlocked
<1> DEFINE s == worker["screen"]
<1>0. "screen" \in Worker /\ "job" \in Worker
  BY DEF Worker
<1>1. ASSUME UNCHANGED <<installed, minSupported, lateMin, slipped>>,
             face' \in {"web", "door"} \/ entry' # "none" => face \in {"web", "door"} \/ entry # "none",
             visible' => visible \/ s.at # "idle",
             \/ worker'["screen"].at = s.at
             \/ s.at \notin {"asked", "store", "idle"}
      PROVE  lateMin' \/ slipped'
  BY <1>1 DEF PastIsBlocked, MustUpdate
<1>a. UNCHANGED ui => UNCHANGED <<visible, face, entry, slipped>>
  BY DEF ui
<1>2. CASE Opens
  <2>1. UNCHANGED <<worker, lateMin, slipped, entry, installed, minSupported>> /\ s.at # "idle"
    <3>1. s.at # "idle"
      BY <1>2, GoesTo, <1>0 DEF Opens, QueuesCheck, Checking
    <3> QED
      BY <1>2, <3>1 DEF Opens, prefs
  <2>2. face' \in {"web", "door"} => face \in {"web", "door"}
    <3>1. MustUpdate
      BY <2>1 DEF MustUpdate
    <3> QED
      BY <1>2, <3>1 DEF Opens, UiTypes
  <2> QED
    BY <1>1, <2>1, <2>2
<1>3. CASE Hides
  BY <1>3, <1>1 DEF Hides, prefs, hist
<1>b. CASE Comes
  <2>1. UNCHANGED <<visible, slipped>> /\ (face \in {"web", "door"} \/ entry # "none")
    BY <1>b DEF Comes, Prompts, StartsSession, OpensWeb, Queued
  <2> QED
    BY <1>1, <1>b, <2>1, ComesIs
<1>4. CASE ScreenAsks
  BY <1>4, <1>0, GoesTo DEF ScreenAsks, QueuesCheck, Checking
<1>5. CASE JobStarts
  <2>1. worker'["screen"] = worker["screen"]
    BY <1>5, <1>0, GoesTo DEF JobStarts, Checking
  <2> QED
    BY <1>1, <1>5, <1>a, <2>1 DEF JobStarts, prefs, hist
<1>6. CASE Killed \/ \E w \in Worker : Installs(w)
  BY <1>6 DEF Killed, AppDies, Installs
<1>7. CASE AfterCheck("screen")
  <2>1. face' = "force" /\ entry' = entry /\ slipped' = (slipped \/ entry # "none")
    BY <1>7 DEF AfterCheck
  <2> QED
    BY <2>1
<1>8. AfterCheck("job") => UNCHANGED <<visible, face, entry>> /\ (slipped => slipped')
  BY DEF AfterCheck
<1>9. ASSUME NEW w \in Worker, CheckEnds(w) PROVE lateMin' \/ slipped'
  <2>1. CASE w = "job"
    <3>1. worker'["screen"] = worker["screen"]
      BY <1>0, <1>9, <2>1, RestsAfter DEF CheckEnds
    <3>2. UNCHANGED <<installed, minSupported, lateMin>> /\ AfterCheck("job")
      BY <1>9, <2>1 DEF CheckEnds, prefs, hist
    <3> QED
      BY <1>8, <3>1, <3>2 DEF PastIsBlocked, MustUpdate
  <2> QED
    BY <1>7, <1>9, <2>1 DEF CheckEnds, Worker
<1>10. ASSUME NEW w \in Worker, NEW m \in Manifests, Verifies(w, m) PROVE lateMin' \/ slipped'
  <2>1. CASE w = "job"
    <3>1. worker'["screen"] = worker["screen"]
      <4>1. CASE RunOver("job")
        BY <1>0, <4>1, RestsAfter
      <4>2. CASE \E r : worker' = [worker EXCEPT !["job"] = r]
        BY <1>0, <4>2 DEF UpdTypes
      <4> QED
        BY <1>10, <2>1, <4>1, <4>2 DEF Verifies
    <3>2. UNCHANGED <<installed, minSupported, lateMin>> /\ (AfterCheck("job") \/ UNCHANGED ui)
      BY <1>10, <2>1 DEF Verifies, prefs
    <3> QED
      BY <1>8, <1>a, <3>1, <3>2 DEF PastIsBlocked, MustUpdate
  <2>2. CASE w = "screen" /\ ~Stale(m)
    BY <1>0, <1>10, <2>2 DEF Verifies, UpdTypes
  <2>3. CASE w = "screen" /\ Stale(m)
    BY <1>7, <1>10, <2>3 DEF Verifies
  <2> QED
    BY <2>1, <2>2, <2>3 DEF Worker
<1>11. ASSUME NEW w \in Worker, Remembers(w) PROVE lateMin' \/ slipped'
  <2>1. CASE w = "screen"
    BY <1>7, <1>11, <2>1 DEF Remembers
  <2>2. CASE w = "job"
    <3>1. worker'["screen"] = worker["screen"]
      <4>1. CASE RunOver("job")
        BY <1>0, <4>1, RestsAfter
      <4>2. CASE \E r : worker' = [worker EXCEPT !["job"] = r]
        BY <1>0, <4>2 DEF UpdTypes
      <4> QED
        BY <1>11, <2>2, <4>1, <4>2 DEF Remembers
    <3>2. UNCHANGED <<visible, face, entry, installed>> /\ (slipped => slipped') /\ (lateMin => lateMin')
      BY <1>8, <1>11, <2>2 DEF Remembers
    <3>3. CASE minSupported' = minSupported
      BY <3>1, <3>2, <3>3 DEF PastIsBlocked, MustUpdate
    <3>4. CASE minSupported' # minSupported
      <4>1. ScreenIsPast
        BY <3>1, <3>2 DEF ScreenIsPast
      <4> QED
        BY <1>11, <2>2, <3>4, <4>1 DEF Remembers
    <3> QED
      BY <3>3, <3>4
  <2> QED
    BY <2>1, <2>2 DEF Worker
<1>12. ASSUME NEW w \in Worker, Fetches(w) PROVE lateMin' \/ slipped'
  <2>1. worker'["screen"].at = s.at \/ s.at = "fetch"
    BY <1>0, <1>12 DEF Fetches, UpdTypes, Run
  <2> QED
    BY <1>1, <1>12, <1>a, <2>1 DEF Fetches, prefs, hist
<1>13. ASSUME NEW w \in Worker,
              \/ Downloads(w) \/ ChecksFile(w) \/ Renames(w) \/ SetsInstalling(w) \/ OpensSession(w) \/ Commits(w)
       PROVE  lateMin' \/ slipped'
  <2>1. /\ UNCHANGED <<installed, minSupported, lateMin, ui>> /\ worker[w].at \in InFolder
        /\ RunOver(w) \/ \E at \in Checking \cup InFolder : Goes(w, at)
    BY <1>13 DEF Downloads, ChecksFile, Renames, SetsInstalling, OpensSession, Commits, prefs, hist, InFolder
  <2>2. worker'["screen"] = s \/ s.at \in InFolder
    BY <1>0, <2>1, GoesTo, RestsAfter
  <2> QED
    BY <1>1, <1>a, <2>1, <2>2 DEF InFolder
<1>14. CASE UNCHANGED <<installed, minSupported, lateMin, ui, worker>>
  BY <1>1, <1>a, <1>14
<1> QED
  BY <1>2, <1>3, <1>b, <1>4, <1>5, <1>6, <1>9, <1>10, <1>11, <1>12, <1>13, <1>14, UpdMoves, Zenon DEF updVars, prefs, hist,
     OfferChanges, Receives, Refuses

LEMMA UpdStays == UpdInv /\ [UpdNext]_updVars => UpdInv'
  BY UpdTypesStay, UiTypesStay, OfSeenStays, AloneStays, VerifiedStays, InstallingStays, StoresStay, BlockedStays DEF UpdInv

LEMMA UpdInvIsEnough == UpdInv => UpdatesSafe
<1> SUFFICES ASSUME UpdInv PROVE UpdatesSafe
  OBVIOUS
<1>1. UpdTypeOK
  <2>1. {installed, highest} \subseteq 0..LastCode /\ lastSeen <= highest /\ minSupported <= highest /\ installing <= highest
    BY Codes DEF UpdInv, UpdTypes, Number
  <2>2. \A w \in Worker : worker[w].code <= LastCode
    BY Codes DEF UpdInv, UpdTypes, Run
  <2> QED
    BY <2>1, <2>2 DEF UpdInv, UpdTypes, UiTypes, OfSeen, UpdTypeOK
<1>2. SeenIsHighest
  BY DEF UpdInv, StoresAreCurrent, SeenIsHighest
<1>3. BlockedBelowMinimum
  BY DEF UpdInv, PastIsBlocked, BlockedBelowMinimum
<1> QED
  BY <1>1, <1>2, <1>3 DEF UpdInv, UpdatesSafe

\* UpdatesHold: whatever the screen, the job and the death of the process do in between, a run alone in the
\* folder hands over what it verified, the mark of an install stands for one, the highest version seen is
\* not forgotten, and below the minimum no family data are on the screen once its check has ended, but for a
\* minimum that the job learnt later, and for somebody who was on the way in or out when the check ended.
THEOREM UpdatesStaySafe == HostSpec => []UpdatesHold
<1> DEFINE I == part = "updates" => UpdInv
<1>1. HostInit => I
  BY PartStarts, UpdStarts
<1>2. I /\ [HostNext]_hostVars => I'
  BY PartMoves, UpdStays
<1>3. I => UpdatesHold
  BY UpdInvIsEnough DEF UpdatesHold
<1> QED
  BY <1>1, <1>2, <1>3, PTL DEF HostSpec

-----------------------------------------------------------------------------
(* Relay: the state file, the cap, the signatures and the slots.            *)

LEMMA RelayNats ==
  /\ Cap \in Nat \ {0} /\ Threshold \in Nat \ {0} /\ DayLength \in Nat \ {0} /\ HostSlots \in Nat \ {0}
  /\ \A n \in Slots : n \in Nat \ {0}
  /\ CoolDown \in Nat /\ TsWindow \in Nat /\ AuthLimit \in Nat /\ MaxHops \in Nat /\ LastTick \in Nat
  BY RelayNumbers, Zenon

LEMMA SomeHost == (CHOOSE h \in Host : TRUE) \in Host
  BY RelayNames

LEMMA DaysGo ==
  ASSUME NEW s \in Nat, NEW t \in Nat, s <= t
  PROVE  s \div DayLength \in Nat /\ s \div DayLength <= t \div DayLength /\ t \div DayLength <= t
<1> DEFINE a == s \div DayLength
           b == t \div DayLength
<1>1. DayLength \in Nat \ {0}
  BY RelayNats
<1>2. a \in Int /\ b \in Int
  BY <1>1
<1>3. DayLength * a <= s /\ s < DayLength * (a + 1) /\ DayLength * b <= t /\ t < DayLength * (b + 1)
  BY <1>1
<1> HIDE DEF a, b
<1>4. a >= 0 /\ b >= 0
  BY <1>1, <1>2, <1>3, Z3
<1>5. a <= b
  BY <1>1, <1>2, <1>3, Z3
<1>6. b <= t
  BY <1>1, <1>2, <1>3, <1>4, Z3
<1> QED
  BY <1>2, <1>4, <1>5, <1>6 DEF a, b

LEMMA DayIsTick == tick \in 0..LastTick => Day \in 0..LastTick
  BY DaysGo, RelayNats DEF Day

LEMMA FreshIsState == Fresh \in State
  BY RelayNats DEF Fresh, State

LEMMA ParsedIsState == RelayTypes => Parsed(file) \in State
  BY FreshIsState DEF RelayTypes, Parsed

LEMMA TodayIsState ==
  ASSUME RelayTypes, NEW st \in State, NEW more \in Nat
  PROVE  Today(st, more) \in State
<1>1. Day \in 0..LastTick
  BY DayIsTick DEF RelayTypes
<1> QED
  BY <1>1, RelayNats DEF Today, State

LEMMA RecordedIsState ==
  ASSUME RelayTypes, NEW st \in State, NEW h \in Host, NEW bad \in BOOLEAN
  PROVE  Recorded(st, h, bad) \in State
<1> DEFINE opens == bad /\ st.streak[h] + 1 >= Threshold
           streak == [st.streak EXCEPT ![h] = IF bad /\ ~opens THEN @ + 1 ELSE 0]
           until == [st.until EXCEPT ![h] = IF opens THEN tick + CoolDown ELSE @]
<1>1. st.streak \in [Host -> 0..Threshold] /\ st.until \in [Host -> 0..LastTick + CoolDown]
  BY DEF State
<1>2. streak \in [Host -> 0..Threshold]
  BY <1>1, RelayNats
<1>3. until \in [Host -> 0..LastTick + CoolDown]
  BY <1>1, RelayNats DEF RelayTypes
<1>4. Recorded(st, h, bad) = [killed |-> st.killed, day |-> st.day, used |-> st.used, streak |-> streak, until |-> until]
  BY Zenon DEF Recorded
<1> HIDE DEF streak, until
<1> QED
  BY <1>2, <1>3, <1>4 DEF State

LEMMA CommandedIsState ==
  ASSUME NEW st \in State, NEW cmd \in {"off", "on", "reset"}
  PROVE  Commanded(st, cmd) \in State
<1>1. CASE cmd = "off"
  <2>1. Commanded(st, cmd) = [st EXCEPT !.killed = TRUE]
    BY <1>1 DEF Commanded
  <2> QED
    BY <2>1 DEF State
<1>2. CASE cmd = "on"
  <2>1. Commanded(st, cmd) = [st EXCEPT !.killed = FALSE]
    BY <1>2 DEF Commanded
  <2> QED
    BY <2>1 DEF State
<1>3. CASE cmd = "reset"
  <2>1. Commanded(st, cmd) = [st EXCEPT !.streak = Fresh.streak, !.until = Fresh.until]
    BY <1>3 DEF Commanded
  <2>2. Fresh.streak \in [Host -> 0..Threshold] /\ Fresh.until \in [Host -> 0..LastTick + CoolDown]
    BY FreshIsState DEF State
  <2> QED
    BY <2>1, <2>2 DEF State
<1> QED
  BY <1>1, <1>2, <1>3

LEMMA RelayStarts == RelayInit => RelayInv
<1> SUFFICES ASSUME RelayInit PROVE RelayInv
  OBVIOUS
<1>1. RelayTypes
  <2>1. NoWrite \in Way /\ NoRequest \in Request
    BY FreshIsState, SomeHost, RelayNats DEF NoWrite, Way, NoRequest, Request, Place, Sig
  <2>2. Fresh \in State
    BY FreshIsState
  <2>3. tick \in 0..LastTick /\ fails \in [at : 0..LastTick, n : Nat] /\ limit \in Slots /\ slots \in Nat
        /\ hostSlots \in [Host -> Nat] /\ arrived \in Nat /\ events \in Nat
    BY RelayNats DEF RelayInit
  <2>4. file \in State /\ tmp = NoFile /\ lock = "free" /\ wr \in [Writer -> Way] /\ req \in [Thread -> Request]
    BY <2>1, <2>2 DEF RelayInit
  <2>5. seen \subseteq Sig \X Int /\ off \in BOOLEAN /\ raced \in BOOLEAN
    BY DEF RelayInit
  <2>6. served \in [sigs : Seq(Sig), days : [0..LastTick -> Nat]]
    BY DEF RelayInit
  <2>7. \A w \in Writer : wr[w].at = "none"
    BY DEF RelayInit, NoWrite
  <2> QED
    BY <2>3, <2>4, <2>5, <2>6, <2>7 DEF RelayTypes
<1>2. OneHolder
  BY RelayNames DEF RelayInit, OneHolder, NoWrite, NoRequest, Writer
<1>3. FileIsWhole
  BY FreshIsState, RelayFileNames DEF RelayInit, FileIsWhole, NoWrite, Writer
<1>4. OffIsKept
  BY DEF RelayInit, OffIsKept
<1>5. IsFiniteSet(Thread) /\ Cardinality(Thread) \in Nat
  BY RelayNames, FS_CardinalityType
<1>6. CountHolds
  <2>1. Uncounted = {}
    BY DEF RelayInit, Uncounted, NoRequest
  <2>2. Cardinality(Uncounted) = 0
    BY <2>1, FS_EmptySet
  <2>3. Day \in 0..LastTick
    BY DayIsTick, RelayNats DEF RelayInit
  <2>4. file.day = -1 /\ file.used = 0 /\ \A d \in 0..LastTick : served.days[d] = 0
    BY DEF RelayInit, Fresh
  <2>5. 0 <= Cap + Cardinality(Thread) - 1
    BY <1>5, RelayNats
  <2> QED
    BY <2>2, <2>3, <2>4, <2>5 DEF CountHolds
<1>7. CopiesCount
  BY DEF RelayInit, CopiesCount, NoWrite, Writer
<1>8. UntilHolds
  BY RelayNats DEF RelayInit, UntilHolds, NoWrite, Writer, Fresh
<1>9. SeenCovers /\ AcceptedOnce
  BY DEF RelayInit, SeenCovers, AcceptedOnce
<1>10. SlotsCount
  <2>1. WithSlot = {} /\ \A h \in Host : FetchingFrom(h) = {}
    BY DEF RelayInit, WithSlot, FetchingFrom, NoRequest, At
  <2>2. Cardinality(WithSlot) = 0 /\ \A h \in Host : Cardinality(FetchingFrom(h)) = 0
    BY <2>1, FS_EmptySet
  <2> QED
    BY <1>1, <2>2, RelayNats DEF RelayInit, SlotsCount
<1> QED
  BY <1>1, <1>2, <1>3, <1>4, <1>6, <1>7, <1>8, <1>9, <1>10 DEF RelayInv

\* The steps of one request that leave relay.json, its copies and the lock alone.
Aside(r) ==
  \/ \E ts \in tick - TsWindow..tick + TsWindow, h \in Host, honest \in BOOLEAN : Arrive(r, ts, h, honest)
  \/ CheckKill(r) \/ CheckAuth(r) \/ TakeSlot(r) \/ UrlRefused(r) \/ CheckBreaker(r) \/ TakeHost(r)
  \/ \E bad \in BOOLEAN : Fetched(r, bad)
  \/ \E h \in Host : Redirected(r, h)
  \/ NoToken(r) \/ HopFails(r) \/ End(r)

LEMMA RelayMoves ==
  [RelayNext]_relayVars =>
    \/ UNCHANGED relayVars \/ RelayTick
    \/ \E r \in Thread : Aside(r) \/ LoadUse(r) \/ LoadRecord(r) \/ Saved(r)
    \/ \E w \in Writer : OpenTmp(w) \/ WriteTmp(w)
    \/ \E cmd \in {"off", "on", "reset"} : Command(cmd)
    \/ CommandSaved \/ Restart
<1> SUFFICES ASSUME RelayNext
             PROVE  \/ RelayTick
                    \/ \E r \in Thread : Aside(r) \/ LoadUse(r) \/ LoadRecord(r) \/ Saved(r)
                    \/ \E w \in Writer : OpenTmp(w) \/ WriteTmp(w)
                    \/ \E cmd \in {"off", "on", "reset"} : Command(cmd)
                    \/ CommandSaved \/ Restart
  OBVIOUS
<1>1. Ctl \in Writer /\ Thread \subseteq Writer
  BY DEF Writer
<1>2. ASSUME NEW r \in Thread, RequestStep(r)
      PROVE  Aside(r) \/ LoadUse(r) \/ LoadRecord(r) \/ Saved(r) \/ OpenTmp(r) \/ WriteTmp(r)
  BY <1>2, Zenon DEF RequestStep, Save, Aside
<1>3. CASE \E r \in Thread : \E ts \in tick - TsWindow..tick + TsWindow, h \in Host, honest \in BOOLEAN : Arrive(r, ts, h, honest)
  BY <1>3, Zenon DEF Aside
<1>4. CASE \E r \in Thread : RequestStep(r)
  BY <1>1, <1>2, <1>4, Zenon
<1>5. CASE CommandStep
  BY <1>1, <1>5, Zenon DEF CommandStep
<1> QED
  BY <1>3, <1>4, <1>5, Zenon DEF RelayNext

\* What becomes of a request.
LEMMA GotoIs ==
  ASSUME RelayTypes, NEW r \in Thread, NEW pc \in Place, Goto(r, pc)
  PROVE  /\ req' \in [Thread -> Request] /\ req'[r].pc = pc
         /\ req'[r].sig = req[r].sig /\ req'[r].host = req[r].host /\ req'[r].slot = req[r].slot
         /\ \A s \in Thread \ {r} : req'[s] = req[s]
  BY DEF RelayTypes, Goto, Request

LEMMA GoesOnIs ==
  ASSUME RelayTypes, NEW r \in Thread, NEW pc \in Place, NEW host \in Host, NEW hop \in 0..MaxHops,
         NEW bad \in BOOLEAN, NEW slot \in BOOLEAN, GoesOn(r, pc, host, hop, bad, slot)
  PROVE  /\ req' \in [Thread -> Request] /\ req'[r].pc = pc
         /\ req'[r].sig = req[r].sig /\ req'[r].host = host /\ req'[r].slot = slot
         /\ \A s \in Thread \ {r} : req'[s] = req[s]
<1> DEFINE q == [pc |-> pc, sig |-> req[r].sig, honest |-> req[r].honest, host |-> host, hop |-> hop, bad |-> bad, slot |-> slot]
<1>1. req[r].sig \in Sig /\ req[r].honest \in BOOLEAN
  BY DEF RelayTypes, Request
<1>2. q \in Request
  BY <1>1 DEF Request
<1>3. req' = [req EXCEPT ![r] = q]
  BY Zenon DEF GoesOn
<1> QED
  BY <1>2, <1>3 DEF RelayTypes

LEMMA NoRequestIs == NoRequest \in Request /\ NoRequest.pc = "idle" /\ ~NoRequest.slot
  BY SomeHost, RelayNats DEF NoRequest, Request, Place, Sig

LEMMA EndIs ==
  ASSUME RelayTypes, NEW r \in Thread, End(r)
  PROVE  /\ req' \in [Thread -> Request] /\ req'[r].pc = "idle" /\ ~req'[r].slot
         /\ \A s \in Thread \ {r} : req'[s] = req[s]
  BY NoRequestIs DEF RelayTypes, End

LEMMA ArriveIs ==
  ASSUME RelayTypes, NEW r \in Thread, NEW ts \in tick - TsWindow..tick + TsWindow, NEW h \in Host,
         NEW honest \in BOOLEAN, Arrive(r, ts, h, honest)
  PROVE  /\ req' \in [Thread -> Request] /\ req'[r].pc = "kill" /\ req'[r].slot = FALSE
         /\ \A s \in Thread \ {r} : req'[s] = req[s]
<1> DEFINE q == [pc |-> "kill", sig |-> <<ts, h>>, honest |-> honest, host |-> h, hop |-> 0, bad |-> FALSE, slot |-> FALSE]
<1>1. ts \in Int
  BY RelayNats DEF RelayTypes
<1>2. q \in Request
  BY <1>1, RelayNats DEF Request, Place, Sig
<1>3. req' = [req EXCEPT ![r] = q]
  BY Zenon DEF Arrive
<1> QED
  BY <1>2, <1>3 DEF RelayTypes

LEMMA AsideIs ==
  ASSUME RelayTypes, NEW r \in Thread, Aside(r)
  PROVE  /\ UNCHANGED <<tick, relayFiles, limit, events, off, raced>>
         /\ req' \in [Thread -> Request] /\ \A s \in Thread \ {r} : req'[s] = req[s]
         /\ req[r].pc \notin InFile
         /\ req'[r].pc \in {"auth", "slot", "use"} => req[r].pc \in {"auth", "slot"}
         /\ arrived' \in Nat
<1>1. CASE \E ts \in tick - TsWindow..tick + TsWindow, h \in Host, honest \in BOOLEAN : Arrive(r, ts, h, honest)
  <2>1. PICK ts \in tick - TsWindow..tick + TsWindow, h \in Host, honest \in BOOLEAN : Arrive(r, ts, h, honest)
    BY <1>1
  <2>2. req' \in [Thread -> Request] /\ req'[r].pc = "kill" /\ \A s \in Thread \ {r} : req'[s] = req[s]
    BY <2>1, ArriveIs
  <2> QED
    BY <2>1, <2>2 DEF Arrive, At, InFile, RelayTypes, relayHistory
<1>2. ASSUME NEW pc \in Place, Goto(r, pc), UNCHANGED <<tick, relayFiles, relayCount, off, raced>>,
             req[r].pc \notin InFile, pc \in {"auth", "slot", "use"} => req[r].pc \in {"auth", "slot"}
      PROVE  /\ UNCHANGED <<tick, relayFiles, limit, events, off, raced>>
             /\ req' \in [Thread -> Request] /\ \A s \in Thread \ {r} : req'[s] = req[s]
             /\ req[r].pc \notin InFile
             /\ req'[r].pc \in {"auth", "slot", "use"} => req[r].pc \in {"auth", "slot"}
             /\ arrived' \in Nat
  BY <1>2, GotoIs DEF relayCount, RelayTypes
<1>3. CASE CheckKill(r) \/ UrlRefused(r) \/ CheckBreaker(r) \/ TakeHost(r) \/ NoToken(r) \/ HopFails(r)
  <2>1. UNCHANGED <<tick, relayFiles, relayCount, off, raced>> /\ req[r].pc \in {"kill", "check", "host", "fetch"}
    BY <1>3 DEF CheckKill, UrlRefused, CheckBreaker, TakeHost, NoToken, HopFails, At, relayHistory
  <2>2. \E pc \in {"end", "cap", "host", "fetch"} : Goto(r, pc)
    BY <1>3, Zenon DEF CheckKill, UrlRefused, CheckBreaker, TakeHost, NoToken, HopFails, Refuse
  <2> QED
    BY <1>2, <2>1, <2>2 DEF Place, InFile
<1>4. CASE CheckAuth(r)
  <2>1. UNCHANGED <<tick, relayFiles, relayCount, off, raced>> /\ req[r].pc = "auth"
    BY <1>4 DEF CheckAuth, At
  <2>2. \E pc \in {"end", "slot"} : Goto(r, pc)
    BY <1>4, Zenon DEF CheckAuth, Refuse
  <2> QED
    BY <1>2, <2>1, <2>2 DEF Place, InFile
<1>5. ASSUME NEW pc \in Place, NEW host \in Host, NEW hop \in 0..MaxHops, NEW bad \in BOOLEAN, NEW slot \in BOOLEAN,
             GoesOn(r, pc, host, hop, bad, slot), UNCHANGED <<tick, relayFiles, relayCount, off, raced>>,
             req[r].pc \notin InFile, pc \in {"auth", "slot", "use"} => req[r].pc \in {"auth", "slot"}
      PROVE  /\ UNCHANGED <<tick, relayFiles, limit, events, off, raced>>
             /\ req' \in [Thread -> Request] /\ \A s \in Thread \ {r} : req'[s] = req[s]
             /\ req[r].pc \notin InFile
             /\ req'[r].pc \in {"auth", "slot", "use"} => req[r].pc \in {"auth", "slot"}
             /\ arrived' \in Nat
  BY <1>5, GoesOnIs DEF relayCount, RelayTypes
<1>6. req[r].host \in Host /\ req[r].hop \in 0..MaxHops /\ req[r].bad \in BOOLEAN /\ req[r].slot \in BOOLEAN
  BY DEF RelayTypes, Request
<1>7. CASE TakeSlot(r)
  <2>1. UNCHANGED <<tick, relayFiles, relayCount, off, raced>> /\ req[r].pc = "slot"
    BY <1>7 DEF TakeSlot, At, relayHistory
  <2>2. Goto(r, "end") \/ GoesOn(r, "use", req[r].host, req[r].hop, req[r].bad, TRUE)
    BY <1>7, Zenon DEF TakeSlot, Refuse
  <2>3. TRUE \in BOOLEAN /\ "use" \in Place /\ "end" \in Place
    BY DEF Place
  <2>4. CASE Goto(r, "end")
    BY <1>2, <2>1, <2>3, <2>4 DEF InFile
  <2>5. CASE GoesOn(r, "use", req[r].host, req[r].hop, req[r].bad, TRUE)
    BY <1>5, <1>6, <2>1, <2>3, <2>5 DEF InFile
  <2> QED
    BY <2>2, <2>4, <2>5
<1>8. ASSUME NEW bad \in BOOLEAN, Fetched(r, bad)
      PROVE  /\ UNCHANGED <<tick, relayFiles, limit, events, off, raced>>
             /\ req' \in [Thread -> Request] /\ \A s \in Thread \ {r} : req'[s] = req[s]
             /\ req[r].pc \notin InFile
             /\ req'[r].pc \in {"auth", "slot", "use"} => req[r].pc \in {"auth", "slot"}
             /\ arrived' \in Nat
  <2>1. UNCHANGED <<tick, relayFiles, relayCount, off, raced>> /\ req[r].pc = "fetch" /\ "record" \in Place
    BY <1>8 DEF Fetched, At, relayHistory, Place
  <2>2. GoesOn(r, "record", req[r].host, req[r].hop, bad, req[r].slot)
    BY <1>8 DEF Fetched
  <2> QED
    BY <1>5, <1>6, <2>1, <2>2 DEF InFile
<1>9. ASSUME NEW h \in Host, Redirected(r, h)
      PROVE  /\ UNCHANGED <<tick, relayFiles, limit, events, off, raced>>
             /\ req' \in [Thread -> Request] /\ \A s \in Thread \ {r} : req'[s] = req[s]
             /\ req[r].pc \notin InFile
             /\ req'[r].pc \in {"auth", "slot", "use"} => req[r].pc \in {"auth", "slot"}
             /\ arrived' \in Nat
  <2>1. UNCHANGED <<tick, relayFiles, relayCount, off, raced>> /\ req[r].pc = "fetch" /\ "check" \in Place /\ "end" \in Place
    BY <1>9 DEF Redirected, At, relayHistory, Place
  <2>2. CASE req[r].hop < MaxHops
    <3>1. GoesOn(r, "check", h, req[r].hop + 1, req[r].bad, req[r].slot)
      BY <1>9, <2>2 DEF Redirected
    <3>2. req[r].hop + 1 \in 0..MaxHops
      BY <1>6, <2>2, RelayNats
    <3> QED
      BY <1>5, <1>6, <2>1, <3>1, <3>2 DEF InFile
  <2>3. CASE ~(req[r].hop < MaxHops)
    <3>1. Goto(r, "end")
      BY <1>9, <2>3 DEF Redirected, Refuse
    <3> QED
      BY <1>2, <2>1, <3>1 DEF InFile
  <2> QED
    BY <2>2, <2>3
<1>10. CASE End(r)
  BY <1>10, EndIs DEF End, At, InFile, RelayTypes, relayHistory, relayCount
<1> QED
  BY <1>1, <1>3, <1>4, <1>7, <1>8, <1>9, <1>10, Zenon DEF Aside

LEMMA AsideTypes == ASSUME RelayTypes, NEW r \in Thread, Aside(r) PROVE RelayTypes'
<1>1. /\ tick' \in 0..LastTick /\ file' \in State \cup {Damaged} /\ tmp' \in State \cup {Damaged, NoFile}
      /\ lock' \in Thread \cup {"free"} /\ wr' \in [Writer -> Way] /\ req' \in [Thread -> Request]
      /\ limit' \in Slots /\ arrived' \in Nat /\ events' \in Nat /\ off' \in BOOLEAN /\ raced' \in BOOLEAN
  <2>1. UNCHANGED <<tick, file, tmp, lock, wr, limit, events, off, raced>> /\ req' \in [Thread -> Request] /\ arrived' \in Nat
    BY AsideIs DEF relayFiles
  <2> QED
    BY <2>1 DEF RelayTypes
<1>2. limit \in Nat /\ slots \in Nat /\ hostSlots \in [Host -> Nat] /\ req[r].host \in Host /\ req[r].sig \in Sig
  BY RelayNats DEF RelayTypes, Request
<1>3. seen' \subseteq Sig \X Int /\ fails' \in [at : 0..LastTick, n : Nat] /\ served' \in [sigs : Seq(Sig), days : [0..LastTick -> Nat]]
  <2>1. CASE CheckAuth(r)
    <3>1. tick \in 0..LastTick /\ Recent \in Nat /\ Recent + 1 \in Nat
      BY DEF RelayTypes, Recent
    <3>2. fails' \in [at : 0..LastTick, n : Nat]
      <4>1. Failures(Recent) \/ Failures(Recent + 1)
        BY <2>1, Zenon DEF CheckAuth
      <4> QED
        BY <3>1, <4>1 DEF Failures
    <3>3. Known \subseteq Sig \X Int
      BY DEF Known, RelayTypes
    <3>4. <<req[r].sig, tick + 2 * TsWindow>> \in Sig \X Int
      BY <1>2, <3>1, RelayNats
    <3>5. seen' \in {seen, Known, Known \cup {<<req[r].sig, tick + 2 * TsWindow>>}}
      BY <2>1 DEF CheckAuth
    <3>6. served.sigs \in Seq(Sig) /\ served.days \in [0..LastTick -> Nat]
      BY DEF RelayTypes
    <3>7. served' = served \/ served' = [sigs |-> Append(served.sigs, req[r].sig), days |-> served.days]
      BY <2>1 DEF CheckAuth
    <3>8. Append(served.sigs, req[r].sig) \in Seq(Sig)
      BY <1>2, <3>6
    <3>9. seen' \subseteq Sig \X Int
      BY <3>3, <3>4, <3>5, Zenon DEF RelayTypes
    <3>10. served' \in [sigs : Seq(Sig), days : [0..LastTick -> Nat]]
      <4> HIDE DEF Sig
      <4>1. CASE served' = served
        BY <4>1 DEF RelayTypes
      <4>2. CASE served' = [sigs |-> Append(served.sigs, req[r].sig), days |-> served.days]
        BY <4>2, <3>6, <3>8
      <4> QED
        BY <3>7, <4>1, <4>2
    <3> QED
      BY <3>2, <3>9, <3>10, Zenon
  <2>2. CASE ~CheckAuth(r)
    <3>1. UNCHANGED <<seen, fails, served>>
      BY <2>2 DEF Aside, Arrive, CheckKill, TakeSlot, UrlRefused, CheckBreaker, TakeHost, Fetched, Redirected, NoToken,
         HopFails, End, relayMemory, relayHistory
    <3> QED
      BY <3>1 DEF RelayTypes
  <2> QED
    BY <2>1, <2>2
<1>4. slots' \in Nat
  <2>1. UNCHANGED slots \/ (slots > 0 /\ slots' = slots - 1) \/ slots' = slots + 1
    BY DEF Aside, Arrive, CheckKill, CheckAuth, TakeSlot, UrlRefused, CheckBreaker, TakeHost, Fetched, Redirected, NoToken,
       HopFails, End, relayMemory
  <2> QED
    BY <1>2, <2>1
<1>5. hostSlots' \in [Host -> Nat]
  <2>1. \/ UNCHANGED hostSlots \/ GiveHostBack(r)
        \/ hostSlots[req[r].host] > 0 /\ hostSlots' = [hostSlots EXCEPT ![req[r].host] = @ - 1]
    BY DEF Aside, Arrive, CheckKill, CheckAuth, TakeSlot, UrlRefused, CheckBreaker, TakeHost, Fetched, Redirected, NoToken,
       HopFails, End, relayMemory
  <2>2. CASE hostSlots[req[r].host] > 0 /\ hostSlots' = [hostSlots EXCEPT ![req[r].host] = @ - 1]
    BY <1>2, <2>2
  <2> QED
    BY <1>2, <2>1, <2>2 DEF GiveHostBack
<1>6. \A w \in Writer : wr'[w].at = "opened" => wr'[w].fd # "none"
  BY AsideIs DEF relayFiles, RelayTypes
<1> QED
  BY <1>1, <1>3, <1>4, <1>5, <1>6 DEF RelayTypes

\* What loading and saving does to the copies.
LEMMA LoadIs ==
  ASSUME RelayTypes, NEW w \in Writer, NEW copy \in State, Load(w, copy)
  PROVE  /\ wr' \in [Writer -> Way] /\ raced' \in BOOLEAN
         /\ wr'[w].at = "loaded" /\ wr'[w].copy = copy /\ \A v \in Writer \ {w} : wr'[v] = wr[v]
         /\ ~raced' => ~raced /\ \A v \in Writer \ {w} : wr[v].at = "none"
<1>1. wr' = [wr EXCEPT ![w] = [at |-> "loaded", copy |-> copy, fd |-> "none"]]
  BY DEF Load
<1>2. [at |-> "loaded", copy |-> copy, fd |-> "none"] \in Way
  BY DEF Way
<1>3. wr' \in [Writer -> Way] /\ wr'[w].at = "loaded" /\ wr'[w].copy = copy /\ \A v \in Writer \ {w} : wr'[v] = wr[v]
  BY <1>1, <1>2 DEF RelayTypes
<1>4. raced' \in BOOLEAN /\ (~raced' => ~raced /\ \A v \in Writer \ {w} : wr[v].at = "none")
  BY DEF Load
<1> QED
  BY <1>3, <1>4

LEMMA OpenIs ==
  ASSUME RelayTypes, NEW w \in Writer, OpenTmp(w)
  PROVE  /\ wr' \in [Writer -> Way] /\ wr[w].at = "loaded" /\ wr'[w].at = "opened" /\ wr'[w].fd = "tmp"
         /\ wr'[w].copy = wr[w].copy /\ \A v \in Writer \ {w} : wr'[v] = wr[v]
<1>1. wr' = [wr EXCEPT ![w] = [at |-> "opened", copy |-> wr[w].copy, fd |-> "tmp"]]
  BY DEF OpenTmp
<1>2. [at |-> "opened", copy |-> wr[w].copy, fd |-> "tmp"] \in Way
  BY DEF Way, RelayTypes
<1> QED
  BY <1>1, <1>2 DEF OpenTmp, RelayTypes

LEMMA WriteIs ==
  ASSUME RelayTypes, NEW w \in Writer, WriteTmp(w)
  PROVE  /\ wr' \in [Writer -> Way] /\ wr[w].at = "opened" /\ wr'[w].at = "written" /\ wr'[w].fd = wr[w].fd
         /\ wr'[w].copy = wr[w].copy /\ \A v \in Writer \ {w} : wr'[v] = wr[v]
         /\ file' \in State \cup {Damaged} /\ tmp' \in State \cup {Damaged, NoFile}
         /\ wr[w].fd = "tmp" /\ tmp = Damaged => tmp' = wr[w].copy /\ file' = file
<1>1. wr' = [wr EXCEPT ![w].at = "written"] /\ wr[w].at = "opened"
  BY DEF WriteTmp
<1>2. wr' \in [Writer -> Way] /\ wr'[w].at = "written" /\ wr'[w].fd = wr[w].fd
      /\ wr'[w].copy = wr[w].copy /\ \A v \in Writer \ {w} : wr'[v] = wr[v]
  BY <1>1 DEF RelayTypes, Way
<1>3. wr[w].copy \in State /\ wr[w].fd \in {"tmp", "file", "gone"}
  BY <1>1 DEF RelayTypes, Way
<1>4. file' \in State \cup {Damaged} /\ tmp' \in State \cup {Damaged, NoFile}
  <2>1. CASE wr[w].fd = "tmp"
    BY <1>3, <2>1 DEF WriteTmp, Over, RelayTypes
  <2>2. CASE wr[w].fd = "file"
    BY <1>3, <2>2 DEF WriteTmp, Over, RelayTypes
  <2>3. CASE wr[w].fd = "gone"
    BY <1>3, <2>3 DEF WriteTmp, RelayTypes
  <2> QED
    BY <1>3, <2>1, <2>2, <2>3
<1>5. ASSUME wr[w].fd = "tmp", tmp = Damaged PROVE tmp' = wr[w].copy /\ file' = file
  BY <1>5 DEF WriteTmp, Over
<1> QED
  BY <1>1, <1>2, <1>4, <1>5

LEMMA NoWriteIs == NoWrite \in Way /\ NoWrite.at = "none"
  BY FreshIsState DEF NoWrite, Way

LEMMA ReplaceIs ==
  ASSUME RelayTypes, NEW w \in Writer, Replace(w)
  PROVE  /\ wr' \in [Writer -> Way] /\ wr'[w].at = "none"
         /\ file' = tmp /\ tmp' = NoFile /\ file' \in State \cup {Damaged}
         /\ \A v \in Writer \ {w} : wr'[v].at = wr[v].at /\ wr'[v].copy = wr[v].copy
                                     /\ (wr[v].fd # "none" => wr'[v].fd # "none")
<1>1. \A v \in Writer : wr[v] \in Way
  BY DEF RelayTypes
<1> DEFINE fd(v) == CASE wr[v].fd = "tmp" -> "file" [] wr[v].fd = "file" -> "gone" [] OTHER -> wr[v].fd
<1>2. wr' = [v \in Writer |-> IF v = w THEN NoWrite ELSE [wr[v] EXCEPT !.fd = fd(v)]]
  BY Zenon DEF Replace
<1>3. \A v \in Writer : fd(v) \in {"none", "tmp", "file", "gone"} /\ (wr[v].fd # "none" => fd(v) # "none")
  BY <1>1 DEF Way
<1> HIDE DEF fd
<1>4. \A v \in Writer : [wr[v] EXCEPT !.fd = fd(v)] \in Way /\ [wr[v] EXCEPT !.fd = fd(v)].at = wr[v].at
                        /\ [wr[v] EXCEPT !.fd = fd(v)].copy = wr[v].copy /\ [wr[v] EXCEPT !.fd = fd(v)].fd = fd(v)
  BY <1>1, <1>3 DEF Way
<1>5. wr' \in [Writer -> Way] /\ wr'[w].at = "none"
      /\ \A v \in Writer \ {w} : wr'[v].at = wr[v].at /\ wr'[v].copy = wr[v].copy /\ wr'[v].fd = fd(v)
  BY <1>2, <1>4, NoWriteIs
<1>6. file' = tmp /\ tmp' = NoFile /\ file' \in State \cup {Damaged}
  BY DEF Replace, RelayTypes
<1> QED
  BY <1>3, <1>5, <1>6

LEMMA NothingIs ==
  ASSUME RelayTypes, NEW w \in Writer, NothingToReplace(w)
  PROVE  /\ wr' \in [Writer -> Way] /\ wr'[w].at = "none" /\ tmp = NoFile /\ UNCHANGED <<file, tmp>>
         /\ \A v \in Writer \ {w} : wr'[v] = wr[v]
  BY NoWriteIs DEF RelayTypes, NothingToReplace

LEMMA UseLoads ==
  ASSUME RelayTypes, NEW r \in Thread, LoadUse(r)
  PROVE  /\ UNCHANGED <<tick, file, tmp, req, relayMemory, relayCount, off, served>> /\ lock = "free" /\ lock' = r
         /\ Load(r, Today(Parsed(file), IF At(r, "use") THEN 1 ELSE 0))
         /\ Today(Parsed(file), IF At(r, "use") THEN 1 ELSE 0) \in State
         /\ req[r].pc \in {"cap", "use"}
<1>1. Parsed(file) \in State
  BY ParsedIsState
<1>2. (IF At(r, "use") THEN 1 ELSE 0) \in Nat
  OBVIOUS
<1> QED
  BY <1>1, <1>2, TodayIsState DEF LoadUse, At

LEMMA RecordLoads ==
  ASSUME RelayTypes, NEW r \in Thread, LoadRecord(r)
  PROVE  /\ UNCHANGED <<tick, file, tmp, req, relayMemory, relayCount, off, served>> /\ lock = "free" /\ lock' = r
         /\ Load(r, Recorded(Parsed(file), req[r].host, req[r].bad))
         /\ Recorded(Parsed(file), req[r].host, req[r].bad) \in State
         /\ req[r].pc = "record" /\ req[r].host \in Host /\ req[r].bad \in BOOLEAN
<1>1. Parsed(file) \in State
  BY ParsedIsState
<1>2. req[r].host \in Host /\ req[r].bad \in BOOLEAN
  BY DEF RelayTypes, Request
<1> QED
  BY <1>1, <1>2, RecordedIsState DEF LoadRecord, At

LEMMA CommandLoads ==
  ASSUME RelayTypes, NEW cmd \in {"off", "on", "reset"}, Command(cmd)
  PROVE  /\ UNCHANGED <<tick, file, tmp, lock, req, relayMemory, limit, arrived, served>>
         /\ Load(Ctl, Commanded(Parsed(file), cmd)) /\ Commanded(Parsed(file), cmd) \in State
         /\ events' \in Nat /\ off' = (off /\ cmd # "on")
  BY ParsedIsState, CommandedIsState DEF Command, RelayTypes

LEMMA OneMore ==
  ASSUME NEW days \in [0..LastTick -> Nat], NEW d \in -1..LastTick
  PROVE  [days EXCEPT ![d] = @ + 1] \in [0..LastTick -> Nat]
<1>1. CASE d \in 0..LastTick
  BY <1>1
<1>2. CASE d \notin 0..LastTick
  <2>1. [days EXCEPT ![d] = @ + 1] = [x \in 0..LastTick |-> IF x = d THEN days[x] + 1 ELSE days[x]]
    BY Zenon
  <2>2. \A x \in 0..LastTick : (IF x = d THEN days[x] + 1 ELSE days[x]) = days[x]
    BY <1>2, Zenon
  <2> QED
    BY <2>1, <2>2
<1> QED
  BY <1>1, <1>2

LEMMA SavedIs ==
  ASSUME RelayTypes, NEW r \in Thread, Saved(r)
  PROVE  /\ UNCHANGED <<tick, relayMemory, relayCount, off, raced>> /\ lock' = "free" /\ wr[r].at = "written"
         /\ req' \in [Thread -> Request] /\ req'[r].host = req[r].host /\ req'[r].slot = req[r].slot
         /\ \A s \in Thread \ {r} : req'[s] = req[s]
         /\ req'[r].pc \in {"end", "auth", "check"}
         /\ Replace(r) \/ NothingToReplace(r)
         /\ served' \in [sigs : Seq(Sig), days : [0..LastTick -> Nat]] /\ served'.sigs = served.sigs
         /\ tmp # NoFile =>
              /\ Replace(r)
              /\ req'[r].pc = "auth" => req[r].pc = "cap" /\ wr[r].copy.used < Cap
              /\ req'[r].pc = "check" => req[r].pc = "use"
              /\ served'.days = IF req[r].pc = "use" THEN [served.days EXCEPT ![wr[r].copy.day] = @ + 1] ELSE served.days
<1>1. UNCHANGED <<tick, relayMemory, relayCount, off, raced>> /\ lock' = "free" /\ wr[r].at = "written"
  BY DEF Saved
<1>2. wr[r].copy.used \in Nat
  BY DEF RelayTypes, Way, State, Writer
<1>3. \E pc \in {"end", "auth", "check"} : Goto(r, pc) /\ (pc = "auth" => req[r].pc = "cap" /\ wr[r].copy.used < Cap)
                                                      /\ (pc = "check" => req[r].pc = "use")
  BY <1>2, RelayNats DEF Saved, At, Refuse
<1>4. {"end", "auth", "check"} \subseteq Place
  BY DEF Place
<1>5. /\ req' \in [Thread -> Request] /\ req'[r].host = req[r].host /\ req'[r].slot = req[r].slot
      /\ \A s \in Thread \ {r} : req'[s] = req[s]
      /\ req'[r].pc \in {"end", "auth", "check"}
      /\ req'[r].pc = "auth" => req[r].pc = "cap" /\ wr[r].copy.used < Cap
      /\ req'[r].pc = "check" => req[r].pc = "use"
  BY <1>3, <1>4, GotoIs
<1>6. Replace(r) \/ NothingToReplace(r)
  BY DEF Saved
<1>7. served \in [sigs : Seq(Sig), days : [0..LastTick -> Nat]]
  BY DEF RelayTypes
<1>8. \/ served' = served
      \/ req[r].pc = "use" /\ served' = [sigs |-> served.sigs, days |-> [served.days EXCEPT ![wr[r].copy.day] = @ + 1]]
  BY DEF Saved, At
<1> DEFINE d == wr[r].copy.day
           more == [served.days EXCEPT ![d] = @ + 1]
<1>9. more \in [0..LastTick -> Nat] /\ served.days \in [0..LastTick -> Nat] /\ served.sigs \in Seq(Sig)
  <2>1. served.days \in [0..LastTick -> Nat] /\ served.sigs \in Seq(Sig) /\ d \in -1..LastTick
    BY <1>7 DEF RelayTypes, Way, State, Writer
  <2> HIDE DEF d, more
  <2> QED
    BY <2>1, OneMore DEF more
<1>10. served' \in [sigs : Seq(Sig), days : [0..LastTick -> Nat]] /\ served'.sigs = served.sigs
  <2> HIDE DEF more, Sig
  <2>1. CASE served' = served
    BY <1>7, <2>1
  <2>2. CASE served' = [sigs |-> served.sigs, days |-> more]
    BY <1>9, <2>2
  <2> QED
    BY <1>8, <2>1, <2>2 DEF more
<1>11. ASSUME tmp # NoFile
       PROVE  Replace(r) /\ served'.days = IF req[r].pc = "use" THEN [served.days EXCEPT ![wr[r].copy.day] = @ + 1] ELSE served.days
  <2>1. Replace(r) /\ served' = IF At(r, "use") THEN [sigs |-> served.sigs, days |-> [served.days EXCEPT ![wr[r].copy.day] = @ + 1]]
                     ELSE served
    BY <1>11 DEF Saved, NothingToReplace
  <2> QED
    BY <2>1 DEF At
<1> QED
  BY <1>1, <1>5, <1>6, <1>10, <1>11

LEMMA CommandSavedIs ==
  ASSUME RelayTypes, CommandSaved
  PROVE  /\ UNCHANGED <<tick, lock, req, relayMemory, relayCount, raced, served>> /\ wr[Ctl].at = "written"
         /\ Replace(Ctl) \/ NothingToReplace(Ctl)
         /\ off' \in BOOLEAN
         /\ tmp # NoFile => Replace(Ctl) /\ off' = wr[Ctl].copy.killed
  BY DEF CommandSaved, RelayTypes, Way, State, Writer, NothingToReplace

LEMMA RestartIs ==
  ASSUME RelayTypes, Restart
  PROVE  /\ UNCHANGED <<tick, file, tmp, limit, arrived, off, raced>> /\ lock' = "free" /\ events' \in Nat
         /\ wr' \in [Writer -> Way] /\ wr'[Ctl] = wr[Ctl] /\ \A r \in Thread : wr'[r].at = "none"
         /\ req' \in [Thread -> Request] /\ \A r \in Thread : req'[r].pc = "idle" /\ ~req'[r].slot
         /\ served'.sigs = << >> /\ served'.days = served.days /\ served' \in [sigs : Seq(Sig), days : [0..LastTick -> Nat]]
<1>1. wr' = [w \in Writer |-> IF w = Ctl THEN wr[w] ELSE NoWrite] /\ req' = [r \in Thread |-> NoRequest]
  BY DEF Restart
<1>2. wr' \in [Writer -> Way] /\ wr'[Ctl] = wr[Ctl] /\ \A r \in Thread : wr'[r].at = "none"
  BY <1>1, NoWriteIs, RelayNames DEF RelayTypes, Writer
<1>3. req' \in [Thread -> Request] /\ \A r \in Thread : req'[r].pc = "idle" /\ ~req'[r].slot
  BY <1>1, NoRequestIs
<1>4. served'.sigs = << >> /\ served'.days = served.days /\ served' \in [sigs : Seq(Sig), days : [0..LastTick -> Nat]]
  BY DEF Restart, RelayTypes
<1> QED
  BY <1>2, <1>3, <1>4 DEF Restart, RelayTypes

LEMMA RelayTypesStay == RelayTypes /\ [RelayNext]_relayVars => RelayTypes'
<1> SUFFICES ASSUME RelayTypes, [RelayNext]_relayVars PROVE RelayTypes'
  OBVIOUS
<1>0. Ctl \in Writer /\ Thread \subseteq Writer
  BY DEF Writer
<1>1. CASE UNCHANGED relayVars
  BY <1>1 DEF relayVars, relayFiles, relayMemory, relayCount, relayHistory, RelayTypes
<1>2. CASE RelayTick
  <2>1. tick' \in 0..LastTick
    BY <1>2, RelayNats DEF RelayTick, RelayTypes
  <2> QED
    BY <1>2, <2>1 DEF RelayTick, relayFiles, relayMemory, relayCount, relayHistory, RelayTypes
<1>3. ASSUME NEW r \in Thread, Aside(r) PROVE RelayTypes'
  BY <1>3, AsideTypes
<1>4. ASSUME NEW w \in Writer, NEW copy \in State, Load(w, copy), lock' \in Thread \cup {"free"}, events' \in Nat, off' \in BOOLEAN,
             UNCHANGED <<tick, file, tmp, req, relayMemory, limit, arrived, served>>
      PROVE  RelayTypes'
  <2>1. /\ wr' \in [Writer -> Way] /\ raced' \in BOOLEAN /\ wr'[w].at = "loaded" /\ \A v \in Writer \ {w} : wr'[v] = wr[v]
    BY <1>4, LoadIs
  <2> QED
    BY <1>4, <2>1 DEF relayMemory, RelayTypes
<1>5. ASSUME NEW r \in Thread, LoadUse(r) PROVE RelayTypes'
  <2>1. events' \in Nat /\ off' \in BOOLEAN /\ UNCHANGED <<limit, arrived>>
    BY <1>5 DEF LoadUse, RelayTypes, relayCount
  <2> QED
    BY <1>0, <1>4, <1>5, <2>1, UseLoads
<1>6. ASSUME NEW r \in Thread, LoadRecord(r) PROVE RelayTypes'
  <2>1. events' \in Nat /\ off' \in BOOLEAN /\ UNCHANGED <<limit, arrived>>
    BY <1>6 DEF LoadRecord, RelayTypes, relayCount
  <2> QED
    BY <1>0, <1>4, <1>6, <2>1, RecordLoads
<1>7. ASSUME NEW cmd \in {"off", "on", "reset"}, Command(cmd) PROVE RelayTypes'
  <2>1. off' \in BOOLEAN
    BY <1>7, CommandLoads DEF RelayTypes
  <2>2. lock' \in Thread \cup {"free"}
    BY <1>7, CommandLoads DEF RelayTypes
  <2> QED
    BY <1>0, <1>4, <1>7, <2>1, <2>2, CommandLoads
<1>8. ASSUME NEW w \in Writer, OpenTmp(w) PROVE RelayTypes'
  <2>1. wr' \in [Writer -> Way] /\ \A v \in Writer : wr'[v].at = "opened" => wr'[v].fd # "none"
    BY <1>8, OpenIs DEF RelayTypes
  <2> QED
    BY <1>8, <2>1 DEF OpenTmp, relayMemory, relayCount, relayHistory, RelayTypes
<1>9. ASSUME NEW w \in Writer, WriteTmp(w) PROVE RelayTypes'
  <2>1. /\ wr' \in [Writer -> Way] /\ \A v \in Writer : wr'[v].at = "opened" => wr'[v].fd # "none"
        /\ file' \in State \cup {Damaged} /\ tmp' \in State \cup {Damaged, NoFile}
    BY <1>9, WriteIs DEF RelayTypes
  <2> QED
    BY <1>9, <2>1 DEF WriteTmp, relayMemory, relayCount, relayHistory, RelayTypes
<1>10. ASSUME NEW w \in Writer, Replace(w) \/ NothingToReplace(w)
       PROVE  /\ wr' \in [Writer -> Way] /\ \A v \in Writer : wr'[v].at = "opened" => wr'[v].fd # "none"
              /\ file' \in State \cup {Damaged} /\ tmp' \in State \cup {Damaged, NoFile}
  <2>1. CASE Replace(w)
    BY <2>1, ReplaceIs DEF RelayTypes
  <2>2. CASE NothingToReplace(w)
    BY <2>2, NothingIs DEF RelayTypes
  <2> QED
    BY <1>10, <2>1, <2>2
<1>11. ASSUME NEW r \in Thread, Saved(r) PROVE RelayTypes'
  <2>1. Replace(r) \/ NothingToReplace(r)
    BY <1>11, SavedIs
  <2>2. /\ wr' \in [Writer -> Way] /\ \A v \in Writer : wr'[v].at = "opened" => wr'[v].fd # "none"
        /\ file' \in State \cup {Damaged} /\ tmp' \in State \cup {Damaged, NoFile}
    BY <1>0, <1>10, <2>1
  <2>3. /\ req' \in [Thread -> Request] /\ served' \in [sigs : Seq(Sig), days : [0..LastTick -> Nat]] /\ lock' = "free"
        /\ UNCHANGED <<tick, relayMemory, relayCount, off, raced>>
    BY <1>11, SavedIs
  <2> QED
    BY <2>2, <2>3 DEF relayMemory, relayCount, RelayTypes
<1>12. CASE CommandSaved
  <2>1. Replace(Ctl) \/ NothingToReplace(Ctl)
    BY <1>12, CommandSavedIs
  <2>2. /\ wr' \in [Writer -> Way] /\ \A v \in Writer : wr'[v].at = "opened" => wr'[v].fd # "none"
        /\ file' \in State \cup {Damaged} /\ tmp' \in State \cup {Damaged, NoFile}
    BY <1>0, <1>10, <2>1
  <2>3. off' \in BOOLEAN /\ UNCHANGED <<tick, lock, req, relayMemory, relayCount, raced, served>>
    BY <1>12, CommandSavedIs
  <2> QED
    BY <2>2, <2>3 DEF relayMemory, relayCount, RelayTypes
<1>13. CASE Restart
  <2>1. seen' \subseteq Sig \X Int /\ fails' \in [at : 0..LastTick, n : Nat] /\ slots' \in Nat /\ hostSlots' \in [Host -> Nat]
    BY <1>13, RelayNats DEF Restart, RelayTypes
  <2>2. \A v \in Writer : wr'[v].at = "opened" => wr'[v].fd # "none"
    BY <1>13, RestartIs DEF RelayTypes, Writer
  <2>3. /\ UNCHANGED <<tick, file, tmp, limit, arrived, off, raced>> /\ lock' = "free" /\ events' \in Nat
        /\ wr' \in [Writer -> Way] /\ req' \in [Thread -> Request]
        /\ served' \in [sigs : Seq(Sig), days : [0..LastTick -> Nat]]
    BY <1>13, RestartIs
  <2> QED
    BY <2>1, <2>2, <2>3 DEF RelayTypes
<1> QED
  BY <1>1, <1>2, <1>3, <1>5, <1>6, <1>7, <1>8, <1>9, <1>11, <1>12, <1>13, RelayMoves, Zenon

LEMMA Writers == Ctl \in Writer /\ Thread \subseteq Writer /\ Ctl \notin Thread /\ \A w \in Writer : w \in Thread \/ w = Ctl
  BY RelayNames DEF Writer

LEMMA HolderStays == RelayTypes /\ OneHolder /\ [RelayNext]_relayVars => OneHolder'
<1> SUFFICES ASSUME RelayTypes, OneHolder, [RelayNext]_relayVars,
                    NEW s \in Thread
             PROVE  /\ wr'[s].at # "none" <=> lock' = s
                    /\ wr'[s].at # "none" => req'[s].pc \in InFile
                    /\ req'[s].slot => req'[s].pc \in {"use", "check", "host", "fetch", "record", "end"}
  BY DEF OneHolder
<1> DEFINE Held == /\ wr'[s].at # "none" <=> lock' = s
                   /\ wr'[s].at # "none" => req'[s].pc \in InFile
                   /\ req'[s].slot => req'[s].pc \in {"use", "check", "host", "fetch", "record", "end"}
<1>0. /\ wr[s].at # "none" <=> lock = s
      /\ wr[s].at # "none" => req[s].pc \in InFile
      /\ req[s].slot => req[s].pc \in {"use", "check", "host", "fetch", "record", "end"}
      /\ "free" \notin Thread
  BY RelayNames DEF OneHolder
<1>1. CASE UNCHANGED <<lock, wr, req>>
  BY <1>0, <1>1
<1>2. ASSUME NEW r \in Thread, Aside(r) PROVE Held
  <2>1. UNCHANGED <<lock, wr>> /\ (r # s => req'[s] = req[s]) /\ req[r].pc \notin InFile
    BY <1>2, AsideIs DEF relayFiles
  <2>2. ASSUME r = s, req'[s].slot PROVE req'[s].pc \in {"use", "check", "host", "fetch", "record", "end"}
    <3>0. req[r].host \in Host /\ req[r].hop \in 0..MaxHops /\ req[r].bad \in BOOLEAN /\ req[r].slot \in BOOLEAN
      BY DEF RelayTypes, Request
    <3>1. CASE \E ts \in tick - TsWindow..tick + TsWindow, h \in Host, honest \in BOOLEAN : Arrive(r, ts, h, honest)
      BY <2>2, <3>1, ArriveIs
    <3>2. CASE CheckKill(r) \/ UrlRefused(r) \/ CheckBreaker(r) \/ TakeHost(r) \/ NoToken(r) \/ HopFails(r) \/ CheckAuth(r)
      <4>1. \E pc \in {"cap", "end", "host", "fetch", "slot"} :
              Goto(r, pc) /\ (pc \in {"cap", "slot"} => req[r].pc \in {"kill", "auth"})
        BY <3>2 DEF CheckKill, UrlRefused, CheckBreaker, TakeHost, NoToken, HopFails, CheckAuth, Refuse, At
      <4>2. {"cap", "end", "host", "fetch", "slot"} \subseteq Place
        BY DEF Place
      <4>3. req'[r].slot = req[r].slot /\ (req'[r].pc \in {"end", "host", "fetch"} \/ req[r].pc \in {"kill", "auth"})
        BY <4>1, <4>2, GotoIs
      <4> QED
        BY <1>0, <2>2, <4>3
    <3>3. CASE TakeSlot(r)
      <4>1. Goto(r, "end") \/ GoesOn(r, "use", req[r].host, req[r].hop, req[r].bad, TRUE)
        BY <3>3, Zenon DEF TakeSlot, Refuse
      <4>2. "end" \in Place /\ "use" \in Place /\ TRUE \in BOOLEAN
        BY DEF Place
      <4>3. req'[r].pc \in {"end", "use"}
        <5>1. CASE Goto(r, "end")
          BY <4>2, <5>1, GotoIs
        <5>2. CASE GoesOn(r, "use", req[r].host, req[r].hop, req[r].bad, TRUE)
          <6>1. \E slot \in BOOLEAN : GoesOn(r, "use", req[r].host, req[r].hop, req[r].bad, slot)
            BY <4>2, <5>2, Zenon
          <6> QED
            BY <3>0, <4>2, <6>1, GoesOnIs
        <5> QED
          BY <4>1, <5>1, <5>2
      <4> QED
        BY <2>2, <4>3
    <3>4. ASSUME NEW bad \in BOOLEAN, Fetched(r, bad) PROVE req'[r].pc = "record"
      BY <3>0, <3>4, GoesOnIs DEF Fetched, Place
    <3>5. ASSUME NEW h \in Host, Redirected(r, h) PROVE req'[r].pc \in {"end", "check"}
      <4>1. CASE req[r].hop < MaxHops
        <5>1. req[r].hop + 1 \in 0..MaxHops /\ "check" \in Place
          BY <3>0, <4>1, RelayNats DEF Place
        <5> QED
          BY <3>0, <3>5, <4>1, <5>1, GoesOnIs DEF Redirected
      <4>2. CASE ~(req[r].hop < MaxHops)
        BY <3>5, <4>2, GotoIs DEF Redirected, Refuse, Place
      <4> QED
        BY <4>1, <4>2
    <3>6. CASE End(r)
      BY <2>2, <3>6, EndIs
    <3> QED
      BY <1>2, <2>2, <3>1, <3>2, <3>3, <3>4, <3>5, <3>6 DEF Aside
  <2> QED
    BY <1>0, <2>1, <2>2
<1>3. ASSUME NEW r \in Thread, LoadUse(r) PROVE Held
  <2>1. UNCHANGED req /\ lock = "free" /\ lock' = r /\ wr'[r].at # "none" /\ \A v \in Writer \ {r} : wr'[v] = wr[v]
    BY <1>3, UseLoads, LoadIs, Writers
  <2>2. req[r].pc \in InFile
    BY <1>3 DEF LoadUse, At, InFile
  <2> QED
    BY <1>0, <2>1, <2>2, Writers
<1>4. ASSUME NEW r \in Thread, LoadRecord(r) PROVE Held
  <2>1. UNCHANGED req /\ lock = "free" /\ lock' = r /\ wr'[r].at # "none" /\ \A v \in Writer \ {r} : wr'[v] = wr[v]
    BY <1>4, RecordLoads, LoadIs, Writers
  <2>2. req[r].pc \in InFile
    BY <1>4, RecordLoads DEF InFile
  <2> QED
    BY <1>0, <2>1, <2>2, Writers
<1>5. ASSUME NEW r \in Thread, Saved(r) PROVE Held
  <2>1. /\ lock' = "free" /\ wr[r].at = "written" /\ \A u \in Thread \ {r} : req'[u] = req[u]
        /\ req'[r].slot = req[r].slot /\ (Replace(r) \/ NothingToReplace(r))
    BY <1>5, SavedIs
  <2>2. lock = r /\ req[r].pc \in InFile
    BY <2>1 DEF OneHolder
  <2>3. wr'[r].at = "none" /\ \A v \in Writer \ {r} : wr'[v].at = wr[v].at
    BY <2>1, ReplaceIs, NothingIs, Writers
  <2>4. req[r].slot => req'[r].pc \in {"check", "end"}
    <3>1. \E pc \in {"end", "auth", "check"} : Goto(r, pc) /\ (pc = "auth" => req[r].pc = "cap")
      BY <1>5 DEF Saved, At, Refuse
    <3>2. {"end", "auth", "check"} \subseteq Place
      BY DEF Place
    <3>3. req'[r].pc \in {"end", "check"} \/ req[r].pc = "cap"
      BY <3>1, <3>2, GotoIs
    <3>4. req[r].slot => req[r].pc # "cap"
      BY DEF OneHolder
    <3> QED
      BY <3>3, <3>4
  <2> QED
    BY <1>0, <2>1, <2>2, <2>3, <2>4, Writers
<1>6. ASSUME NEW w \in Writer, OpenTmp(w) \/ WriteTmp(w) PROVE Held
  <2>1. UNCHANGED <<lock, req>>
    BY <1>6 DEF OpenTmp, WriteTmp
  <2>2. wr[w].at # "none" /\ wr'[w].at # "none" /\ \A v \in Writer \ {w} : wr'[v] = wr[v]
    BY <1>6, OpenIs, WriteIs
  <2> QED
    BY <1>0, <2>1, <2>2, Writers
<1>7. ASSUME NEW cmd \in {"off", "on", "reset"}, Command(cmd) PROVE Held
  <2>1. UNCHANGED <<lock, req>> /\ wr'[s] = wr[s]
    BY <1>7, CommandLoads, LoadIs, Writers
  <2> QED
    BY <1>1, <1>0, <2>1
<1>8. CASE CommandSaved
  <2>1. UNCHANGED <<lock, req>> /\ (Replace(Ctl) \/ NothingToReplace(Ctl))
    BY <1>8, CommandSavedIs
  <2>2. wr'[s].at = wr[s].at
    BY <2>1, ReplaceIs, NothingIs, Writers
  <2> QED
    BY <1>0, <2>1, <2>2
<1>9. CASE Restart
  BY <1>0, <1>9, RestartIs
<1> QED
  <2>1. UNCHANGED relayVars \/ RelayTick => UNCHANGED <<lock, wr, req>>
    BY DEF relayVars, RelayTick, relayFiles
  <2> QED
    BY <2>1, <1>1, <1>2, <1>3, <1>4, <1>5, <1>6, <1>7, <1>8, <1>9, RelayMoves, Zenon

\* Without a race a writer that has written renames its own copy.
LEMMA OwnCopy ==
  ASSUME RelayTypes, FileIsWhole, ~raced, NEW w \in Writer, wr[w].at = "written"
  PROVE  tmp = wr[w].copy /\ tmp \in State /\ tmp # NoFile /\ tmp # Damaged
<1>1. tmp = wr[w].copy
  BY DEF FileIsWhole
<1>2. wr[w].copy \in State
  BY DEF RelayTypes, Way
<1> QED
  BY <1>1, <1>2, RelayFileNames

\* A copy is loaded without a race only when nobody else has one.
LEMMA SharedStays == RelayTypes /\ OneHolder /\ FileIsWhole /\ [RelayNext]_relayVars => FileIsWhole'
<1> SUFFICES ASSUME RelayTypes, OneHolder, FileIsWhole, [RelayNext]_relayVars, ~raced'
             PROVE  /\ file' # Damaged
                    /\ \A r \in Thread : wr'[r].at = "none" \/ wr'[Ctl].at = "none"
                    /\ \A w \in Writer : /\ wr'[w].at = "opened" => wr'[w].fd = "tmp" /\ tmp' = Damaged
                                         /\ wr'[w].at = "written" => tmp' = wr'[w].copy
  BY DEF FileIsWhole
<1> DEFINE Stays == /\ file' # Damaged
                    /\ \A r \in Thread : wr'[r].at = "none" \/ wr'[Ctl].at = "none"
                    /\ \A w \in Writer : /\ wr'[w].at = "opened" => wr'[w].fd = "tmp" /\ tmp' = Damaged
                                         /\ wr'[w].at = "written" => tmp' = wr'[w].copy
<1>0. ASSUME ~raced
      PROVE  /\ file # Damaged
             /\ \A r \in Thread : wr[r].at = "none" \/ wr[Ctl].at = "none"
             /\ \A v, w \in Writer : v # w /\ wr[w].at # "none" => wr[v].at = "none"
             /\ \A w \in Writer : /\ wr[w].at = "opened" => wr[w].fd = "tmp" /\ tmp = Damaged
                                  /\ wr[w].at = "written" => tmp = wr[w].copy
  BY <1>0, Writers DEF FileIsWhole, OneHolder
<1>1. CASE UNCHANGED <<file, tmp, wr, raced>>
  BY <1>0, <1>1
<1>2. ASSUME NEW r \in Thread, Aside(r) PROVE Stays
  BY <1>1, <1>2, AsideIs DEF relayFiles
<1>3. ASSUME NEW w \in Writer, NEW copy \in State, Load(w, copy), UNCHANGED <<file, tmp>> PROVE Stays
  <2>1. /\ ~raced /\ wr'[w].at = "loaded" /\ \A v \in Writer \ {w} : wr'[v] = wr[v] /\ wr[v].at = "none"
    BY <1>3, LoadIs
  <2> QED
    BY <1>0, <1>3, <2>1, Writers
<1>4. ASSUME NEW r \in Thread, LoadUse(r) PROVE Stays
  BY <1>3, <1>4, UseLoads, Writers
<1>5. ASSUME NEW r \in Thread, LoadRecord(r) PROVE Stays
  BY <1>3, <1>5, RecordLoads, Writers
<1>6. ASSUME NEW cmd \in {"off", "on", "reset"}, Command(cmd) PROVE Stays
  BY <1>3, <1>6, CommandLoads, Writers
<1>7. ASSUME NEW w \in Writer, OpenTmp(w) PROVE Stays
  <2>1. UNCHANGED <<file, raced>> /\ tmp' = Damaged
    BY <1>7 DEF OpenTmp, relayHistory
  <2>2. /\ wr[w].at = "loaded" /\ wr'[w].at = "opened" /\ wr'[w].fd = "tmp"
        /\ \A v \in Writer \ {w} : wr'[v] = wr[v]
    BY <1>7, OpenIs
  <2>3. \A v \in Writer \ {w} : wr[v].at = "none"
    BY <1>0, <2>1, <2>2
  <2> QED
    BY <1>0, <2>1, <2>2, <2>3, Writers
<1>8. ASSUME NEW w \in Writer, WriteTmp(w) PROVE Stays
  <2>1. ~raced
    BY <1>8 DEF WriteTmp, relayHistory
  <2>2. /\ wr[w].at = "opened" /\ wr'[w].at = "written" /\ wr'[w].copy = wr[w].copy
        /\ \A v \in Writer \ {w} : wr'[v] = wr[v]
        /\ wr[w].fd = "tmp" /\ tmp = Damaged => tmp' = wr[w].copy /\ file' = file
    BY <1>8, WriteIs
  <2>3. \A v \in Writer \ {w} : wr[v].at = "none"
    BY <1>0, <2>1, <2>2
  <2> QED
    BY <1>0, <2>1, <2>2, <2>3, Writers
<1>9. ASSUME NEW w \in Writer, Replace(w) \/ NothingToReplace(w), wr[w].at = "written", ~raced PROVE Stays
  <2>1. tmp \in State /\ tmp # NoFile /\ tmp # Damaged
    BY <1>9, OwnCopy
  <2>2. Replace(w)
    BY <1>9, <2>1 DEF NothingToReplace
  <2>3. file' = tmp /\ wr'[w].at = "none" /\ \A v \in Writer \ {w} : wr'[v].at = wr[v].at
    BY <2>2, ReplaceIs
  <2>4. \A v \in Writer : wr'[v].at = "none"
    BY <1>0, <1>9, <2>3
  <2> QED
    BY <2>1, <2>3, <2>4, Writers
<1>10. ASSUME NEW r \in Thread, Saved(r) PROVE Stays
  <2>1. ~raced /\ wr[r].at = "written" /\ (Replace(r) \/ NothingToReplace(r))
    BY <1>10, SavedIs
  <2> QED
    BY <1>9, <2>1, Writers
<1>11. CASE CommandSaved
  <2>1. ~raced /\ wr[Ctl].at = "written" /\ (Replace(Ctl) \/ NothingToReplace(Ctl))
    BY <1>11, CommandSavedIs
  <2> QED
    BY <1>9, <2>1, Writers
<1>12. CASE Restart
  BY <1>0, <1>12, RestartIs, Writers
<1> QED
  <2>1. UNCHANGED relayVars \/ RelayTick => UNCHANGED <<file, tmp, wr, raced>>
    BY DEF relayVars, RelayTick, relayFiles, relayHistory
  <2> QED
    BY <2>1, <1>1, <1>2, <1>4, <1>5, <1>6, <1>7, <1>8, <1>10, <1>11, <1>12, RelayMoves, Zenon

\* The word of the command stays in the file and in every copy of it.
LEMMA OffStays == RelayTypes /\ OneHolder /\ FileIsWhole /\ OffIsKept /\ [RelayNext]_relayVars => OffIsKept'
<1> SUFFICES ASSUME RelayTypes, OneHolder, FileIsWhole, OffIsKept, [RelayNext]_relayVars, off', ~raced'
             PROVE  file'.killed /\ \A w \in Writer : wr'[w].at # "none" => wr'[w].copy.killed
  BY DEF OffIsKept
<1> DEFINE Stays == file'.killed /\ \A w \in Writer : wr'[w].at # "none" => wr'[w].copy.killed
<1>0. ASSUME off, ~raced
      PROVE  file # Damaged /\ Parsed(file) = file /\ file.killed /\ \A w \in Writer : wr[w].at # "none" => wr[w].copy.killed
  BY <1>0 DEF OffIsKept, FileIsWhole, Parsed
<1>1. CASE UNCHANGED <<file, wr, off, raced>>
  BY <1>0, <1>1
<1>2. ASSUME NEW r \in Thread, Aside(r) PROVE Stays
  BY <1>1, <1>2, AsideIs DEF relayFiles
<1>3. ASSUME NEW w \in Writer, NEW copy \in State, Load(w, copy), UNCHANGED file, off, off => copy.killed PROVE Stays
  <2>1. ~raced /\ wr'[w].copy = copy /\ \A v \in Writer \ {w} : wr'[v] = wr[v]
    BY <1>3, LoadIs
  <2> QED
    BY <1>0, <1>3, <2>1
<1>4. ASSUME NEW r \in Thread, LoadUse(r) PROVE Stays
  <2>1. off /\ ~raced
    BY <1>4, UseLoads, LoadIs, Writers
  <2>2. Today(Parsed(file), IF At(r, "use") THEN 1 ELSE 0).killed
    BY <1>0, <2>1 DEF Today
  <2> QED
    BY <1>3, <1>4, <2>1, <2>2, UseLoads, Writers
<1>5. ASSUME NEW r \in Thread, LoadRecord(r) PROVE Stays
  <2>1. off /\ ~raced
    BY <1>5, RecordLoads, LoadIs, Writers
  <2>2. Recorded(Parsed(file), req[r].host, req[r].bad).killed
    BY <1>0, <2>1 DEF Recorded
  <2> QED
    BY <1>3, <1>5, <2>1, <2>2, RecordLoads, Writers
<1>6. ASSUME NEW cmd \in {"off", "on", "reset"}, Command(cmd) PROVE Stays
  <2>1. off /\ ~raced /\ cmd # "on"
    BY <1>6, CommandLoads, LoadIs, Writers
  <2>2. Commanded(Parsed(file), cmd).killed
    <3>1. Parsed(file) \in State /\ Parsed(file).killed
      BY <1>0, <2>1, ParsedIsState
    <3>2. CASE cmd = "off"
      BY <3>1, <3>2 DEF Commanded, State
    <3>3. CASE cmd = "reset"
      <4>1. Commanded(Parsed(file), cmd) = [Parsed(file) EXCEPT !.streak = Fresh.streak, !.until = Fresh.until]
        BY <3>3 DEF Commanded
      <4> QED
        BY <3>1, <4>1 DEF State
    <3> QED
      BY <2>1, <3>2, <3>3
  <2> QED
    BY <1>3, <1>6, <2>1, <2>2, CommandLoads, Writers
<1>7. ASSUME NEW w \in Writer, OpenTmp(w) PROVE Stays
  <2>1. UNCHANGED <<file, off, raced>>
    BY <1>7 DEF OpenTmp, relayHistory
  <2>2. wr[w].at # "none" /\ wr'[w].copy = wr[w].copy /\ \A v \in Writer \ {w} : wr'[v] = wr[v]
    BY <1>7, OpenIs
  <2> QED
    BY <1>0, <2>1, <2>2
<1>8. ASSUME NEW w \in Writer, WriteTmp(w) PROVE Stays
  <2>1. UNCHANGED <<off, raced>>
    BY <1>8 DEF WriteTmp, relayHistory
  <2>2. /\ wr[w].at = "opened" /\ wr'[w].copy = wr[w].copy /\ \A v \in Writer \ {w} : wr'[v] = wr[v]
        /\ wr[w].fd = "tmp" /\ tmp = Damaged => file' = file
    BY <1>8, WriteIs
  <2>3. wr[w].fd = "tmp" /\ tmp = Damaged
    BY <2>1, <2>2 DEF FileIsWhole
  <2> QED
    BY <1>0, <2>1, <2>2, <2>3
<1>9. ASSUME NEW r \in Thread, Saved(r) PROVE Stays
  <2>1. off /\ ~raced /\ wr[r].at = "written" /\ (tmp # NoFile => Replace(r))
    BY <1>9, SavedIs
  <2>2. tmp = wr[r].copy /\ tmp # NoFile
    BY <2>1, OwnCopy, Writers
  <2>3. file' = tmp /\ wr'[r].at = "none" /\ \A v \in Writer \ {r} : wr'[v].at = wr[v].at /\ wr'[v].copy = wr[v].copy
    BY <2>1, <2>2, ReplaceIs, Writers
  <2> QED
    BY <1>0, <2>1, <2>2, <2>3, Writers
<1>10. CASE CommandSaved
  <2>1. ~raced /\ wr[Ctl].at = "written" /\ (tmp # NoFile => Replace(Ctl) /\ wr[Ctl].copy.killed)
    <3>1. tmp # NoFile => Replace(Ctl) /\ off' = wr[Ctl].copy.killed
      BY <1>10, CommandSavedIs, Zenon
    <3>2. tmp # NoFile => Replace(Ctl) /\ wr[Ctl].copy.killed
      BY <3>1, Zenon
    <3> QED
      BY <1>10, <3>2, CommandSavedIs
  <2>2. tmp = wr[Ctl].copy /\ tmp # NoFile
    BY <2>1, OwnCopy, Writers
  <2>3. file' = tmp /\ wr'[Ctl].at = "none" /\ \A v \in Writer \ {Ctl} : wr'[v].at = wr[v].at
    BY <2>1, <2>2, ReplaceIs, Writers
  <2>4. \A r \in Thread : wr[r].at = "none"
    BY <2>1 DEF FileIsWhole
  <2> QED
    BY <2>1, <2>2, <2>3, <2>4, Writers
<1>11. CASE Restart
  BY <1>0, <1>11, RestartIs, Writers
<1> QED
  <2>1. UNCHANGED relayVars \/ RelayTick => UNCHANGED <<file, wr, off, raced>>
    BY DEF relayVars, RelayTick, relayFiles, relayHistory
  <2> QED
    BY <2>1, <1>1, <1>2, <1>4, <1>5, <1>6, <1>7, <1>8, <1>9, <1>10, <1>11, RelayMoves, Zenon

\* A breaker's time is set from now; a copy of a thread takes over or sets it.
LEMMA UntilStays ==
  RelayTypes /\ OneHolder /\ FileIsWhole /\ UntilHolds /\ [RelayNext]_relayVars => UntilHolds'
<1> SUFFICES ASSUME RelayTypes, OneHolder, FileIsWhole, UntilHolds, [RelayNext]_relayVars, ~raced', NEW h \in Host
             PROVE  /\ file'.until[h] <= tick' + CoolDown
                    /\ \A w \in Writer : wr'[w].at # "none" => wr'[w].copy.until[h] <= tick' + CoolDown
                    /\ \A r \in Thread : wr'[r].at # "none" => file'.until[h] <= wr'[r].copy.until[h]
  BY DEF UntilHolds
<1> DEFINE Held == /\ file'.until[h] <= tick' + CoolDown
                   /\ \A w \in Writer : wr'[w].at # "none" => wr'[w].copy.until[h] <= tick' + CoolDown
                   /\ \A r \in Thread : wr'[r].at # "none" => file'.until[h] <= wr'[r].copy.until[h]
<1>0. /\ tick \in Nat /\ tick' \in Nat /\ tick <= tick' /\ CoolDown \in Nat
      /\ \A st \in State : st.until \in [Host -> Nat]
      /\ \A w \in Writer : wr[w].copy \in State
  <2>1. tick \in 0..LastTick /\ \A w \in Writer : wr[w].copy \in State
    BY DEF RelayTypes, Way
  <2>2. tick' = tick \/ tick' = tick + 1
    BY RelayMoves, AsideIs, UseLoads, RecordLoads, SavedIs, CommandLoads, CommandSavedIs, RestartIs
       DEF OpenTmp, WriteTmp, RelayTick, relayVars
  <2> QED
    BY <2>1, <2>2, RelayNats DEF State
<1>1. ASSUME ~raced
      PROVE  /\ file \in State /\ Parsed(file) = file /\ file.until[h] <= tick + CoolDown
             /\ \A w \in Writer : wr[w].at # "none" => wr[w].copy.until[h] <= tick + CoolDown
             /\ \A r \in Thread : wr[r].at # "none" => file.until[h] <= wr[r].copy.until[h]
  BY <1>1 DEF UntilHolds, FileIsWhole, Parsed, RelayTypes
<1>2. CASE UNCHANGED <<file, raced>> /\ \A w \in Writer : wr'[w].at # "none" => wr[w].at # "none" /\ wr'[w].copy = wr[w].copy
  BY <1>0, <1>1, <1>2, Writers
<1>3. ASSUME NEW r \in Thread, Aside(r) PROVE Held
  BY <1>2, <1>3, AsideIs DEF relayFiles
<1>4. ASSUME NEW w \in Writer, NEW copy \in State, Load(w, copy), UNCHANGED <<file, tick>>,
             ~raced => copy.until[h] <= tick + CoolDown /\ (w \in Thread => file.until[h] <= copy.until[h])
      PROVE  Held
  <2>1. ~raced /\ wr'[w].copy = copy /\ \A v \in Writer \ {w} : wr'[v] = wr[v]
    BY <1>4, LoadIs
  <2> QED
    BY <1>0, <1>1, <1>4, <2>1, Writers
<1>5. ASSUME NEW r \in Thread, LoadUse(r) PROVE Held
  <2>1. Today(Parsed(file), IF At(r, "use") THEN 1 ELSE 0).until = Parsed(file).until
    BY DEF Today
  <2>2. ~raced => file.until[h] <= Today(Parsed(file), IF At(r, "use") THEN 1 ELSE 0).until[h]
                  /\ Today(Parsed(file), IF At(r, "use") THEN 1 ELSE 0).until[h] <= tick + CoolDown
    BY <1>0, <1>1, <2>1
  <2> QED
    BY <1>4, <1>5, <2>2, UseLoads, Writers
<1>6. ASSUME NEW r \in Thread, LoadRecord(r) PROVE Held
  <2> DEFINE copy == Recorded(Parsed(file), req[r].host, req[r].bad)
  <2>1. ASSUME ~raced PROVE file.until[h] <= copy.until[h] /\ copy.until[h] <= tick + CoolDown
    <3>1. \/ copy.until = [file.until EXCEPT ![req[r].host] = tick + CoolDown]
          \/ copy.until = [file.until EXCEPT ![req[r].host] = file.until[req[r].host]]
      BY <1>1, <2>1 DEF Recorded
    <3>2. file.until \in [Host -> Nat]
      BY <1>0, <1>1, <2>1
    <3>3. copy.until[h] = file.until[h] \/ copy.until[h] = tick + CoolDown
      BY <3>1, <3>2
    <3> QED
      BY <1>0, <1>1, <2>1, <3>2, <3>3
  <2> HIDE DEF copy
  <2>2. Load(r, copy) /\ copy \in State /\ UNCHANGED <<file, tick>>
    BY <1>6, RecordLoads DEF copy
  <2> QED
    BY <1>4, <2>1, <2>2, Writers
<1>7. ASSUME NEW cmd \in {"off", "on", "reset"}, Command(cmd) PROVE Held
  <2> DEFINE copy == Commanded(Parsed(file), cmd)
  <2>1. ASSUME ~raced PROVE copy.until[h] <= tick + CoolDown
    <3>1. CASE cmd \in {"off", "on"}
      <4>1. copy.until = file.until
        BY <1>1, <2>1, <3>1 DEF Commanded, State
      <4> QED
        BY <1>1, <2>1, <4>1
    <3>2. CASE cmd = "reset"
      <4>1. copy = [file EXCEPT !.streak = Fresh.streak, !.until = Fresh.until]
        BY <1>1, <2>1, <3>2 DEF Commanded
      <4>2. copy.until = Fresh.until
        BY <1>1, <2>1, <4>1 DEF State
      <4> QED
        BY <1>0, <4>2 DEF Fresh
    <3> QED
      BY <3>1, <3>2
  <2> HIDE DEF copy
  <2>2. Load(Ctl, copy) /\ copy \in State /\ UNCHANGED <<file, tick>>
    BY <1>7, CommandLoads DEF copy
  <2> QED
    BY <1>4, <2>1, <2>2, Writers
<1>8. ASSUME NEW w \in Writer, OpenTmp(w) PROVE Held
  <2>1. UNCHANGED <<file, raced>>
    BY <1>8 DEF OpenTmp, relayHistory
  <2>2. wr[w].at # "none" /\ wr'[w].copy = wr[w].copy /\ \A v \in Writer \ {w} : wr'[v] = wr[v]
    BY <1>8, OpenIs
  <2> QED
    BY <1>2, <2>1, <2>2
<1>9. ASSUME NEW w \in Writer, WriteTmp(w) PROVE Held
  <2>1. UNCHANGED raced
    BY <1>9 DEF WriteTmp, relayHistory
  <2>2. /\ wr[w].at = "opened" /\ wr'[w].copy = wr[w].copy /\ \A v \in Writer \ {w} : wr'[v] = wr[v]
        /\ wr[w].fd = "tmp" /\ tmp = Damaged => file' = file
    BY <1>9, WriteIs
  <2>3. wr[w].fd = "tmp" /\ tmp = Damaged
    BY <2>1, <2>2 DEF FileIsWhole
  <2> QED
    BY <1>2, <2>1, <2>2, <2>3
<1>10. ASSUME NEW w \in Writer, Replace(w), wr[w].at = "written", ~raced PROVE Held
  <2>1. tmp = wr[w].copy
    BY <1>10, OwnCopy
  <2>2. file' = tmp /\ wr'[w].at = "none" /\ \A v \in Writer \ {w} : wr'[v].at = wr[v].at
    BY <1>10, ReplaceIs
  <2>3. \A v \in Writer \ {w} : wr[v].at = "none"
    BY <1>10, Writers DEF FileIsWhole, OneHolder
  <2> QED
    BY <1>0, <1>1, <1>10, <2>1, <2>2, <2>3, Writers
<1>11. ASSUME NEW r \in Thread, Saved(r) PROVE Held
  <2>1. ~raced /\ wr[r].at = "written" /\ (tmp # NoFile => Replace(r))
    BY <1>11, SavedIs
  <2> QED
    BY <1>10, <2>1, OwnCopy, Writers
<1>12. CASE CommandSaved
  <2>1. ~raced /\ wr[Ctl].at = "written" /\ (tmp # NoFile => Replace(Ctl))
    BY <1>12, CommandSavedIs
  <2> QED
    BY <1>10, <2>1, OwnCopy, Writers
<1>13. CASE Restart
  BY <1>2, <1>13, RestartIs, Writers
<1> QED
  <2>1. UNCHANGED relayVars \/ RelayTick => UNCHANGED <<file, raced, wr>>
    BY DEF relayVars, RelayTick, relayFiles, relayHistory
  <2> QED
    BY <2>1, <1>2, <1>3, <1>5, <1>6, <1>7, <1>8, <1>9, <1>11, <1>12, <1>13, RelayMoves, Zenon

LEMMA DayGoesOn ==
  RelayTypes /\ [RelayNext]_relayVars =>
    /\ tick \in 0..LastTick /\ tick' \in 0..LastTick /\ tick <= tick'
    /\ Day \in 0..LastTick /\ Day' \in 0..LastTick /\ Day <= Day'
<1> SUFFICES ASSUME RelayTypes, [RelayNext]_relayVars
             PROVE  /\ tick \in 0..LastTick /\ tick' \in 0..LastTick /\ tick <= tick'
                    /\ Day \in 0..LastTick /\ Day' \in 0..LastTick /\ Day <= Day'
  OBVIOUS
<1>1. tick \in 0..LastTick /\ tick' \in 0..LastTick
  BY RelayTypesStay DEF RelayTypes
<1>2. tick' = tick \/ tick' = tick + 1
  BY RelayMoves, AsideIs, UseLoads, RecordLoads, SavedIs, CommandLoads, CommandSavedIs, RestartIs
     DEF OpenTmp, WriteTmp, RelayTick, relayVars
<1>3. tick <= tick' /\ tick \in Nat /\ tick' \in Nat
  BY <1>1, <1>2
<1>4. Day' = tick' \div DayLength /\ Day = tick \div DayLength
  BY DEF Day
<1>5. Day \in Nat /\ Day <= Day' /\ Day' <= tick'
  BY <1>3, <1>4, DaysGo
<1>6. Day' \in Nat /\ Day <= tick
  BY <1>3, <1>4, DaysGo
<1> QED
  BY <1>1, <1>3, <1>5, <1>6, RelayNats

\* A copy counts what the file does, and one more where a request is being counted.
LEMMA CopiesStay ==
  RelayTypes /\ OneHolder /\ FileIsWhole /\ CountHolds /\ CopiesCount /\ [RelayNext]_relayVars => CopiesCount'
<1> SUFFICES ASSUME RelayTypes, OneHolder, FileIsWhole, CountHolds, CopiesCount, [RelayNext]_relayVars, ~raced'
             PROVE  /\ wr'[Ctl].at # "none" => wr'[Ctl].copy.day = file'.day /\ wr'[Ctl].copy.used = file'.used
                    /\ \A r \in Thread : wr'[r].at # "none" =>
                         /\ file'.day <= wr'[r].copy.day /\ wr'[r].copy.day <= Day'
                         /\ req'[r].pc \in {"cap", "use"} => wr'[r].copy.day >= 0
                         /\ req'[r].pc = "record" => wr'[r].copy.day = file'.day
                         /\ wr'[r].copy.used = (IF wr'[r].copy.day = file'.day THEN file'.used ELSE 0)
                                               + (IF req'[r].pc = "use" THEN 1 ELSE 0)
  BY DEF CopiesCount
<1> DEFINE Suit(pc, copy, old, upTo) ==
             /\ old.day <= copy.day /\ copy.day <= upTo
             /\ pc \in {"cap", "use"} => copy.day >= 0
             /\ pc = "record" => copy.day = old.day
             /\ copy.used = (IF copy.day = old.day THEN old.used ELSE 0) + (IF pc = "use" THEN 1 ELSE 0)
           Tally == /\ wr'[Ctl].at # "none" => wr'[Ctl].copy.day = file'.day /\ wr'[Ctl].copy.used = file'.used
                    /\ \A r \in Thread : wr'[r].at # "none" => Suit(req'[r].pc, wr'[r].copy, file', Day')
<1>0. /\ Day \in 0..LastTick /\ Day' \in 0..LastTick /\ Day <= Day' /\ LastTick \in Nat
      /\ \A st \in State : st.day \in -1..LastTick /\ st.used \in Nat
      /\ \A w \in Writer : wr[w].copy \in State
  BY DayGoesOn, RelayNats DEF State, RelayTypes, Way
<1>1. ASSUME ~raced
      PROVE  /\ file \in State /\ Parsed(file) = file /\ file.day <= Day
             /\ wr[Ctl].at # "none" => wr[Ctl].copy.day = file.day /\ wr[Ctl].copy.used = file.used
             /\ \A r \in Thread : wr[r].at # "none" => Suit(req[r].pc, wr[r].copy, file, Day)
  BY <1>1 DEF CopiesCount, CountHolds, FileIsWhole, Parsed, RelayTypes
<1>2. \A pc, upTo : \A copy \in State : copy.day <= upTo /\ upTo = Day /\ Suit(pc, copy, file, upTo) => Suit(pc, copy, file, Day')
  BY <1>0
<1>3. \A r \in Thread : wr[r].at # "none" /\ ~raced => Suit(req[r].pc, wr[r].copy, file, Day')
  BY <1>0, <1>1, Writers
<1>4. CASE /\ UNCHANGED <<file, raced>> /\ \A w \in Writer : wr'[w].at # "none" => wr[w].at # "none" /\ wr'[w].copy = wr[w].copy
           /\ \A r \in Thread : wr[r].at # "none" => req'[r].pc = req[r].pc
  <2>1. wr'[Ctl].at # "none" => wr'[Ctl].copy.day = file'.day /\ wr'[Ctl].copy.used = file'.used
    BY <1>1, <1>4, Writers
  <2>2. ASSUME NEW r \in Thread, wr'[r].at # "none" PROVE Suit(req'[r].pc, wr'[r].copy, file', Day')
    <3>1. wr[r].at # "none" /\ wr'[r].copy = wr[r].copy /\ req'[r].pc = req[r].pc /\ ~raced /\ file' = file
      BY <1>4, <2>2, Writers
    <3> QED
      BY <1>3, <3>1
  <2> QED
    BY <2>1, <2>2
<1>5. ASSUME NEW r \in Thread, Aside(r) PROVE Tally
  <2>1. UNCHANGED <<file, raced, wr>>
    BY <1>5, AsideIs DEF relayFiles
  <2>2. \A s \in Thread : wr[s].at # "none" => req'[s].pc = req[s].pc
    BY <1>5, AsideIs DEF OneHolder
  <2> QED
    BY <1>4, <2>1, <2>2
<1>6. ASSUME NEW r \in Thread, NEW copy \in State, Load(r, copy), UNCHANGED <<file, tick, req>>,
             ~raced => Suit(req[r].pc, copy, file, Day)
      PROVE  Tally
  <2>1. ~raced /\ wr'[r].copy = copy /\ \A v \in Writer \ {r} : wr'[v] = wr[v] /\ wr[v].at = "none"
    BY <1>6, LoadIs, Writers
  <2>2. Suit(req'[r].pc, wr'[r].copy, file', Day')
    BY <1>0, <1>6, <2>1
  <2> QED
    BY <2>1, <2>2, Writers
<1>7. ASSUME NEW r \in Thread, LoadUse(r) PROVE Tally
  <2> DEFINE copy == Today(Parsed(file), IF At(r, "use") THEN 1 ELSE 0)
  <2>1. ASSUME ~raced PROVE Suit(req[r].pc, copy, file, Day)
    <3>1. copy.day = Day /\ copy.used = (IF file.day = Day THEN file.used ELSE 0) + (IF At(r, "use") THEN 1 ELSE 0)
      BY <1>1, <2>1 DEF Today
    <3>2. req[r].pc \in {"cap", "use"}
      BY <1>7, UseLoads
    <3> QED
      BY <1>0, <1>1, <2>1, <3>1, <3>2 DEF At
  <2> HIDE DEF copy
  <2>2. Load(r, copy) /\ copy \in State /\ UNCHANGED <<file, tick, req>>
    BY <1>7, UseLoads DEF copy
  <2> QED
    BY <1>6, <2>1, <2>2
<1>8. ASSUME NEW r \in Thread, LoadRecord(r) PROVE Tally
  <2> DEFINE copy == Recorded(Parsed(file), req[r].host, req[r].bad)
  <2>1. ASSUME ~raced PROVE Suit(req[r].pc, copy, file, Day)
    <3>1. copy.day = file.day /\ copy.used = file.used
      BY <1>1, <2>1 DEF Recorded
    <3>2. req[r].pc = "record"
      BY <1>8, RecordLoads
    <3> QED
      BY <1>0, <1>1, <2>1, <3>1, <3>2
  <2> HIDE DEF copy
  <2>2. Load(r, copy) /\ copy \in State /\ UNCHANGED <<file, tick, req>>
    BY <1>8, RecordLoads DEF copy
  <2> QED
    BY <1>6, <2>1, <2>2
<1>9. ASSUME NEW cmd \in {"off", "on", "reset"}, Command(cmd) PROVE Tally
  <2> DEFINE copy == Commanded(Parsed(file), cmd)
  <2>1. Load(Ctl, copy) /\ copy \in State /\ UNCHANGED <<file, tick, req>>
    BY <1>9, CommandLoads
  <2>2. ~raced
    BY <2>1, LoadIs, Writers
  <2>3. copy.day = file.day /\ copy.used = file.used
    BY <1>1, <2>2 DEF Commanded, State
  <2> HIDE DEF copy
  <2>4. wr'[Ctl].copy = copy /\ \A v \in Writer \ {Ctl} : wr'[v] = wr[v] /\ wr[v].at = "none"
    BY <2>1, LoadIs, Writers
  <2> QED
    BY <2>1, <2>3, <2>4, Writers
<1>10. ASSUME NEW w \in Writer, OpenTmp(w) PROVE Tally
  <2>1. UNCHANGED <<file, raced, req>>
    BY <1>10 DEF OpenTmp, relayHistory
  <2>2. wr[w].at # "none" /\ wr'[w].copy = wr[w].copy /\ \A v \in Writer \ {w} : wr'[v] = wr[v]
    BY <1>10, OpenIs
  <2> QED
    BY <1>4, <2>1, <2>2
<1>11. ASSUME NEW w \in Writer, WriteTmp(w) PROVE Tally
  <2>1. UNCHANGED <<raced, req>>
    BY <1>11 DEF WriteTmp, relayHistory
  <2>2. /\ wr[w].at = "opened" /\ wr'[w].copy = wr[w].copy /\ \A v \in Writer \ {w} : wr'[v] = wr[v]
        /\ wr[w].fd = "tmp" /\ tmp = Damaged => file' = file
    BY <1>11, WriteIs
  <2>3. wr[w].fd = "tmp" /\ tmp = Damaged
    BY <2>1, <2>2 DEF FileIsWhole
  <2> QED
    BY <1>4, <2>1, <2>2, <2>3
<1>12. ASSUME NEW w \in Writer, Replace(w), wr[w].at = "written", ~raced PROVE Tally
  <2>1. wr'[w].at = "none" /\ \A v \in Writer \ {w} : wr'[v].at = wr[v].at
    BY <1>12, ReplaceIs
  <2>2. \A v \in Writer \ {w} : wr[v].at = "none"
    BY <1>12, Writers DEF FileIsWhole, OneHolder
  <2> QED
    BY <2>1, <2>2, Writers
<1>13. ASSUME NEW r \in Thread, Saved(r) PROVE Tally
  <2>1. ~raced /\ wr[r].at = "written" /\ (tmp # NoFile => Replace(r))
    BY <1>13, SavedIs
  <2> QED
    BY <1>12, <2>1, OwnCopy, Writers
<1>14. CASE CommandSaved
  <2>1. ~raced /\ wr[Ctl].at = "written" /\ (tmp # NoFile => Replace(Ctl))
    BY <1>14, CommandSavedIs
  <2> QED
    BY <1>12, <2>1, OwnCopy, Writers
<1>15. CASE Restart
  <2>1. ~raced /\ file' = file /\ wr'[Ctl] = wr[Ctl] /\ \A r \in Thread : wr'[r].at = "none"
    BY <1>15, RestartIs
  <2> QED
    BY <1>1, <2>1
<1> QED
  <2>1. UNCHANGED relayVars \/ RelayTick => UNCHANGED <<file, raced, wr, req>>
    BY DEF relayVars, RelayTick, relayFiles, relayHistory
  <2>2. UNCHANGED relayVars \/ RelayTick => Tally
    BY <1>4, <2>1
  <2>3. Tally
    BY <2>2, <1>5, <1>7, <1>8, <1>9, <1>10, <1>11, <1>13, <1>14, <1>15, RelayMoves, Zenon
  <2> QED
    BY <2>3, Zenon

\* What is used and what is on its way to be used stays below the cap and the threads.
LEMMA CountStays ==
  RelayTypes /\ OneHolder /\ FileIsWhole /\ CountHolds /\ CopiesCount /\ [RelayNext]_relayVars => CountHolds'
<1> SUFFICES ASSUME RelayTypes, OneHolder, FileIsWhole, CountHolds, CopiesCount, [RelayNext]_relayVars, ~raced'
             PROVE  /\ file'.day <= Day'
                    /\ \A d \in 0..LastTick :
                         /\ d > file'.day => served'.days[d] = 0
                         /\ d = file'.day => served'.days[d] <= file'.used
                         /\ served'.days[d] <= Cap + Cardinality(Thread) - 1
                    /\ file'.used + Cardinality(Uncounted') <= Cap + Cardinality(Thread) - 1
  BY DEF CountHolds
<1> DEFINE Top == Cap + Cardinality(Thread) - 1
           Tally == /\ file'.day <= Day'
                    /\ \A d \in 0..LastTick :
                         /\ d > file'.day => served'.days[d] = 0
                         /\ d = file'.day => served'.days[d] <= file'.used
                         /\ served'.days[d] <= Top
                    /\ file'.used + Cardinality(Uncounted') <= Top
<1>0. /\ Day \in 0..LastTick /\ Day' \in 0..LastTick /\ Day <= Day' /\ LastTick \in Nat
      /\ \A st \in State : st.day \in -1..LastTick /\ st.used \in Nat
      /\ \A w \in Writer : wr[w].copy \in State
      /\ \A d \in 0..LastTick : served.days[d] \in Nat
  BY DayGoesOn, RelayNats DEF State, RelayTypes, Way
<1>1. IsFiniteSet(Thread) /\ Cardinality(Thread) \in Nat /\ Top \in Int /\ Cap \in Nat
  BY RelayNames, FS_CardinalityType, RelayNats
<1>2. /\ IsFiniteSet(Uncounted) /\ IsFiniteSet(Uncounted')
      /\ Cardinality(Uncounted) \in Nat /\ Cardinality(Uncounted') \in Nat
      /\ Cardinality(Uncounted') <= Cardinality(Thread)
      /\ Uncounted' \subseteq Uncounted => Cardinality(Uncounted') <= Cardinality(Uncounted)
  <2>1. Uncounted \subseteq Thread /\ Uncounted' \subseteq Thread
    BY DEF Uncounted
  <2> QED
    BY <1>1, <2>1, FS_Subset, FS_CardinalityType
<1> HIDE DEF Top
<1>3. ASSUME ~raced
      PROVE  /\ file \in State /\ file.day <= Day
             /\ \A d \in 0..LastTick :
                  /\ d > file.day => served.days[d] = 0
                  /\ d = file.day => served.days[d] <= file.used
                  /\ served.days[d] <= Top
             /\ file.used + Cardinality(Uncounted) <= Top
  BY <1>3 DEF CountHolds, FileIsWhole, RelayTypes, Top
<1>4. ASSUME file'.day = file.day, file'.used = file.used, ~raced, served'.days = served.days, Uncounted' \subseteq Uncounted
      PROVE  Tally
  BY <1>0, <1>1, <1>2, <1>3, <1>4
<1> HIDE DEF Tally
<1>5. ASSUME NEW r \in Thread, Aside(r) PROVE Tally
  <2>1. UNCHANGED <<file, raced>>
    BY <1>5, AsideIs DEF relayFiles
  <2>2. Uncounted' \subseteq Uncounted
    BY <1>5, AsideIs DEF Uncounted
  <2>3. served'.days = served.days
    <3>1. CASE CheckAuth(r)
      <4>1. served' = served \/ served' = [sigs |-> Append(served.sigs, req[r].sig), days |-> served.days]
        BY <3>1 DEF CheckAuth
      <4> QED
        BY <4>1
    <3>2. CASE ~CheckAuth(r)
      BY <1>5, <3>2 DEF Aside, Arrive, CheckKill, TakeSlot, UrlRefused, CheckBreaker, TakeHost, Fetched, Redirected, NoToken,
         HopFails, End, relayHistory
    <3> QED
      BY <3>1, <3>2
  <2> QED
    BY <1>4, <2>1, <2>2, <2>3
<1>6. ASSUME UNCHANGED <<file, req, served>>, ~raced PROVE Tally
  BY <1>4, <1>6 DEF Uncounted
<1>7. ASSUME NEW r \in Thread, LoadUse(r) \/ LoadRecord(r) PROVE Tally
  <2>1. UNCHANGED <<file, req, served>> /\ ~raced
    BY <1>7, UseLoads, RecordLoads, LoadIs, Writers
  <2> QED
    BY <1>6, <2>1
<1>8. ASSUME NEW cmd \in {"off", "on", "reset"}, Command(cmd) PROVE Tally
  <2>1. UNCHANGED <<file, req, served>> /\ ~raced
    BY <1>8, CommandLoads, LoadIs, Writers
  <2> QED
    BY <1>6, <2>1
<1>9. ASSUME NEW w \in Writer, OpenTmp(w) PROVE Tally
  BY <1>6, <1>9 DEF OpenTmp, relayHistory
<1>10. ASSUME NEW w \in Writer, WriteTmp(w) PROVE Tally
  <2>1. UNCHANGED <<raced, req, served>>
    BY <1>10 DEF WriteTmp, relayHistory
  <2>2. wr[w].at = "opened" /\ (wr[w].fd = "tmp" /\ tmp = Damaged => file' = file)
    BY <1>10, WriteIs
  <2>3. wr[w].fd = "tmp" /\ tmp = Damaged
    BY <2>1, <2>2 DEF FileIsWhole
  <2> QED
    BY <1>6, <2>1, <2>2, <2>3
<1>11. ASSUME NEW r \in Thread, Saved(r) PROVE Tally
  <2> DEFINE c == wr[r].copy
  <2>1. ~raced /\ wr[r].at = "written" /\ tmp = c /\ tmp # NoFile
    BY <1>11, SavedIs, OwnCopy, Writers
  <2>2. file' = c
    BY <1>11, <2>1, SavedIs, ReplaceIs, Writers
  <2>3. /\ file.day <= c.day /\ c.day <= Day /\ req[r].pc \in InFile
        /\ req[r].pc \in {"cap", "use"} => c.day >= 0
        /\ req[r].pc = "record" => c.day = file.day
        /\ c.used = (IF c.day = file.day THEN file.used ELSE 0) + (IF req[r].pc = "use" THEN 1 ELSE 0)
    BY <2>1 DEF CopiesCount, OneHolder
  <2>4. /\ \A s \in Thread \ {r} : req'[s] = req[s]
        /\ req'[r].pc \in {"end", "auth", "check"}
        /\ req'[r].pc = "auth" => req[r].pc = "cap" /\ c.used < Cap
        /\ served'.days = IF req[r].pc = "use" THEN [served.days EXCEPT ![c.day] = @ + 1] ELSE served.days
    BY <1>11, <2>1, SavedIs
  <2>5. c \in State /\ c.day \in -1..LastTick /\ c.used \in Nat
    BY <1>0, Writers
  <2> HIDE DEF c
  <2>6. CASE req[r].pc # "use"
    <3>1. served'.days = served.days /\ c.used <= file.used + 0 /\ c.used = (IF c.day = file.day THEN file.used ELSE 0)
      BY <1>0, <1>3, <2>1, <2>3, <2>4, <2>5, <2>6
    <3>2. c.used + Cardinality(Uncounted') <= Top
      <4>1. CASE req'[r].pc = "auth"
        BY <1>1, <1>2, <2>4, <2>5, <4>1 DEF Top
      <4>2. CASE req'[r].pc # "auth"
        <5>1. Uncounted' \subseteq Uncounted
          BY <2>4, <4>2 DEF Uncounted
        <5> QED
          BY <1>0, <1>1, <1>2, <1>3, <2>1, <2>5, <3>1, <5>1
      <4> QED
        BY <4>1, <4>2
    <3>3. c.day <= Day'
      BY <1>0, <2>3, <2>5
    <3> QED
      BY <1>0, <1>1, <1>3, <2>1, <2>2, <2>3, <2>5, <3>1, <3>2, <3>3 DEF Tally
  <2>7. CASE req[r].pc = "use"
    <3>1. c.used = (IF c.day = file.day THEN file.used ELSE 0) + 1 /\ c.day \in 0..LastTick
      BY <1>0, <2>3, <2>5, <2>7
    <3>2. Uncounted' = Uncounted \ {r} /\ r \in Uncounted
      BY <2>4, <2>7 DEF Uncounted
    <3>3. Cardinality(Uncounted') = Cardinality(Uncounted) - 1
      BY <1>2, <3>2, FS_RemoveElement
    <3>4. c.used + Cardinality(Uncounted') <= Top
      BY <1>0, <1>1, <1>2, <1>3, <2>1, <2>5, <3>1, <3>3
    <3>5. c.used <= Top
      BY <1>1, <1>2, <2>5, <3>4
    <3>6. \A d \in 0..LastTick : served'.days[d] = IF d = c.day THEN served.days[d] + 1 ELSE served.days[d]
      BY <2>4, <2>7, <3>1 DEF RelayTypes
    <3>7. served.days[c.day] + 1 <= c.used
      BY <1>0, <1>3, <2>1, <2>3, <2>5, <3>1
    <3>8. c.day <= Day'
      BY <1>0, <2>3, <2>5
    <3>9. ASSUME NEW d \in 0..LastTick
          PROVE  /\ d > c.day => served'.days[d] = 0
                 /\ d = c.day => served'.days[d] <= c.used
                 /\ served'.days[d] <= Top
      <4>1. CASE d = c.day
        BY <1>0, <1>1, <2>5, <3>5, <3>6, <3>7, <4>1
      <4>2. CASE d # c.day
        BY <1>0, <1>1, <1>3, <2>1, <2>3, <2>5, <3>6, <4>2
      <4> QED
        BY <4>1, <4>2
    <3> QED
      BY <2>2, <3>4, <3>8, <3>9 DEF Tally
  <2> QED
    BY <2>6, <2>7
<1>12. ASSUME CommandSaved PROVE Tally
  <2>1. ~raced /\ wr[Ctl].at = "written" /\ (tmp # NoFile => Replace(Ctl)) /\ UNCHANGED <<req, served>>
    BY <1>12, CommandSavedIs
  <2>2. tmp = wr[Ctl].copy /\ tmp # NoFile
    BY <2>1, OwnCopy, Writers
  <2>3. file' = wr[Ctl].copy
    BY <2>1, <2>2, ReplaceIs, Writers
  <2>4. file'.day = file.day /\ file'.used = file.used
    BY <2>1, <2>3 DEF CopiesCount
  <2>5. Uncounted' \subseteq Uncounted
    BY <2>1 DEF Uncounted
  <2> QED
    BY <1>4, <2>1, <2>4, <2>5
<1>13. ASSUME Restart PROVE Tally
  <2>1. UNCHANGED <<file, raced>> /\ served'.days = served.days
    BY <1>13, RestartIs
  <2>2. Uncounted' \subseteq Uncounted
    BY <1>13, RestartIs DEF Uncounted
  <2> QED
    BY <1>4, <2>1, <2>2
<1> QED
  <2>1. UNCHANGED relayVars \/ RelayTick => UNCHANGED <<file, raced, req, served>>
    BY DEF relayVars, RelayTick, relayFiles, relayHistory
  <2>2. UNCHANGED relayVars \/ RelayTick => Tally
    BY <1>6, <2>1
  <2>3. Tally
    BY <2>2, <1>5, <1>7, <1>8, <1>9, <1>10, <1>11, <1>12, <1>13, RelayMoves, Zenon
  <2> QED
    BY <2>3 DEF Tally, Top

\* A signature's entry outlives its window: the entry was made inside it, for two windows.
LEMMA SignaturesStay ==
  RelayTypes /\ SeenCovers /\ AcceptedOnce /\ [RelayNext]_relayVars => SeenCovers' /\ AcceptedOnce'
<1> SUFFICES ASSUME RelayTypes, SeenCovers, AcceptedOnce, [RelayNext]_relayVars PROVE SeenCovers' /\ AcceptedOnce'
  OBVIOUS
<1>0. /\ tick \in Nat /\ tick' \in Nat /\ tick <= tick' /\ TsWindow \in Nat
      /\ served.sigs \in Seq(Sig) /\ \A sig \in Sig : sig[1] \in Int
      /\ \A e \in seen : e[2] \in Int
      /\ \A i \in DOMAIN served.sigs : served.sigs[i] \in Sig
  <2>1. served.sigs \in Seq(Sig) /\ \A sig \in Sig : sig[1] \in Int
    BY DEF RelayTypes, Sig
  <2>2. \A e \in seen : e[2] \in Int
    BY DEF RelayTypes
  <2>3. \A i \in DOMAIN served.sigs : served.sigs[i] \in Sig
    BY <2>1
  <2> QED
    BY <2>1, <2>2, <2>3, DayGoesOn, RelayNats
<1>1. ASSUME served'.sigs = served.sigs, seen' = seen PROVE SeenCovers' /\ AcceptedOnce'
  BY <1>0, <1>1 DEF SeenCovers, AcceptedOnce
<1>2. ASSUME served'.sigs = << >> PROVE SeenCovers' /\ AcceptedOnce'
  BY <1>2 DEF SeenCovers, AcceptedOnce
<1>3. ASSUME NEW r \in Thread, CheckAuth(r) PROVE SeenCovers' /\ AcceptedOnce'
  <2> DEFINE sig == req[r].sig
             e == <<sig, tick + 2 * TsWindow>>
  <2>0. sig \in Sig /\ tick' = tick
    BY <1>3 DEF CheckAuth, RelayTypes, Request
  <2>1. \A i \in DOMAIN served.sigs :
          \/ served.sigs[i][1] + TsWindow < tick
          \/ \E k \in Known : k[1] = served.sigs[i] /\ served.sigs[i][1] + TsWindow <= k[2]
    <3> SUFFICES ASSUME NEW i \in DOMAIN served.sigs, ~(served.sigs[i][1] + TsWindow < tick)
                 PROVE  \E k \in Known : k[1] = served.sigs[i] /\ served.sigs[i][1] + TsWindow <= k[2]
      OBVIOUS
    <3>1. PICK k \in seen : k[1] = served.sigs[i] /\ served.sigs[i][1] + TsWindow <= k[2]
      BY DEF SeenCovers
    <3>2. k[2] >= tick
      BY <1>0, <3>1, SMT
    <3> QED
      BY <3>1, <3>2 DEF Known
  <2>2. CASE served' = served /\ (seen' = seen \/ seen' = Known)
    <3>1. SeenCovers'
      BY <2>0, <2>1, <2>2 DEF SeenCovers
    <3> QED
      BY <2>2, <3>1 DEF AcceptedOnce
  <2>3. CASE /\ seen' = Known \cup {e} /\ served'.sigs = Append(served.sigs, sig)
             /\ tick - sig[1] \in -TsWindow..TsWindow /\ \A k \in Known : k[1] # sig
    <3>1. sig[1] \in Int /\ sig[1] + TsWindow <= tick + 2 * TsWindow /\ tick <= sig[1] + TsWindow
      BY <1>0, <2>0, <2>3, SMT
    <3>2. \A i \in DOMAIN served.sigs : served.sigs[i] # sig
      <4> SUFFICES ASSUME NEW i \in DOMAIN served.sigs, served.sigs[i] = sig
                   PROVE  FALSE
        OBVIOUS
      <4>1. served.sigs[i][1] = sig[1]
        OBVIOUS
      <4>2. ~(served.sigs[i][1] + TsWindow < tick)
        BY <1>0, <3>1, <4>1
      <4>3. PICK k \in Known : k[1] = served.sigs[i]
        BY <2>1, <4>2
      <4>4. k[1] # sig
        BY <2>3, <4>3
      <4> QED
        BY <4>3, <4>4
    <3> HIDE DEF sig
    <3>3. /\ DOMAIN served'.sigs = 1..Len(served.sigs) + 1 /\ Len(served.sigs) \in Nat /\ DOMAIN served.sigs = 1..Len(served.sigs)
          /\ served'.sigs[Len(served.sigs) + 1] = sig
          /\ \A i \in DOMAIN served.sigs : served'.sigs[i] = served.sigs[i]
      BY <1>0, <2>0, <2>3, SMT
    <3>4. AcceptedOnce'
      <4> SUFFICES ASSUME NEW i \in DOMAIN served'.sigs, NEW j \in DOMAIN served'.sigs, served'.sigs[i] = served'.sigs[j]
                   PROVE  i = j
        BY DEF AcceptedOnce
      <4>1. (i \in DOMAIN served.sigs \/ i = Len(served.sigs) + 1) /\ (j \in DOMAIN served.sigs \/ j = Len(served.sigs) + 1)
        BY <3>3
      <4> QED
        BY <3>2, <3>3, <4>1 DEF AcceptedOnce
    <3>5. SeenCovers'
      <4> SUFFICES ASSUME NEW i \in DOMAIN served'.sigs
                   PROVE  \/ served'.sigs[i][1] + TsWindow < tick'
                          \/ \E k \in seen' : k[1] = served'.sigs[i] /\ served'.sigs[i][1] + TsWindow <= k[2]
        BY DEF SeenCovers
      <4>1. CASE i \in DOMAIN served.sigs
        BY <2>0, <2>1, <2>3, <3>3, <4>1
      <4>2. CASE i = Len(served.sigs) + 1
        <5>1. served'.sigs[i] = sig /\ e \in seen' /\ e[1] = sig /\ e[2] = tick + 2 * TsWindow
          BY <2>3, <3>3, <4>2
        <5> QED
          BY <3>1, <5>1
      <4> QED
        BY <3>3, <4>1, <4>2
    <3> QED
      BY <3>4, <3>5
  <2> QED
    BY <1>3, <2>2, <2>3 DEF CheckAuth
<1>4. ASSUME NEW r \in Thread, Aside(r) PROVE SeenCovers' /\ AcceptedOnce'
  <2>1. CASE ~CheckAuth(r)
    <3>1. UNCHANGED <<seen, served>>
      BY <1>4, <2>1 DEF Aside, Arrive, CheckKill, TakeSlot, UrlRefused, CheckBreaker, TakeHost, Fetched, Redirected, NoToken,
         HopFails, End, relayMemory, relayHistory
    <3> QED
      BY <1>1, <3>1
  <2> QED
    BY <1>3, <2>1
<1>5. ASSUME NEW r \in Thread, LoadUse(r) \/ LoadRecord(r) \/ Saved(r) PROVE SeenCovers' /\ AcceptedOnce'
  <2>1. served'.sigs = served.sigs /\ seen' = seen
    BY <1>5, UseLoads, RecordLoads, SavedIs DEF relayMemory
  <2> QED
    BY <1>1, <2>1
<1>6. ASSUME NEW w \in Writer, OpenTmp(w) \/ WriteTmp(w) PROVE SeenCovers' /\ AcceptedOnce'
  BY <1>1, <1>6 DEF OpenTmp, WriteTmp, relayMemory, relayHistory
<1>7. ASSUME NEW cmd \in {"off", "on", "reset"}, Command(cmd) PROVE SeenCovers' /\ AcceptedOnce'
  BY <1>1, <1>7 DEF Command, relayMemory
<1>8. CASE CommandSaved
  BY <1>1, <1>8 DEF CommandSaved, relayMemory
<1>9. CASE Restart
  BY <1>2, <1>9, RestartIs
<1>10. CASE UNCHANGED relayVars \/ RelayTick
  BY <1>1, <1>10 DEF relayVars, RelayTick, relayMemory, relayHistory
<1> QED
  BY <1>4, <1>5, <1>6, <1>7, <1>8, <1>9, <1>10, RelayMoves, Zenon

LEMMA OneLess ==
  ASSUME NEW S \in SUBSET Thread, NEW r \in S, NEW T, T = S \ {r}
  PROVE  Cardinality(T) = Cardinality(S) - 1 /\ Cardinality(S) \in Nat /\ Cardinality(T) \in Nat
<1>1. IsFiniteSet(S)
  BY RelayNames, FS_Subset
<1> QED
  BY <1>1, FS_RemoveElement, FS_CardinalityType

LEMMA OneMoreIn ==
  ASSUME NEW S \in SUBSET Thread, NEW r \in Thread \ S, NEW T, T = S \cup {r}
  PROVE  Cardinality(T) = Cardinality(S) + 1 /\ Cardinality(S) \in Nat /\ Cardinality(T) \in Nat
<1>1. IsFiniteSet(S)
  BY RelayNames, FS_Subset
<1>2. Cardinality(T) = Cardinality(S) + 1 /\ Cardinality(S) \in Nat
  BY <1>1, FS_AddElement, FS_CardinalityType
<1> QED
  BY <1>2

\* Every slot that is not free is held by one request, which gives it back at the end of the hop or of the request.
LEMMA SlotsStay == RelayTypes /\ OneHolder /\ SlotsCount /\ [RelayNext]_relayVars => SlotsCount'
<1> SUFFICES ASSUME RelayTypes, OneHolder, SlotsCount, [RelayNext]_relayVars PROVE SlotsCount'
  OBVIOUS
<1>0. /\ slots \in Nat /\ hostSlots \in [Host -> Nat] /\ limit \in Nat
      /\ WithSlot \subseteq Thread /\ \A h \in Host : FetchingFrom(h) \subseteq Thread
  BY RelayNats DEF RelayTypes, WithSlot, FetchingFrom
<1>1. ASSUME UNCHANGED <<slots, limit, hostSlots>>, WithSlot' = WithSlot, \A h \in Host : FetchingFrom(h)' = FetchingFrom(h)
      PROVE  SlotsCount'
  BY <1>1 DEF SlotsCount
<1>2. ASSUME UNCHANGED <<slots, limit, hostSlots>>,
             \A r \in Thread : /\ req'[r].slot <=> req[r].slot
                               /\ req'[r].pc = "fetch" <=> req[r].pc = "fetch"
                               /\ req[r].pc = "fetch" => req'[r].host = req[r].host
      PROVE  SlotsCount'
  <2>1. WithSlot' = WithSlot
    BY <1>2, Zenon DEF WithSlot
  <2>2. \A h \in Host : FetchingFrom(h)' = FetchingFrom(h)
    BY <1>2, Zenon DEF FetchingFrom, At
  <2> QED
    BY <1>1, <1>2, <2>1, <2>2
<1>3. ASSUME NEW r \in Thread, NEW pc \in Place \ {"fetch"}, Goto(r, pc), req[r].pc # "fetch", UNCHANGED <<slots, limit, hostSlots>>
      PROVE  SlotsCount'
  <2>1. req'[r].pc = pc /\ req'[r].slot = req[r].slot /\ \A s \in Thread \ {r} : req'[s] = req[s]
    BY <1>3, GotoIs
  <2>2. \A s \in Thread : /\ req'[s].slot <=> req[s].slot
                          /\ req'[s].pc = "fetch" <=> req[s].pc = "fetch"
                          /\ req[s].pc = "fetch" => req'[s].host = req[s].host
    BY <1>3, <2>1, Zenon
  <2> QED
    BY <1>2, <1>3, <2>2
<1>4. ASSUME NEW r \in Thread, req[r].pc = "fetch", req'[r].pc # "fetch", req'[r].slot = req[r].slot,
             \A s \in Thread \ {r} : req'[s] = req[s], GiveHostBack(r), UNCHANGED <<slots, limit>>
      PROVE  SlotsCount'
  <2>1. WithSlot' = WithSlot
    BY <1>4, Zenon DEF WithSlot
  <2>2. req[r].host \in Host /\ hostSlots' = [hostSlots EXCEPT ![req[r].host] = @ + 1]
    BY <1>4 DEF RelayTypes, Request, GiveHostBack
  <2>3. ASSUME NEW h \in Host PROVE hostSlots'[h] + Cardinality(FetchingFrom(h)') = HostSlots
    <3>1. hostSlots[h] + Cardinality(FetchingFrom(h)) = HostSlots
      BY DEF SlotsCount
    <3>2. CASE h = req[r].host
      <4>1. FetchingFrom(h)' = FetchingFrom(h) \ {r} /\ r \in FetchingFrom(h)
        BY <1>4, <3>2 DEF FetchingFrom, At
      <4>2. Cardinality(FetchingFrom(h)') = Cardinality(FetchingFrom(h)) - 1 /\ Cardinality(FetchingFrom(h)) \in Nat
        BY <1>0, <4>1, OneLess
      <4>3. hostSlots'[h] = hostSlots[h] + 1 /\ hostSlots[h] \in Nat
        BY <1>0, <2>2, <3>2
      <4> QED
        BY <3>1, <4>2, <4>3
    <3>3. CASE h # req[r].host
      <4>1. FetchingFrom(h)' = FetchingFrom(h)
        BY <1>4, <3>3 DEF FetchingFrom, At
      <4>2. hostSlots'[h] = hostSlots[h]
        BY <1>0, <2>2, <3>3
      <4> QED
        BY <3>1, <4>1, <4>2
    <3> QED
      BY <3>2, <3>3
  <2> QED
    BY <1>4, <2>1, <2>3 DEF SlotsCount
<1>5. ASSUME NEW r \in Thread, CheckKill(r) \/ CheckAuth(r) \/ UrlRefused(r) \/ CheckBreaker(r) PROVE SlotsCount'
  <2>1. UNCHANGED <<slots, limit, hostSlots>> /\ req[r].pc # "fetch"
    BY <1>5 DEF CheckKill, CheckAuth, UrlRefused, CheckBreaker, At, relayMemory, relayCount
  <2>2. \E pc \in Place \ {"fetch"} : Goto(r, pc)
    BY <1>5, Zenon DEF CheckKill, CheckAuth, UrlRefused, CheckBreaker, Refuse, Place
  <2> QED
    BY <1>3, <2>1, <2>2
<1>6. ASSUME NEW r \in Thread, NEW ts \in tick - TsWindow..tick + TsWindow, NEW h \in Host, NEW honest \in BOOLEAN, Arrive(r, ts, h, honest)
      PROVE  SlotsCount'
  <2>1. UNCHANGED <<slots, limit, hostSlots>> /\ req[r].pc = "idle" /\ ~req[r].slot
    BY <1>6 DEF Arrive, At, relayMemory, OneHolder
  <2>2. req'[r].pc = "kill" /\ ~req'[r].slot /\ \A s \in Thread \ {r} : req'[s] = req[s]
    BY <1>6, ArriveIs
  <2>3. \A s \in Thread : /\ req'[s].slot <=> req[s].slot
                          /\ req'[s].pc = "fetch" <=> req[s].pc = "fetch"
                          /\ req[s].pc = "fetch" => req'[s].host = req[s].host
    BY <2>1, <2>2
  <2> QED
    BY <1>2, <2>1, <2>3
<1>7. ASSUME NEW r \in Thread, TakeSlot(r) PROVE SlotsCount'
  <2>1. CASE Refuse(r) /\ UNCHANGED slots
    BY <1>3, <1>7, <2>1 DEF TakeSlot, Refuse, At, Place, relayCount
  <2>2. CASE slots > 0 /\ slots' = slots - 1 /\ GoesOn(r, "use", req[r].host, req[r].hop, req[r].bad, TRUE)
    <3>1. UNCHANGED <<limit, hostSlots>> /\ req[r].pc = "slot"
      BY <1>7 DEF TakeSlot, At, relayCount
    <3>2. req'[r].pc = "use" /\ req'[r].slot /\ \A s \in Thread \ {r} : req'[s] = req[s]
      <4>1. req' = [req EXCEPT ![r] = [pc |-> "use", sig |-> req[r].sig, honest |-> req[r].honest,
                                       host |-> req[r].host, hop |-> req[r].hop, bad |-> req[r].bad, slot |-> TRUE]]
        BY <2>2, Zenon DEF GoesOn
      <4> QED
        BY <4>1 DEF RelayTypes
    <3>3. ~req[r].slot
      BY <3>1 DEF OneHolder
    <3>4. WithSlot' = WithSlot \cup {r} /\ r \in Thread \ WithSlot
      BY <3>2, <3>3 DEF WithSlot
    <3>5. Cardinality(WithSlot') = Cardinality(WithSlot) + 1 /\ Cardinality(WithSlot) \in Nat
      BY <1>0, <3>4, OneMoreIn
    <3>6. \A h \in Host : FetchingFrom(h)' = FetchingFrom(h)
      BY <3>1, <3>2 DEF FetchingFrom, At
    <3> QED
      BY <1>0, <2>2, <3>1, <3>5, <3>6 DEF SlotsCount
  <2> QED
    BY <1>7, <2>1, <2>2 DEF TakeSlot
<1>8. ASSUME NEW r \in Thread, TakeHost(r) PROVE SlotsCount'
  <2>1. CASE Refuse(r) /\ UNCHANGED hostSlots
    BY <1>3, <1>8, <2>1 DEF TakeHost, Refuse, At, Place, relayCount
  <2>2. CASE hostSlots[req[r].host] > 0 /\ hostSlots' = [hostSlots EXCEPT ![req[r].host] = @ - 1] /\ Goto(r, "fetch")
    <3>1. UNCHANGED <<limit, slots>> /\ req[r].pc = "host" /\ req[r].host \in Host
      BY <1>8 DEF TakeHost, At, relayCount, RelayTypes, Request
    <3>2. req'[r].pc = "fetch" /\ req'[r].slot = req[r].slot /\ req'[r].host = req[r].host
          /\ \A s \in Thread \ {r} : req'[s] = req[s]
      BY <2>2, GotoIs DEF Place
    <3>3. WithSlot' = WithSlot
      BY <3>2, Zenon DEF WithSlot
    <3>4. ASSUME NEW h \in Host PROVE hostSlots'[h] + Cardinality(FetchingFrom(h)') = HostSlots
      <4>1. hostSlots[h] + Cardinality(FetchingFrom(h)) = HostSlots
        BY DEF SlotsCount
      <4>2. CASE h = req[r].host
        <5>1. FetchingFrom(h)' = FetchingFrom(h) \cup {r} /\ r \in Thread \ FetchingFrom(h)
          BY <3>1, <3>2, <4>2 DEF FetchingFrom, At
        <5>2. Cardinality(FetchingFrom(h)') = Cardinality(FetchingFrom(h)) + 1 /\ Cardinality(FetchingFrom(h)) \in Nat
          BY <1>0, <5>1, OneMoreIn
        <5>3. hostSlots'[h] = hostSlots[h] - 1 /\ hostSlots[h] \in Nat
          BY <1>0, <2>2, <4>2
        <5> QED
          BY <4>1, <5>2, <5>3
      <4>3. CASE h # req[r].host
        <5>1. FetchingFrom(h)' = FetchingFrom(h)
          BY <3>1, <3>2, <4>3 DEF FetchingFrom, At
        <5>2. hostSlots'[h] = hostSlots[h]
          BY <1>0, <2>2, <4>3
        <5> QED
          BY <4>1, <5>1, <5>2
      <4> QED
        BY <4>2, <4>3
    <3> QED
      BY <3>1, <3>3, <3>4 DEF SlotsCount
  <2> QED
    BY <1>8, <2>1, <2>2 DEF TakeHost
<1>9. ASSUME NEW r \in Thread, (\E bad \in BOOLEAN : Fetched(r, bad)) \/ (\E h \in Host : Redirected(r, h)) \/ NoToken(r) \/ HopFails(r)
      PROVE  SlotsCount'
  <2>1. UNCHANGED <<slots, limit>> /\ GiveHostBack(r) /\ req[r].pc = "fetch"
    BY <1>9 DEF Fetched, Redirected, NoToken, HopFails, At, relayCount
  <2>2. req[r].host \in Host /\ req[r].hop \in 0..MaxHops /\ req[r].bad \in BOOLEAN /\ req[r].slot \in BOOLEAN
    BY DEF RelayTypes, Request
  <2>3. CASE NoToken(r) \/ HopFails(r)
    <3>1. req'[r].pc = "end" /\ req'[r].slot = req[r].slot /\ \A s \in Thread \ {r} : req'[s] = req[s]
      BY <2>3, GotoIs DEF NoToken, HopFails, Refuse, Place
    <3> QED
      BY <1>4, <2>1, <3>1
  <2>4. ASSUME NEW bad \in BOOLEAN, Fetched(r, bad) PROVE SlotsCount'
    <3>1. req'[r].pc = "record" /\ req'[r].slot = req[r].slot /\ \A s \in Thread \ {r} : req'[s] = req[s]
      BY <2>2, <2>4, GoesOnIs DEF Fetched, Place
    <3> QED
      BY <1>4, <2>1, <3>1
  <2>5. ASSUME NEW h \in Host, Redirected(r, h) PROVE SlotsCount'
    <3>1. req'[r].pc # "fetch" /\ req'[r].slot = req[r].slot /\ \A s \in Thread \ {r} : req'[s] = req[s]
      <4>1. CASE req[r].hop < MaxHops
        <5>1. req[r].hop + 1 \in 0..MaxHops /\ "check" \in Place
          BY <2>2, <4>1, RelayNats DEF Place
        <5> QED
          BY <2>2, <2>5, <4>1, <5>1, GoesOnIs DEF Redirected
      <4>2. CASE ~(req[r].hop < MaxHops)
        BY <2>5, <4>2, GotoIs DEF Redirected, Refuse, Place
      <4> QED
        BY <4>1, <4>2
    <3> QED
      BY <1>4, <2>1, <3>1
  <2> QED
    BY <1>9, <2>3, <2>4, <2>5
<1>10. ASSUME NEW r \in Thread, End(r) PROVE SlotsCount'
  <2>1. /\ UNCHANGED <<limit, hostSlots>> /\ req[r].pc = "end"
        /\ slots' = IF req[r].slot THEN slots + 1 ELSE slots
    BY <1>10 DEF End, At, relayCount
  <2>2. req'[r].pc = "idle" /\ ~req'[r].slot /\ \A s \in Thread \ {r} : req'[s] = req[s]
    BY <1>10, EndIs
  <2>3. \A h \in Host : FetchingFrom(h)' = FetchingFrom(h)
    BY <2>1, <2>2 DEF FetchingFrom, At
  <2>4. CASE req[r].slot
    <3>1. WithSlot' = WithSlot \ {r} /\ r \in WithSlot
      BY <2>2, <2>4 DEF WithSlot
    <3>2. Cardinality(WithSlot') = Cardinality(WithSlot) - 1 /\ Cardinality(WithSlot) \in Nat
      BY <1>0, <3>1, OneLess
    <3> QED
      BY <1>0, <2>1, <2>3, <2>4, <3>2 DEF SlotsCount
  <2>5. CASE ~req[r].slot
    <3>1. WithSlot' = WithSlot
      BY <2>2, <2>5 DEF WithSlot
    <3> QED
      BY <2>1, <2>3, <2>5, <3>1 DEF SlotsCount
  <2> QED
    BY <2>4, <2>5
<1>11. ASSUME NEW r \in Thread, Saved(r) PROVE SlotsCount'
  <2>1. /\ UNCHANGED <<relayMemory, relayCount>> /\ req'[r].slot = req[r].slot /\ req'[r].pc \in {"end", "auth", "check"}
        /\ wr[r].at = "written"
    BY <1>11, SavedIs
  <2>2. \A s \in Thread \ {r} : req'[s] = req[s]
    BY <1>11, SavedIs
  <2>3. req[r].pc \in InFile
    BY <2>1 DEF OneHolder
  <2>4. \A s \in Thread : /\ req'[s].slot <=> req[s].slot
                          /\ req'[s].pc = "fetch" <=> req[s].pc = "fetch"
                          /\ req[s].pc = "fetch" => req'[s].host = req[s].host
    BY <2>1, <2>2, <2>3 DEF InFile
  <2> QED
    BY <1>2, <2>1, <2>4 DEF relayMemory, relayCount
<1>12. ASSUME UNCHANGED <<slots, limit, hostSlots, req>> PROVE SlotsCount'
  BY <1>2, <1>12
<1>13. ASSUME NEW r \in Thread, LoadUse(r) \/ LoadRecord(r) PROVE SlotsCount'
  BY <1>12, <1>13 DEF LoadUse, LoadRecord, relayMemory, relayCount
<1>14. ASSUME NEW w \in Writer, OpenTmp(w) \/ WriteTmp(w) PROVE SlotsCount'
  BY <1>12, <1>14 DEF OpenTmp, WriteTmp, relayMemory, relayCount
<1>15. ASSUME NEW cmd \in {"off", "on", "reset"}, Command(cmd) PROVE SlotsCount'
  BY <1>12, <1>15 DEF Command, relayMemory
<1>16. CASE CommandSaved
  BY <1>12, <1>16 DEF CommandSaved, relayMemory, relayCount
<1>17. CASE Restart
  <2>1. WithSlot' = {} /\ \A h \in Host : FetchingFrom(h)' = {}
    BY <1>17, RestartIs DEF WithSlot, FetchingFrom, At
  <2>2. Cardinality(WithSlot') = 0 /\ \A h \in Host : Cardinality(FetchingFrom(h)') = 0
    BY <2>1, FS_EmptySet
  <2> QED
    BY <1>0, <1>17, <2>2, RelayNats DEF Restart, SlotsCount
<1>18. CASE UNCHANGED relayVars \/ RelayTick
  BY <1>12, <1>18 DEF relayVars, RelayTick, relayMemory, relayCount
<1>19. ASSUME NEW r \in Thread, Aside(r) PROVE SlotsCount'
  BY <1>5, <1>6, <1>7, <1>8, <1>9, <1>10, <1>19, Zenon DEF Aside
<1> QED
  BY <1>11, <1>13, <1>14, <1>15, <1>16, <1>17, <1>18, <1>19, RelayMoves, Zenon

LEMMA RelayStays == RelayInv /\ [RelayNext]_relayVars => RelayInv'
<1> SUFFICES ASSUME RelayInv, [RelayNext]_relayVars PROVE RelayInv'
  OBVIOUS
<1>1. RelayTypes' /\ OneHolder' /\ FileIsWhole'
  BY RelayTypesStay, HolderStays, SharedStays DEF RelayInv
<1>2. OffIsKept' /\ UntilHolds' /\ SlotsCount'
  BY OffStays, UntilStays, SlotsStay DEF RelayInv
<1>3. CountHolds' /\ CopiesCount'
  BY CountStays, CopiesStay DEF RelayInv
<1>4. SeenCovers' /\ AcceptedOnce'
  BY SignaturesStay DEF RelayInv
<1> QED
  BY <1>1, <1>2, <1>3, <1>4 DEF RelayInv

LEMMA RelayInvIsEnough == RelayInv => RelaySafe
<1> SUFFICES ASSUME RelayInv PROVE RelaySafe
  OBVIOUS
<1>1. RelayTypes /\ OneHolder /\ SlotsCount
  BY DEF RelayInv
<1>2. /\ slots \in Nat /\ hostSlots \in [Host -> Nat] /\ limit \in Nat /\ HostSlots \in Nat
      /\ Cardinality(WithSlot) \in Nat /\ \A h \in Host : Cardinality(FetchingFrom(h)) \in Nat
  <2>1. IsFiniteSet(WithSlot) /\ \A h \in Host : IsFiniteSet(FetchingFrom(h))
    BY RelayNames, FS_Subset DEF WithSlot, FetchingFrom
  <2>2. Cardinality(WithSlot) \in Nat /\ \A h \in Host : Cardinality(FetchingFrom(h)) \in Nat
    BY <2>1, FS_CardinalityType
  <2> QED
    BY <1>1, <2>2, RelayNats DEF RelayTypes
<1>3. slots \in 0..limit /\ hostSlots \in [Host -> 0..HostSlots]
  <2>1. slots <= limit /\ \A h \in Host : hostSlots[h] <= HostSlots
    BY <1>1, <1>2 DEF SlotsCount
  <2> QED
    BY <1>2, <2>1
<1>4. RelayTypeOK
  <2>1. \A w \in Writer : wr[w] \in Way
    BY <1>1 DEF RelayTypes
  <2>2. arrived \in Nat /\ events \in Nat => {arrived, events} \subseteq Nat
    BY Zenon
  <2>3. {arrived, events} \subseteq Nat
    BY <1>1, <2>2 DEF RelayTypes
  <2> QED
    BY <1>1, <1>3, <2>3, Zenon DEF RelayTypeOK, RelayTypes, Tick0, Way, Request, Place
<1>5. CapBound /\ OffHolds
  <2>1. CapBound
    BY DEF RelayInv, CountHolds, CapBound, RelayTypes
  <2>2. OffHolds
    BY DEF RelayInv, OffIsKept, FileIsWhole, OffHolds
  <2> QED
    BY <2>1, <2>2
<1>6. SlotsKept
  BY <1>1 DEF SlotsKept, OneHolder, SlotsCount, WithSlot, FetchingFrom
<1> QED
  BY <1>4, <1>5, <1>6 DEF RelayInv, RelaySafe

\* What is renamed over relay.json is a copy, and a thread's copy leaves the time of a breaker alone or sets it later.
LEMMA BreakersStay == RelayInv /\ [RelayNext]_relayVars => BreakerStays
<1> SUFFICES ASSUME RelayInv, [RelayNext]_relayVars, NEW h \in Host,
                    ~raced, wr[Ctl].at = "none", file # Damaged
             PROVE  file' # Damaged /\ file'.until[h] >= file.until[h]
  BY DEF BreakerStays
<1>1. RelayTypes /\ OneHolder /\ FileIsWhole /\ UntilHolds
  BY DEF RelayInv
<1>2. file \in State /\ \A st \in State : st.until[h] \in Nat
  <2>1. file \in State
    BY <1>1, Zenon DEF RelayTypes
  <2>2. \A st \in State : st.until \in [Host -> 0..LastTick + CoolDown]
    BY DEF State
  <2>3. \A st \in State : st.until[h] \in Nat
    BY <2>2, RelayNats
  <2> QED
    BY <2>1, <2>3
<1>3. CASE UNCHANGED file
  BY <1>2, <1>3
<1>4. ASSUME NEW r \in Thread, Saved(r) PROVE file' # Damaged /\ file'.until[h] >= file.until[h]
  <2>1. wr[r].at = "written"
    BY <1>1, <1>4, SavedIs
  <2>2. tmp = wr[r].copy /\ tmp \in State /\ tmp # NoFile /\ tmp # Damaged
    BY <1>1, <2>1, OwnCopy, Writers
  <2>3. file' = wr[r].copy
    BY <1>1, <1>4, <2>2, SavedIs, ReplaceIs, Writers
  <2>4. file.until[h] <= wr[r].copy.until[h]
    BY <1>1, <2>1 DEF UntilHolds
  <2> QED
    BY <1>2, <2>2, <2>3, <2>4
<1>5. ASSUME NEW w \in Writer, WriteTmp(w) PROVE UNCHANGED file
  <2>1. wr[w].at = "opened" /\ (wr[w].fd = "tmp" /\ tmp = Damaged => file' = file)
    BY <1>1, <1>5, WriteIs
  <2> QED
    BY <1>1, <2>1 DEF FileIsWhole
<1>6. ~CommandSaved
  BY DEF CommandSaved
<1>7. \/ UNCHANGED relayVars \/ RelayTick \/ Restart
      \/ \E r \in Thread : Aside(r) \/ LoadUse(r) \/ LoadRecord(r)
      \/ \E w \in Writer : OpenTmp(w)
      \/ \E cmd \in {"off", "on", "reset"} : Command(cmd)
      => UNCHANGED file
  BY <1>1, AsideIs DEF relayVars, relayFiles, RelayTick, Restart, LoadUse, LoadRecord, OpenTmp, Command
<1> QED
  BY <1>3, <1>4, <1>5, <1>6, <1>7, RelayMoves, Zenon

\* RelayHold: no signature is accepted twice while the process lives, the cap is overshot by fewer than
\* the threads, "off" holds, and slots and lock are given back, however threads, the command and restarts
\* of the container cross (do_GET, daily_use, check_auth, breaker_record, save_state, relayctl.py).
THEOREM RelayStaysSafe == HostSpec => []RelayHold
<1> DEFINE I == part = "relay" => RelayInv
<1>1. HostInit => I
  BY PartStarts, RelayStarts
<1>2. I /\ [HostNext]_hostVars => I'
  BY PartMoves, RelayStays
<1>3. I => RelayHold
  BY RelayInvIsEnough DEF RelayHold
<1> QED
  BY <1>1, <1>2, <1>3, PTL DEF HostSpec

-----------------------------------------------------------------------------
(* Notify: the outbox and the alerts' state files.                         *)

LEMMA NotifyNats == Remind \in Nat /\ OutboxAge \in Nat /\ LastHour \in Nat /\ MaxRuns \in Nat /\ MaxDeaths \in Nat
  BY NotifyConstants, Zenon

LEMMA NoMessage == <<>> \notin Msg
  BY DEF Msg

LEMMA NoBoxIs == NoBox \notin Seq(Item) /\ <<>> # NoBox
<1>1. NoBox[1].msg = <<>> /\ Len(NoBox) = 1 /\ DOMAIN NoBox = 1..1 /\ 1 \in DOMAIN NoBox
  BY DEF NoBox
<1>2. ASSUME NoBox \in Seq(Item) PROVE FALSE
  <2>1. NoBox[1] \in Item
    <3>1. ASSUME NEW s \in Seq(Item), 1 \in DOMAIN s PROVE s[1] \in Item
      BY <3>1
    <3> QED
      BY <1>1, <1>2, <3>1, Zenon
  <2>2. NoBox[1].msg \in Msg
    BY <2>1 DEF Item
  <2> QED
    BY <1>1, <2>2, NoMessage
<1> QED
  BY <1>1, <1>2

LEMMA LinesAre == NotifyTypes => Lines \in Seq(Item)
  BY DEF NotifyTypes, Lines

LEMMA QuietIs ==
  /\ NoAlert \in Note /\ NoAlert.since = -1 /\ NoAlert.last = 0 /\ NoAlert.told = FALSE /\ NoAlert.reminders = 0
  /\ Quiet \in Call /\ Quiet.at = "idle"
  BY DEF NoAlert, Quiet, Note, Call, Stage

LEMMA NotifyMoves ==
  [NotifyNext]_notifyVars =>
    \/ UNCHANGED notifyVars \/ HourPasses
    \/ \E d \in Dog :
         \/ \E op \in {"alert", "clear", "send"} : Called(d, op)
         \/ Resends(d) \/ OpensBox(d) \/ WriteKeep(d) \/ ReplaceBox(d)
         \/ AlertSends(d) \/ Saves(d) \/ ClearsQuietly(d) \/ SendsOnce(d) \/ Queue(d) \/ Ends(d) \/ Dies(d)
  BY Zenon DEF NotifyNext

-----------------------------------------------------------------------------
(* What each step does to the call it is a step of.                        *)

\* The call of d becomes q, and the others stay.
Takes(d, q) == call' \in [Dog -> Call] /\ call'[d] = q /\ \A e \in Dog \ {d} : call'[e] = call[e]

LEMMA TakesIs ==
  ASSUME NotifyTypes, NEW d \in Dog, NEW q \in Call, call' = [call EXCEPT ![d] = q]
  PROVE  Takes(d, q)
  BY DEF NotifyTypes, Takes

LEMMA CallIs ==
  ASSUME NotifyTypes, NEW d \in Dog
  PROVE  /\ call[d] \in Call /\ call[d].op \in {"none", "alert", "clear", "send"} /\ call[d].at \in Stage
         /\ call[d].todo \in Seq(Item) /\ call[d].keep \in Seq(Item) /\ call[d].st \in Note
         /\ call[d].msg \in Msg \cup {<<>>}
  BY DEF NotifyTypes, Call

LEMMA MovesIs ==
  ASSUME NotifyTypes, NEW d \in Dog, NEW at \in Stage, Moves(d, at)
  PROVE  \E q \in Call : Takes(d, q) /\ q.at = at /\ q.op = call[d].op /\ q.todo = call[d].todo /\ q.keep = call[d].keep
                         /\ q.st = call[d].st /\ q.msg = call[d].msg
<1> DEFINE q == [call[d] EXCEPT !.at = at]
<1>1. q \in Call /\ q.at = at /\ q.op = call[d].op /\ q.todo = call[d].todo /\ q.keep = call[d].keep
      /\ q.st = call[d].st /\ q.msg = call[d].msg
  BY CallIs DEF Call
<1>2. call' = [call EXCEPT ![d] = q]
  BY Zenon DEF Moves
<1> HIDE DEF q
<1> QED
  BY <1>1, <1>2, TakesIs

LEMMA CalledIs ==
  ASSUME NotifyTypes, NEW d \in Dog, NEW op \in {"alert", "clear", "send"}, Called(d, op)
  PROVE  \E q \in Call : /\ Takes(d, q) /\ q.at = IF outbox = NoBox THEN "act" ELSE "flush"
                         /\ q.todo = Lines /\ q.keep = <<>>
<1> DEFINE at == IF outbox = NoBox THEN "act" ELSE "flush"
           q1 == [Quiet EXCEPT !.op = op]
           q2 == [q1 EXCEPT !.at = at]
           q == [q2 EXCEPT !.todo = Lines]
<1>1. call' = [call EXCEPT ![d] = [Quiet EXCEPT !.op = op, !.at = at, !.todo = Lines]]
  BY Zenon DEF Called
<1>2. [Quiet EXCEPT !.op = op, !.at = at, !.todo = Lines] = q
  OBVIOUS
<1>3. at \in {"act", "flush"}
  OBVIOUS
<1> HIDE DEF at
<1>4. q1 \in Call /\ q1.keep = <<>>
  BY QuietIs DEF Quiet, Call
<1> HIDE DEF q1
<1>5. q2 \in Call /\ q2.at = at /\ q2.keep = <<>>
  BY <1>3, <1>4 DEF Call, Stage
<1> HIDE DEF q2
<1>6. q \in Call /\ q.at = at /\ q.keep = <<>> /\ q.todo = Lines
  BY <1>5, LinesAre DEF Call
<1> HIDE DEF q
<1>7. Takes(d, q)
  BY <1>1, <1>2, <1>6, TakesIs
<1> QED
  BY <1>6, <1>7 DEF at

\* The first of the messages to send again: too old, delivered, or kept.
LEMMA ResendsIs ==
  ASSUME NotifyTypes, NEW d \in Dog, Resends(d)
  PROVE  LET item == Head(call[d].todo) IN
         /\ call[d].at = "flush" /\ call[d].todo # <<>> /\ item \in Item /\ got \subseteq got' /\ expired \subseteq expired'
         /\ \E q \in Call :
              /\ Takes(d, q) /\ q.at = "flush" /\ q.op = call[d].op /\ q.todo = Tail(call[d].todo)
              /\ \/ q.keep = call[d].keep /\ (item.msg \in got' \/ item.msg \in expired')
                 \/ q.keep = Append(call[d].keep, item)
<1> DEFINE item == Head(call[d].todo)
           p == [call[d] EXCEPT !.todo = Tail(@)]
           q == [p EXCEPT !.keep = Append(@, item)]
           rest == [call EXCEPT ![d].todo = Tail(@)]
<1>1. call[d].at = "flush" /\ call[d].todo # <<>> /\ item \in Item /\ Tail(call[d].todo) \in Seq(Item)
  BY CallIs DEF Resends
<1>2. /\ got \subseteq got' /\ expired \subseteq expired'
      /\ \/ call' = rest /\ item.msg \in expired'
         \/ call' = rest /\ item.msg \in got'
         \/ call' = [rest EXCEPT ![d].keep = Append(@, item)]
  <2>1. CASE call' = rest /\ expired' = expired \cup {item.msg} /\ UNCHANGED got
    BY <2>1
  <2>2. ASSUME NEW o \in Outcome, call' = (IF o.ok THEN rest ELSE [rest EXCEPT ![d].keep = Append(@, item)]),
               got' = (IF o.through THEN got \cup {item.msg} ELSE got), UNCHANGED expired
        PROVE  /\ got \subseteq got' /\ expired \subseteq expired'
               /\ \/ call' = rest /\ item.msg \in expired'
                  \/ call' = rest /\ item.msg \in got'
                  \/ call' = [rest EXCEPT ![d].keep = Append(@, item)]
    <3>1. o.ok => o.through
      BY Zenon DEF Outcome
    <3>2. CASE o.ok
      BY <2>2, <3>1, <3>2
    <3>3. CASE ~o.ok
      BY <2>2, <3>3
    <3> QED
      BY <3>2, <3>3
  <2> QED
    BY <2>1, <2>2, Zenon DEF Resends
<1>3. p \in Call /\ p.at = "flush" /\ p.op = call[d].op /\ p.todo = Tail(call[d].todo) /\ p.keep = call[d].keep
  BY <1>1, CallIs DEF Call
<1>4. rest = [call EXCEPT ![d] = p]
  BY Zenon
<1>5. q \in Call /\ q.at = "flush" /\ q.op = call[d].op /\ q.todo = Tail(call[d].todo) /\ q.keep = Append(call[d].keep, item)
  <2> HIDE DEF p
  <2>1. Append(p.keep, item) \in Seq(Item)
    BY <1>1, <1>3, CallIs
  <2> QED
    BY <1>3, <2>1 DEF Call
<1>6. [rest EXCEPT ![d].keep = Append(@, item)] = [call EXCEPT ![d] = q]
  <2>1. call \in [Dog -> Call]
    BY DEF NotifyTypes
  <2> HIDE DEF p
  <2>2. rest \in [Dog -> Call] /\ rest[d] = p /\ rest = [call EXCEPT ![d] = p]
    BY <1>3, <1>4, <2>1
  <2> HIDE DEF rest, item
  <2>3. [rest EXCEPT ![d].keep = Append(@, item)] = [rest EXCEPT ![d] = [rest[d] EXCEPT !.keep = Append(@, item)]]
    BY Zenon
  <2>4. [rest EXCEPT ![d].keep = Append(@, item)] = [rest EXCEPT ![d] = q]
    BY <2>2, <2>3, Zenon
  <2> HIDE DEF q
  <2> QED
    BY <2>1, <2>2, <2>4
<1> HIDE DEF item, p, q, rest
<1>7. CASE call' = rest
  <2>1. Takes(d, p)
    BY <1>3, <1>4, <1>7, TakesIs
  <2>2. item.msg \in got' \/ item.msg \in expired' \/ call' = [rest EXCEPT ![d].keep = Append(@, item)]
    BY <1>2
  <2>3. CASE item.msg \in got' \/ item.msg \in expired'
    BY <1>1, <1>2, <1>3, <2>1, <2>3 DEF item
  <2>4. CASE call' = [rest EXCEPT ![d].keep = Append(@, item)]
    <3>1. Takes(d, q)
      BY <1>5, <1>6, <2>4, TakesIs
    <3> QED
      BY <1>1, <1>2, <1>5, <3>1 DEF item
  <2> QED
    BY <2>2, <2>3, <2>4
<1>8. CASE call' = [rest EXCEPT ![d].keep = Append(@, item)]
  <2>1. Takes(d, q)
    BY <1>5, <1>6, <1>8, TakesIs
  <2> QED
    BY <1>1, <1>2, <1>5, <2>1 DEF item
<1> QED
  BY <1>2, <1>7, <1>8

LEMMA LoadedIs ==
  ASSUME NotifyTypes, NEW d \in Dog
  PROVE  LET st == Loaded(d) IN
         /\ st \in Note /\ (st.since = hour \/ st.since = alerts[d].since) /\ st.last = alerts[d].last
         /\ st.told = alerts[d].told /\ st.reminders = alerts[d].reminders
<1>1. hour \in Int /\ alerts[d] \in Note
  BY NotifyNats DEF NotifyTypes
<1>2. CASE alerts[d] = NoAlert
  <2>1. Loaded(d) = [NoAlert EXCEPT !.since = hour]
    BY <1>2, Zenon DEF Loaded
  <2>2. Loaded(d) = [since |-> hour, last |-> 0, told |-> FALSE, reminders |-> 0]
    BY <2>1, Zenon DEF NoAlert
  <2> QED
    <3>1. Loaded(d) \in Note /\ Loaded(d).since = hour /\ Loaded(d).last = 0 /\ Loaded(d).reminders = 0
      BY <1>1, <2>2 DEF Note
    <3>2. Loaded(d).told = FALSE
      BY <2>2
    <3> QED
      BY <1>2, <3>1, <3>2, QuietIs, Zenon
<1>3. CASE alerts[d] # NoAlert
  BY <1>1, <1>3 DEF Loaded
<1> QED
  BY <1>2, <1>3

LEMMA SentNoteIs ==
  ASSUME hour \in Int, NEW st \in Note, NEW ok \in BOOLEAN
  PROVE  LET n == SentNote(st, ok) IN
         /\ n \in Note /\ n.since = st.since /\ n.reminders = st.reminders /\ (n.told <=> st.told \/ ok)
         /\ n.last = IF ok THEN hour ELSE IF st.told THEN st.last ELSE 0
<1>1. st = [since |-> st.since, last |-> st.last, told |-> st.told, reminders |-> st.reminders]
      /\ st.since \in Int /\ st.last \in Int /\ st.told \in BOOLEAN /\ st.reminders \in Int
  BY DEF Note
<1>2. CASE ok
  <2>1. SentNote(st, ok) = [st EXCEPT !.last = hour, !.told = TRUE]
    BY <1>2, Zenon DEF SentNote
  <2>2. SentNote(st, ok) = [since |-> st.since, last |-> hour, told |-> TRUE, reminders |-> st.reminders]
    BY <1>1, <2>1, Zenon
  <2>3. SentNote(st, ok) \in Note /\ SentNote(st, ok).since = st.since /\ SentNote(st, ok).reminders = st.reminders
        /\ SentNote(st, ok).last = hour
    BY <1>1, <2>2 DEF Note
  <2>4. SentNote(st, ok).told
    BY <2>2
  <2> QED
    BY <1>2, <2>3, <2>4, Zenon
<1>3. CASE ~ok
  <2>1. SentNote(st, ok) = [st EXCEPT !.last = IF st.told THEN @ ELSE 0]
    BY <1>3, Zenon DEF SentNote
  <2>2. SentNote(st, ok) = [since |-> st.since, last |-> IF st.told THEN st.last ELSE 0, told |-> st.told, reminders |-> st.reminders]
    BY <1>1, <2>1, Zenon
  <2> QED
    BY <1>1, <1>3, <2>2 DEF Note
<1> QED
  BY <1>2, <1>3

\* An alert is told, or not: by its tier, by what its state file says, and by the time. What was told may go unnoted.
LEMMA AlertSendsIs ==
  ASSUME NotifyTypes, NEW d \in Dog, AlertSends(d)
  PROVE  /\ call[d].at = "act" /\ got \subseteq got'
         /\ outage' \in {outage, [outage EXCEPT ![d] = Append(@, hour)]}
         /\ \E q \in Call :
              /\ Takes(d, q) /\ q.at = "save"
              /\ q.st.since \in {hour, alerts[d].since} /\ q.st.last \in {hour, 0, alerts[d].last}
              /\ q.st.reminders \in {alerts[d].reminders, alerts[d].reminders + 1}
              /\ alerts[d].told => q.st.told
              /\ Tier[d] # "C" /\ q.st.told /\ outage' = outage => alerts[d].told
              /\ \/ unnoted' = unnoted \cup {d}
                 \/ /\ outage' = outage /\ unnoted' = unnoted
                    /\ Tier[d] # "C" => (q.st.told <=> alerts[d].told) /\ (q.st.told => q.st.last = alerts[d].last)
                 \/ /\ outage' = [outage EXCEPT ![d] = Append(@, hour)] /\ Tier[d] # "C" /\ unnoted' = unnoted
                    /\ q.st.told /\ q.st.last = hour
                    /\ ~alerts[d].told \/ (Tier[d] = "A" /\ hour - alerts[d].last >= Remind)
<1> DEFINE st == Loaded(d)
           again == DueAgain(d, st)
           next == IF again THEN [st EXCEPT !.reminders = @ + 1] ELSE st
           Told(s) == [[call[d] EXCEPT !.at = "save"] EXCEPT !.st = s]
           Added == [outage EXCEPT ![d] = Append(@, hour)]
<1>1. hour \in Int /\ alerts[d] \in Note
  BY NotifyNats DEF NotifyTypes
<1>2. /\ st \in Note /\ (st.since = hour \/ st.since = alerts[d].since) /\ st.last = alerts[d].last
      /\ st.told = alerts[d].told /\ st.reminders = alerts[d].reminders
  BY LoadedIs
<1>3. /\ call[d].at = "act"
      /\ \/ /\ Tier[d] = "C" /\ call' = [call EXCEPT ![d].at = "save", ![d].st = [st EXCEPT !.told = TRUE]]
            /\ UNCHANGED <<got, outage, unnoted>>
         \/ /\ st.told /\ ~again /\ Tier[d] # "C"
            /\ call' = [call EXCEPT ![d].at = "save", ![d].st = st] /\ UNCHANGED <<got, outage, unnoted>>
         \/ /\ ~st.told \/ again
            /\ Tier[d] # "C"
            /\ \E ok, late \in BOOLEAN :
                 /\ call' = [call EXCEPT ![d].at = "save", ![d].st = SentNote(next, ok)]
                 /\ IF ok \/ late THEN Delivered(d, Message(d, "fault")) ELSE UNCHANGED <<got, outage>>
                 /\ unnoted' = IF late THEN unnoted \cup {d} ELSE unnoted
  BY Zenon DEF AlertSends
<1>4. again <=> Tier[d] = "A" /\ st.told /\ hour - st.last >= Remind
  BY Zenon DEF DueAgain
<1> HIDE DEF st, again
<1>5. ASSUME NEW s \in Note PROVE Told(s) \in Call /\ Told(s).at = "save" /\ Told(s).st = s
  BY CallIs DEF Call, Stage
<1>6. ASSUME NEW s \in Note, call' = [call EXCEPT ![d].at = "save", ![d].st = s] PROVE Takes(d, Told(s))
  <2>1. [call EXCEPT ![d].at = "save", ![d].st = s] = [call EXCEPT ![d] = Told(s)]
    <3>1. call \in [Dog -> Call]
      BY DEF NotifyTypes
    <3> QED
      BY <3>1
  <2> HIDE DEF Told
  <2> QED
    BY <1>5, <1>6, <2>1, TakesIs
<1> HIDE DEF Told
<1>7. CASE Tier[d] = "C"
  <2> DEFINE s == [st EXCEPT !.told = TRUE]
  <2>1. s \in Note /\ s.since = st.since /\ s.last = st.last /\ s.reminders = st.reminders /\ s.told
    BY <1>2 DEF Note
  <2>2. call' = [call EXCEPT ![d].at = "save", ![d].st = s] /\ UNCHANGED <<got, outage, unnoted>>
    BY <1>3, <1>7, Zenon
  <2> HIDE DEF s
  <2>3. Takes(d, Told(s)) /\ Told(s) \in Call /\ Told(s).at = "save" /\ Told(s).st = s
    BY <1>5, <1>6, <2>1, <2>2
  <2> HIDE DEF Added
  <2> QED
    BY <1>2, <1>3, <1>7, <2>1, <2>2, <2>3 DEF Added
<1>8. CASE st.told /\ ~again /\ Tier[d] # "C"
  <2>1. call' = [call EXCEPT ![d].at = "save", ![d].st = st] /\ UNCHANGED <<got, outage, unnoted>>
    BY <1>3, <1>8, Zenon
  <2>2. Takes(d, Told(st)) /\ Told(st) \in Call /\ Told(st).at = "save" /\ Told(st).st = st
    BY <1>2, <1>5, <1>6, <2>1
  <2> QED
    BY <1>2, <1>3, <1>8, <2>1, <2>2
<1>9. CASE (~st.told \/ again) /\ Tier[d] # "C"
  <2>1. PICK ok \in BOOLEAN, late \in BOOLEAN :
           /\ call' = [call EXCEPT ![d].at = "save", ![d].st = SentNote(next, ok)]
           /\ IF ok \/ late THEN Delivered(d, Message(d, "fault")) ELSE UNCHANGED <<got, outage>>
           /\ unnoted' = IF late THEN unnoted \cup {d} ELSE unnoted
    BY <1>3, <1>9, Zenon
  <2>2. /\ next \in Note /\ next.since = st.since /\ next.last = st.last /\ next.told = st.told
        /\ next.reminders \in {st.reminders, st.reminders + 1}
    BY <1>2 DEF Note
  <2> HIDE DEF next
  <2> DEFINE s == SentNote(next, ok)
  <2>3. /\ s \in Note /\ s.since = st.since /\ s.reminders = next.reminders /\ (s.told <=> st.told \/ ok)
        /\ s.last = IF ok THEN hour ELSE IF st.told THEN st.last ELSE 0
    BY <1>1, <2>2, SentNoteIs
  <2>4. ok \/ late => got' = got \cup {Message(d, "fault")} /\ outage' = Added
    BY <2>1, Zenon DEF Delivered
  <2>5. ~ok /\ ~late => got' = got /\ outage' = outage
    BY <2>1
  <2>6. call' = [call EXCEPT ![d].at = "save", ![d].st = s]
    BY <2>1
  <2>7. late => unnoted' = unnoted \cup {d}
    BY <2>1
  <2>8. ~late => unnoted' = unnoted
    BY <2>1
  <2> HIDE DEF s
  <2>9. Takes(d, Told(s)) /\ Told(s) \in Call /\ Told(s).at = "save" /\ Told(s).st = s
    BY <1>5, <1>6, <2>3, <2>6
  <2> DEFINE q == Told(s)
  <2>10. /\ q \in Call /\ Takes(d, q) /\ q.at = "save"
         /\ q.st.since \in {hour, alerts[d].since} /\ q.st.last \in {hour, 0, alerts[d].last}
         /\ q.st.reminders \in {alerts[d].reminders, alerts[d].reminders + 1}
         /\ alerts[d].told => q.st.told
         /\ q.st.told <=> alerts[d].told \/ ok
    BY <1>2, <2>2, <2>3, <2>9
  <2>11. got \subseteq got' /\ outage' \in {outage, Added}
    BY <2>4, <2>5
  <2>12. outage # Added
    <3>1. outage \in [Dog -> Seq(Int)]
      BY DEF NotifyTypes
    <3>2. outage[d] # Append(outage[d], hour)
      <4>1. ASSUME NEW t \in Seq(Int) PROVE t # Append(t, hour)
        <5>1. Len(Append(t, hour)) = Len(t) + 1 /\ Len(t) \in Nat
          BY <1>1
        <5> QED
          BY <5>1
      <4> QED
        BY <3>1, <4>1
    <3> QED
      BY <3>1, <3>2
  <2>13. Tier[d] # "C" /\ q.st.told /\ outage' = outage => alerts[d].told
    BY <2>4, <2>10, <2>12
  <2>14. CASE late
    <3> HIDE DEF q, Added
    <3> QED
      BY <1>3, <2>7, <2>10, <2>11, <2>13, <2>14 DEF Added
  <2>15. CASE ok /\ ~late
    <3>1. outage' = Added /\ unnoted' = unnoted
      BY <2>4, <2>8, <2>15
    <3>2. q.st.told /\ q.st.last = hour
      BY <2>3, <2>9, <2>15
    <3>3. ~alerts[d].told \/ (Tier[d] = "A" /\ hour - alerts[d].last >= Remind)
      BY <1>2, <1>4, <1>9
    <3> HIDE DEF q, Added
    <3> QED
      BY <1>3, <1>9, <2>10, <2>11, <2>13, <3>1, <3>2, <3>3 DEF Added
  <2>16. CASE ~ok /\ ~late
    <3>1. outage' = outage /\ unnoted' = unnoted
      BY <2>5, <2>8, <2>16
    <3>2. (q.st.told <=> alerts[d].told) /\ (q.st.told => q.st.last = alerts[d].last)
      BY <1>2, <2>3, <2>9, <2>16
    <3> HIDE DEF q, Added
    <3> QED
      BY <1>3, <2>10, <2>11, <2>13, <3>1, <3>2 DEF Added
  <2> QED
    BY <2>14, <2>15, <2>16
<1> QED
  BY <1>3, <1>7, <1>8, <1>9

LEMMA SendsOnceIs ==
  ASSUME NotifyTypes, NEW d \in Dog, SendsOnce(d)
  PROVE  /\ call[d].at = "act" /\ got \subseteq got'
         /\ \E q \in Call :
              /\ Takes(d, q) /\ q.at \in {"remove", "done", "queue"}
              /\ q.at = "queue" => q.msg \in Msg
<1> DEFINE m == Message(d, call[d].op)
           q == [[call[d] EXCEPT !.at = "queue"] EXCEPT !.msg = m]
<1>1. call[d].at = "act" /\ call[d].op \in {"send", "clear"}
  BY Zenon DEF SendsOnce
<1>2. /\ got \subseteq got'
      /\ \/ Moves(d, IF call[d].op = "clear" THEN "remove" ELSE "done")
         \/ call' = [call EXCEPT ![d].at = "queue", ![d].msg = m]
  <2>1. PICK o \in Outcome :
           /\ got' = IF o.through THEN got \cup {m} ELSE got
           /\ IF o.ok THEN Moves(d, IF call[d].op = "clear" THEN "remove" ELSE "done")
              ELSE call' = [call EXCEPT ![d].at = "queue", ![d].msg = m]
    BY Zenon DEF SendsOnce
  <2> QED
    BY <2>1
<1>3. m \in Msg
  BY <1>1, NotifyNats DEF Message, Msg, NotifyTypes
<1> HIDE DEF m
<1>4. q \in Call /\ q.at = "queue" /\ q.msg = m
  BY <1>3, CallIs DEF Call, Stage
<1>5. [call EXCEPT ![d].at = "queue", ![d].msg = m] = [call EXCEPT ![d] = q]
  BY DEF NotifyTypes
<1> HIDE DEF q
<1>6. CASE call' = [call EXCEPT ![d].at = "queue", ![d].msg = m]
  <2>1. Takes(d, q)
    BY <1>4, <1>5, <1>6, TakesIs
  <2> QED
    BY <1>1, <1>2, <1>3, <1>4, <2>1
<1>7. CASE Moves(d, IF call[d].op = "clear" THEN "remove" ELSE "done")
  <2>1. CASE call[d].op = "clear"
    <3>1. Moves(d, "remove") /\ "remove" \in Stage
      BY <1>7, <2>1 DEF Stage
    <3> QED
      BY <1>1, <1>2, <3>1, MovesIs
  <2>2. CASE call[d].op # "clear"
    <3>1. Moves(d, "done") /\ "done" \in Stage
      BY <1>7, <2>2 DEF Stage
    <3> QED
      BY <1>1, <1>2, <3>1, MovesIs
  <2> QED
    BY <2>1, <2>2
<1> QED
  BY <1>2, <1>6, <1>7

LEMMA QueueIs ==
  ASSUME NotifyTypes, NEW d \in Dog, Queue(d)
  PROVE  /\ call[d].at = "queue"
         /\ \E q \in Call : Takes(d, q) /\ q.at \in {"remove", "done"}
<1>1. call[d].at = "queue" /\ Moves(d, IF call[d].op = "clear" THEN "remove" ELSE "done")
  BY Zenon DEF Queue
<1>2. CASE call[d].op = "clear"
  <2>1. Moves(d, "remove") /\ "remove" \in Stage
    BY <1>1, <1>2 DEF Stage
  <2> QED
    BY <1>1, <2>1, MovesIs
<1>3. CASE call[d].op # "clear"
  <2>1. Moves(d, "done") /\ "done" \in Stage
    BY <1>1, <1>3 DEF Stage
  <2> QED
    BY <1>1, <2>1, MovesIs
<1> QED
  BY <1>2, <1>3

\* The steps after which d has no call.
LEMMA OverIs ==
  ASSUME NotifyTypes, NEW d \in Dog,
         Saves(d) \/ ClearsQuietly(d) \/ Ends(d) \/ Dies(d) \/ (ReplaceBox(d) /\ boxTmp = NoBox)
  PROVE  Takes(d, Quiet)
<1>1. call' = [call EXCEPT ![d] = Quiet]
  BY Zenon DEF Saves, ClearsQuietly, Ends, Dies, ReplaceBox
<1> QED
  BY <1>1, QuietIs, TakesIs

-----------------------------------------------------------------------------
(* The steps by what they do to the call of d, to the notes and the boxes. *)

\* What a step leaves alone: the notes, the boxes, what is queued.
SameNotes == hour' = hour /\ runs' = runs /\ deaths' = deaths /\ alerts' = alerts /\ outage' = outage /\ unnoted' = unnoted
SameBoxes == outbox' = outbox /\ boxTmp' = boxTmp /\ into' = into
SameQueue == queued' = queued /\ crossing' = crossing /\ got \subseteq got' /\ expired \subseteq expired'

\* A run of d begins: it reads the outbox, if there is one, to flush it.
Begins(d, q) ==
  /\ call[d].at = "idle" /\ runs[d] < MaxRuns /\ runs' = [runs EXCEPT ![d] = @ + 1]
  /\ q.at = IF outbox = NoBox THEN "act" ELSE "flush"
  /\ q.todo = Lines /\ q.keep = <<>>
  /\ hour' = hour /\ deaths' = deaths /\ alerts' = alerts /\ outage' = outage /\ unnoted' = unnoted
  /\ SameBoxes /\ SameQueue

\* The first of the messages to send again is settled, or kept.
TriesOne(d, q) ==
  /\ call[d].at = "flush" /\ call[d].todo # <<>> /\ q.at = "flush" /\ q.todo = Tail(call[d].todo)
  /\ \/ q.keep = call[d].keep /\ (Head(call[d].todo).msg \in got' \/ Head(call[d].todo).msg \in expired')
     \/ q.keep = Append(call[d].keep, Head(call[d].todo))
  /\ SameNotes /\ SameBoxes /\ SameQueue

\* The temporary file is emptied: crossing becomes what waits, when another is rewriting the outbox.
Empties(d, q) ==
  /\ call[d].at = "flush" /\ call[d].todo = <<>> /\ q.at = "write" /\ q.todo = <<>> /\ q.keep = call[d].keep
  /\ outbox' = outbox /\ boxTmp' = <<>> /\ into' = [into EXCEPT ![d] = "tmp"]
  /\ queued' = queued /\ got' = got /\ expired' = expired /\ crossing \subseteq crossing'
  /\ (\E e \in Dog \ {d} : Rewriting(e)) => InBox \subseteq crossing'
  /\ SameNotes

\* What was kept is written to what the file is by now.
WritesRest(d, q) ==
  /\ call[d].at = "write" /\ q.at = "replace"
  /\ boxTmp' \in IF into[d] = "tmp" THEN Overwrites(boxTmp, call[d].keep) ELSE {boxTmp}
  /\ outbox' \in IF into[d] = "box" THEN Overwrites(Lines, call[d].keep) ELSE {outbox}
  /\ into' = [into EXCEPT ![d] = "none"]
  /\ SameNotes /\ SameQueue

\* The temporary file, whosever it is, replaces the outbox.
PutsInPlace(d, q) ==
  /\ call[d].at = "replace" /\ boxTmp # NoBox /\ q.at = "act"
  /\ outbox' = boxTmp /\ boxTmp' = NoBox /\ into' = [e \in Dog |-> Replaced[into[e]]]
  /\ SameNotes /\ SameQueue

\* An alert is told, which goes to the outage, or not; it is to be noted.
Tells(d, q) ==
  /\ call[d].at = "act" /\ q.at = "save"
  /\ q.st.since \in {hour, alerts[d].since} /\ q.st.last \in {hour, 0, alerts[d].last}
  /\ q.st.reminders \in {alerts[d].reminders, alerts[d].reminders + 1}
  /\ alerts[d].told => q.st.told
  /\ outage' \in {outage, [outage EXCEPT ![d] = Append(@, hour)]}
  /\ Tier[d] # "C" /\ q.st.told /\ outage' = outage => alerts[d].told
  /\ \/ unnoted' = unnoted \cup {d}
     \/ /\ outage' = outage /\ unnoted' = unnoted
        /\ Tier[d] # "C" => (q.st.told <=> alerts[d].told) /\ (q.st.told => q.st.last = alerts[d].last)
     \/ /\ outage' = [outage EXCEPT ![d] = Append(@, hour)] /\ Tier[d] # "C" /\ unnoted' = unnoted
        /\ q.st.told /\ q.st.last = hour
        /\ ~alerts[d].told \/ (Tier[d] = "A" /\ hour - alerts[d].last >= Remind)
  /\ hour' = hour /\ runs' = runs /\ deaths' = deaths /\ alerts' = alerts
  /\ SameBoxes /\ SameQueue

\* It is noted in the state file.
Notes(d, q) ==
  /\ call[d].at = "save" /\ q = Quiet
  /\ alerts' = [alerts EXCEPT ![d] = call[d].st]
  /\ hour' = hour /\ runs' = runs /\ deaths' = deaths /\ outage' = outage /\ unnoted' = unnoted
  /\ SameBoxes /\ SameQueue

\* The alert is over.
Closes(d, q) ==
  /\ call[d].at \in {"act", "remove"} /\ q = Quiet
  /\ alerts' = [alerts EXCEPT ![d] = NoAlert] /\ outage' = [outage EXCEPT ![d] = <<>>] /\ unnoted' = unnoted \ {d}
  /\ hour' = hour /\ runs' = runs /\ deaths' = deaths
  /\ SameBoxes /\ SameQueue

\* The run ends without a trace.
GoesQuietly(d, q) ==
  /\ call[d].at \in {"replace", "done"} /\ q = Quiet
  /\ SameNotes /\ SameBoxes /\ SameQueue

\* A recovery or an event is sent, or to be queued.
Reports(d, q) ==
  /\ call[d].at = "act" /\ q.at \in {"remove", "done", "queue"} /\ (q.at = "queue" => q.msg \in Msg)
  /\ SameNotes /\ SameBoxes /\ SameQueue

\* It is queued: crossing, when another is at the outbox.
Enqueues(d, q) ==
  /\ call[d].at = "queue" /\ q.at \in {"remove", "done"}
  /\ outbox' = Append(Lines, [msg |-> call[d].msg, at |-> hour]) /\ boxTmp' = boxTmp /\ into' = into
  /\ queued' = queued \cup {call[d].msg} /\ crossing \subseteq crossing'
  /\ (\E e \in Dog \ {d} : Flushing(e)) => call[d].msg \in crossing'
  /\ got' = got /\ expired' = expired
  /\ SameNotes

\* The run is killed.
IsKilled(d, q) ==
  /\ call[d].at # "idle" /\ q = Quiet
  /\ deaths < MaxDeaths /\ deaths' = deaths + 1
  /\ unnoted' = IF call[d].at \in {"save", "remove"} THEN unnoted \cup {d} ELSE unnoted
  /\ hour' = hour /\ runs' = runs /\ alerts' = alerts /\ outage' = outage
  /\ outbox' = outbox /\ boxTmp' = boxTmp /\ into' = [into EXCEPT ![d] = "none"] /\ SameQueue

\* The steps of the call of d.
OfCall(d, q) ==
  \/ Begins(d, q) \/ TriesOne(d, q) \/ Empties(d, q) \/ WritesRest(d, q) \/ PutsInPlace(d, q) \/ Tells(d, q) \/ Notes(d, q)
  \/ Closes(d, q) \/ GoesQuietly(d, q) \/ Reports(d, q) \/ Enqueues(d, q) \/ IsKilled(d, q)

\* Every step but the clock's is one of these.
LEMMA CallsMove ==
  ASSUME NotifyTypes, [NotifyNext]_notifyVars
  PROVE  \/ UNCHANGED notifyVars \/ HourPasses
         \/ \E d \in Dog, q \in Call : Takes(d, q) /\ OfCall(d, q)
<1>1. ASSUME NEW d \in Dog, NEW op \in {"alert", "clear", "send"}, Called(d, op)
      PROVE  \E q \in Call : Takes(d, q) /\ Begins(d, q)
  <2>1. PICK q \in Call : Takes(d, q) /\ q.at = (IF outbox = NoBox THEN "act" ELSE "flush") /\ q.todo = Lines /\ q.keep = <<>>
    BY <1>1, CalledIs
  <2>2. /\ call[d].at = "idle" /\ runs[d] < MaxRuns /\ runs' = [runs EXCEPT ![d] = @ + 1]
        /\ hour' = hour /\ deaths' = deaths /\ alerts' = alerts /\ outage' = outage /\ unnoted' = unnoted
        /\ SameBoxes /\ queued' = queued /\ crossing' = crossing /\ got' = got /\ expired' = expired
    BY <1>1, Zenon DEF Called, History, SameBoxes
  <2>3. SameQueue
    BY <2>2 DEF SameQueue
  <2> QED
    BY <2>1, <2>2, <2>3 DEF Begins
<1>2. ASSUME NEW d \in Dog, Resends(d) PROVE \E q \in Call : Takes(d, q) /\ TriesOne(d, q)
  <2>1. SameNotes /\ SameBoxes /\ queued' = queued /\ crossing' = crossing
    BY <1>2, Zenon DEF Resends, SameNotes, SameBoxes
  <2> DEFINE item == Head(call[d].todo)
  <2>2. call[d].at = "flush" /\ call[d].todo # <<>> /\ got \subseteq got' /\ expired \subseteq expired'
    BY <1>2, ResendsIs
  <2>3. PICK q \in Call :
           /\ Takes(d, q) /\ q.at = "flush" /\ q.op = call[d].op /\ q.todo = Tail(call[d].todo)
           /\ \/ q.keep = call[d].keep /\ (item.msg \in got' \/ item.msg \in expired')
              \/ q.keep = Append(call[d].keep, item)
    BY <1>2, ResendsIs
  <2> QED
    BY <2>1, <2>2, <2>3 DEF TriesOne, SameQueue
<1>13. ASSUME NEW d \in Dog, OpensBox(d) PROVE \E q \in Call : Takes(d, q) /\ Empties(d, q)
  <2>1. /\ call[d].at = "flush" /\ call[d].todo = <<>> /\ outbox' = outbox /\ boxTmp' = <<>> /\ SameNotes
        /\ into' = [into EXCEPT ![d] = "tmp"]
        /\ queued' = queued /\ got' = got /\ expired' = expired /\ Moves(d, "write")
        /\ crossing' = IF \E e \in Dog \ {d} : Rewriting(e) THEN crossing \cup InBox ELSE crossing
    BY <1>13, Zenon DEF OpensBox, SameNotes
  <2>2. crossing \subseteq crossing' /\ ((\E e \in Dog \ {d} : Rewriting(e)) => InBox \subseteq crossing')
    BY <2>1
  <2>3. PICK q \in Call : Takes(d, q) /\ q.at = "write" /\ q.todo = call[d].todo /\ q.keep = call[d].keep
    BY <2>1, MovesIs DEF Stage
  <2> QED
    BY <2>1, <2>2, <2>3 DEF Empties
<1>3. ASSUME NEW d \in Dog, WriteKeep(d) PROVE \E q \in Call : Takes(d, q) /\ WritesRest(d, q)
  <2>1. /\ call[d].at = "write" /\ SameNotes /\ into' = [into EXCEPT ![d] = "none"]
        /\ boxTmp' \in IF into[d] = "tmp" THEN Overwrites(boxTmp, call[d].keep) ELSE {boxTmp}
        /\ outbox' \in IF into[d] = "box" THEN Overwrites(Lines, call[d].keep) ELSE {outbox}
        /\ queued' = queued /\ crossing' = crossing /\ got' = got /\ expired' = expired /\ Moves(d, "replace")
    BY <1>3, Zenon DEF WriteKeep, History, SameNotes
  <2>2. PICK q \in Call : Takes(d, q) /\ q.at = "replace"
    BY <2>1, MovesIs DEF Stage
  <2> QED
    BY <2>1, <2>2 DEF WritesRest, SameQueue
<1>4. ASSUME NEW d \in Dog, ReplaceBox(d)
      PROVE  \E q \in Call : Takes(d, q) /\ (PutsInPlace(d, q) \/ GoesQuietly(d, q))
  <2>1. /\ call[d].at = "replace" /\ SameNotes
        /\ queued' = queued /\ crossing' = crossing /\ got' = got /\ expired' = expired
    BY <1>4, Zenon DEF ReplaceBox, History, SameNotes
  <2>2. SameQueue
    BY <2>1 DEF SameQueue
  <2>3. CASE boxTmp = NoBox
    <3>1. Takes(d, Quiet) /\ SameBoxes
      BY <1>4, <2>3, OverIs DEF ReplaceBox, SameBoxes
    <3> QED
      BY <2>1, <2>2, <3>1, QuietIs DEF GoesQuietly
  <2>4. CASE boxTmp # NoBox
    <3>1. outbox' = boxTmp /\ boxTmp' = NoBox /\ into' = [e \in Dog |-> Replaced[into[e]]] /\ Moves(d, "act")
      BY <1>4, <2>4, Zenon DEF ReplaceBox
    <3>2. PICK q \in Call : Takes(d, q) /\ q.at = "act"
      BY <3>1, MovesIs DEF Stage
    <3> QED
      BY <2>1, <2>2, <2>4, <3>1, <3>2 DEF PutsInPlace
  <2> QED
    BY <2>3, <2>4
<1>5. ASSUME NEW d \in Dog, AlertSends(d) PROVE \E q \in Call : Takes(d, q) /\ Tells(d, q)
  <2>1. /\ hour' = hour /\ runs' = runs /\ deaths' = deaths /\ alerts' = alerts
        /\ SameBoxes /\ queued' = queued /\ crossing' = crossing /\ expired' = expired
    BY <1>5, Zenon DEF AlertSends, SameBoxes
  <2>2. SameQueue
    BY <1>5, <2>1, AlertSendsIs DEF SameQueue
  <2> QED
    BY <1>5, <2>1, <2>2, AlertSendsIs DEF Tells
<1>6. ASSUME NEW d \in Dog, Saves(d) PROVE Takes(d, Quiet) /\ Notes(d, Quiet)
  <2>1. /\ call[d].at = "save" /\ alerts' = [alerts EXCEPT ![d] = call[d].st]
        /\ hour' = hour /\ runs' = runs /\ deaths' = deaths /\ outage' = outage /\ unnoted' = unnoted
        /\ SameBoxes /\ queued' = queued /\ crossing' = crossing /\ got' = got /\ expired' = expired
    BY <1>6, Zenon DEF Saves, SameBoxes, History
  <2> QED
    BY <1>6, <2>1, OverIs DEF Notes, SameQueue
<1>7. ASSUME NEW d \in Dog, ClearsQuietly(d) PROVE Takes(d, Quiet) /\ Closes(d, Quiet)
  <2>1. /\ call[d].at = "act" /\ alerts' = [alerts EXCEPT ![d] = NoAlert]
        /\ outage' = [outage EXCEPT ![d] = <<>>] /\ unnoted' = unnoted \ {d}
        /\ hour' = hour /\ runs' = runs /\ deaths' = deaths
        /\ SameBoxes /\ queued' = queued /\ crossing' = crossing /\ got' = got /\ expired' = expired
    BY <1>7, Zenon DEF ClearsQuietly, SameBoxes
  <2> QED
    BY <1>7, <2>1, OverIs DEF Closes, SameQueue
<1>8. ASSUME NEW d \in Dog, SendsOnce(d) PROVE \E q \in Call : Takes(d, q) /\ Reports(d, q)
  <2>1. SameNotes /\ SameBoxes /\ queued' = queued /\ crossing' = crossing /\ expired' = expired
    BY <1>8, Zenon DEF SendsOnce, SameNotes, SameBoxes
  <2>2. SameQueue
    BY <1>8, <2>1, SendsOnceIs DEF SameQueue
  <2> QED
    BY <1>8, <2>1, <2>2, SendsOnceIs DEF Reports
<1>9. ASSUME NEW d \in Dog, Queue(d) PROVE \E q \in Call : Takes(d, q) /\ Enqueues(d, q)
  <2>1. /\ outbox' = Append(Lines, [msg |-> call[d].msg, at |-> hour]) /\ boxTmp' = boxTmp /\ into' = into
        /\ queued' = queued \cup {call[d].msg} /\ got' = got /\ expired' = expired /\ SameNotes
        /\ crossing' = IF \E e \in Dog \ {d} : Flushing(e) THEN crossing \cup {call[d].msg} ELSE crossing
    BY <1>9, Zenon DEF Queue, SameNotes
  <2>2. /\ crossing \subseteq crossing'
        /\ (\E e \in Dog \ {d} : Flushing(e)) => call[d].msg \in crossing'
    BY <2>1
  <2> QED
    BY <1>9, <2>1, <2>2, QueueIs DEF Enqueues
<1>10. ASSUME NEW d \in Dog, Ends(d) PROVE Takes(d, Quiet) /\ (Closes(d, Quiet) \/ GoesQuietly(d, Quiet))
  <2>1. /\ call[d].at \in {"remove", "done"}
        /\ IF call[d].at = "remove"
           THEN /\ alerts' = [alerts EXCEPT ![d] = NoAlert]
                /\ outage' = [outage EXCEPT ![d] = <<>>] /\ unnoted' = unnoted \ {d}
           ELSE alerts' = alerts /\ outage' = outage /\ unnoted' = unnoted
        /\ hour' = hour /\ runs' = runs /\ deaths' = deaths
        /\ SameBoxes /\ queued' = queued /\ crossing' = crossing /\ got' = got /\ expired' = expired
    BY <1>10, Zenon DEF Ends, SameBoxes
  <2> QED
    BY <1>10, <2>1, OverIs DEF Closes, GoesQuietly, SameNotes, SameQueue
<1>11. ASSUME NEW d \in Dog, Dies(d) PROVE Takes(d, Quiet) /\ IsKilled(d, Quiet)
  <2>1. /\ call[d].at # "idle" /\ deaths < MaxDeaths /\ deaths' = deaths + 1
        /\ unnoted' = (IF call[d].at \in {"save", "remove"} THEN unnoted \cup {d} ELSE unnoted)
        /\ hour' = hour /\ runs' = runs /\ alerts' = alerts /\ outage' = outage
        /\ outbox' = outbox /\ boxTmp' = boxTmp /\ into' = [into EXCEPT ![d] = "none"] /\ queued' = queued /\ crossing' = crossing /\ got' = got /\ expired' = expired
    BY <1>11, Zenon DEF Dies
  <2> QED
    BY <1>11, <2>1, OverIs DEF IsKilled, SameQueue
<1>12. ASSUME NEW d \in Dog, NEW q \in Call, Takes(d, q),
              \/ Begins(d, q) \/ TriesOne(d, q) \/ Empties(d, q) \/ WritesRest(d, q) \/ PutsInPlace(d, q) \/ Tells(d, q) \/ Notes(d, q)
              \/ Closes(d, q) \/ GoesQuietly(d, q) \/ Reports(d, q) \/ Enqueues(d, q) \/ IsKilled(d, q)
       PROVE  \E e \in Dog, p \in Call : Takes(e, p) /\ OfCall(e, p)
  BY <1>12, Zenon DEF OfCall
<1> QED
  BY <1>1, <1>2, <1>3, <1>4, <1>5, <1>6, <1>7, <1>8, <1>9, <1>10, <1>11, <1>12, <1>13, NotifyMoves, QuietIs, Zenon

-----------------------------------------------------------------------------
(* The inductive invariant, conjunct by conjunct.                          *)

LEMMA NotifyStarts == NotifyInit => NotifyInv
<1> SUFFICES ASSUME NotifyInit PROVE NotifyInv
  OBVIOUS
<1>1. /\ hour = 0 /\ outbox = NoBox /\ boxTmp = NoBox /\ alerts = [d \in Dog |-> NoAlert] /\ call = [d \in Dog |-> Quiet]
      /\ runs = [d \in Dog |-> 0] /\ deaths = 0 /\ queued = {} /\ outage = [d \in Dog |-> <<>>] /\ unnoted = {}
      /\ into = [d \in Dog |-> "none"]
  BY Zenon DEF NotifyInit
<1>2. Lines = <<>>
  BY <1>1 DEF Lines
<1>3. NotifyTypes
  BY <1>1, NotifyNats, QuietIs DEF NotifyTypes, Handle
<1>4. \A d \in Dog : call[d].at = "idle" /\ alerts[d] = NoAlert /\ outage[d] = <<>> /\ runs[d] = 0
  BY <1>1, QuietIs
<1>5. NotesInTime
  BY <1>1, <1>4, QuietIs DEF NotesInTime
<1>7. BoxesQueued
  BY <1>1, <1>2, <1>4 DEF BoxesQueued, MadeOf
<1>8. CopiesKeep
  BY <1>1 DEF CopiesKeep
<1>9. NotesFit
  BY <1>1, <1>4, QuietIs DEF NotesFit, Fits, Spaced
<1>10. ToldFits
  BY <1>4, QuietIs DEF ToldFits
<1> QED
  BY <1>3, <1>5, <1>7, <1>8, <1>9, <1>10 DEF NotifyInv

\* MadeOf each step: whose it is and what becomes of that call.
LEMMA OthersStay ==
  ASSUME NotifyTypes, NEW d \in Dog, NEW q \in Call, Takes(d, q), OfCall(d, q)
  PROVE  /\ \A e \in Dog : call'[e] = (IF e = d THEN q ELSE call[e])
         /\ hour' = hour
         /\ \A e \in Dog \ {d} : alerts'[e] = alerts[e] /\ runs'[e] = runs[e] /\ outage'[e] = outage[e] /\ (e \in unnoted' <=> e \in unnoted)
         /\ q.at = "idle" => q = Quiet
<1>1. \A e \in Dog : call'[e] = (IF e = d THEN q ELSE call[e])
  BY DEF Takes
<1>2. hour' = hour
  BY DEF OfCall, Begins, TriesOne, Empties, WritesRest, PutsInPlace, Tells, Notes, Closes, GoesQuietly, Reports, Enqueues, IsKilled, SameNotes
<1>3. ASSUME NEW e \in Dog \ {d}
      PROVE  alerts'[e] = alerts[e] /\ runs'[e] = runs[e] /\ outage'[e] = outage[e] /\ (e \in unnoted' <=> e \in unnoted)
  BY DEF NotifyTypes, OfCall, Begins, TriesOne, Empties, WritesRest, PutsInPlace, Tells, Notes, Closes, GoesQuietly, Reports, Enqueues,
         IsKilled, SameNotes
<1>4. q.at = "idle" => q = Quiet
  BY DEF OfCall, Begins, TriesOne, Empties, WritesRest, PutsInPlace, Tells, Notes, Closes, GoesQuietly, Reports, Enqueues, IsKilled
<1> QED
  BY <1>1, <1>2, <1>3, <1>4

\* Lines written over a file are its own, or were in it; all that is in an empty one.
LEMMA OverwritesIs ==
  ASSUME NEW old \in Seq(Item), NEW keep \in Seq(Item), NEW box \in Overwrites(old, keep)
  PROVE  /\ box \in Seq(Item)
         /\ \A m : Holds(box, m) => Holds(old, m) \/ Holds(keep, m)
         /\ old = <<>> => box = keep
<1> DEFINE Both(rest) ==
      /\ keep \o rest \in Seq(Item)
      /\ \A m : Holds(keep \o rest, m) => Holds(rest, m) \/ Holds(keep, m)
<1>1. ASSUME NEW rest \in Seq(Item) PROVE Both(rest)
  <2> DEFINE all == keep \o rest
  <2>1. /\ all \in Seq(Item) /\ Len(keep) \in Nat /\ Len(rest) \in Nat /\ DOMAIN all = 1..(Len(keep) + Len(rest))
        /\ DOMAIN keep = 1..Len(keep) /\ DOMAIN rest = 1..Len(rest)
        /\ \A i \in 1..(Len(keep) + Len(rest)) :
             IF i <= Len(keep) THEN all[i] = keep[i] ELSE all[i] = rest[i - Len(keep)]
    BY <1>1
  <2> HIDE DEF all
  <2>2. ASSUME NEW m, Holds(all, m) PROVE Holds(rest, m) \/ Holds(keep, m)
    <3>1. PICK i \in DOMAIN all : all[i].msg = m
      BY <2>2 DEF Holds
    <3>2. CASE i <= Len(keep)
      <4>1. i \in DOMAIN keep /\ keep[i].msg = m
        BY <2>1, <3>1, <3>2
      <4> QED
        BY <4>1 DEF Holds
    <3>3. CASE ~(i <= Len(keep))
      <4>1. i - Len(keep) \in DOMAIN rest /\ rest[i - Len(keep)].msg = m
        BY <2>1, <3>1, <3>3
      <4> QED
        BY <4>1 DEF Holds
    <3> QED
      BY <3>2, <3>3
  <2> QED
    BY <2>1, <2>2 DEF all
<1> HIDE DEF Both
<1>2. CASE keep = <<>> \/ old = <<>>
  <2>1. box = keep \o old
    BY <1>2 DEF Overwrites
  <2>2. old = <<>> => box = keep
    BY <2>1
  <2>3. Both(old)
    BY <1>1
  <2> QED
    BY <2>1, <2>2, <2>3 DEF Both
<1>3. CASE keep # <<>> /\ old # <<>>
  <2>1. PICK k \in 1..Len(old) : box = keep \o SubSeq(old, k + 1, Len(old))
    BY <1>3 DEF Overwrites
  <2> DEFINE rest == SubSeq(old, k + 1, Len(old))
  <2>2. /\ rest \in Seq(Item) /\ DOMAIN rest = 1..(Len(old) - k) /\ DOMAIN old = 1..Len(old)
        /\ \A i \in 1..(Len(old) - k) : rest[i] = old[k + i] /\ k + i \in DOMAIN old
    BY <2>1
  <2> HIDE DEF rest
  <2>3. \A m : Holds(rest, m) => Holds(old, m)
    BY <2>2 DEF Holds
  <2>4. Both(rest)
    BY <1>1, <2>2
  <2>5. box = keep \o rest
    BY <2>1 DEF rest
  <2> QED
    BY <1>3, <2>3, <2>4, <2>5 DEF Both
<1> QED
  BY <1>2, <1>3

\* Only who is about to write has a file open; the temporary one is there while it is open.
LEMMA HandlesStay ==
  ASSUME NotifyTypes, NEW d \in Dog, NEW q \in Call, Takes(d, q), OfCall(d, q)
  PROVE  /\ into' \in [Dog -> Handle]
         /\ \A e \in Dog : /\ into'[e] # "none" => call'[e].at = "write"
                           /\ into'[e] = "tmp" => boxTmp' # NoBox
<1>1. /\ into \in [Dog -> Handle] /\ \A e \in Dog : call'[e] = (IF e = d THEN q ELSE call[e])
      /\ \A e \in Dog : into[e] # "none" => call[e].at = "write"
      /\ \A e \in Dog : into[e] = "tmp" => boxTmp # NoBox
  BY OthersStay DEF NotifyTypes
<1>2. CASE Empties(d, q)
  <2>1. into' = [into EXCEPT ![d] = "tmp"] /\ q.at = "write" /\ boxTmp' # NoBox
    BY <1>2, NoBoxIs DEF Empties
  <2> QED
    BY <1>1, <2>1 DEF Handle
<1>3. CASE WritesRest(d, q)
  <2>1. into' = [into EXCEPT ![d] = "none"]
    BY <1>3 DEF WritesRest
  <2>2. boxTmp # NoBox => boxTmp' # NoBox
    <3>1. CASE into[d] = "tmp"
      <4>1. boxTmp \in Seq(Item)
        BY <1>1, <3>1 DEF NotifyTypes
      <4> QED
        BY <1>3, <3>1, <4>1, CallIs, OverwritesIs, NoBoxIs DEF WritesRest
    <3>2. CASE into[d] # "tmp"
      BY <1>3, <3>2 DEF WritesRest
    <3> QED
      BY <3>1, <3>2
  <2> QED
    BY <1>1, <2>1, <2>2 DEF Handle
<1>4. CASE PutsInPlace(d, q)
  <2>1. into' = [e \in Dog |-> Replaced[into[e]]] /\ call[d].at = "replace"
    BY <1>4 DEF PutsInPlace
  <2>2. \A h \in Handle : Replaced[h] \in Handle \ {"tmp"} /\ (Replaced[h] = "none" <=> h = "none")
    BY DEF Handle, Replaced
  <2> QED
    BY <1>1, <2>1, <2>2
<1>5. CASE IsKilled(d, q)
  <2>1. into' = [into EXCEPT ![d] = "none"] /\ boxTmp' = boxTmp
    BY <1>5 DEF IsKilled
  <2> QED
    BY <1>1, <2>1 DEF Handle
<1>6. CASE ~Empties(d, q) /\ ~WritesRest(d, q) /\ ~PutsInPlace(d, q) /\ ~IsKilled(d, q)
  <2>1. into' = into /\ boxTmp' = boxTmp /\ call[d].at # "write"
    BY <1>6 DEF OfCall, Begins, TriesOne, Tells, Notes, Closes, GoesQuietly, Reports, Enqueues, SameBoxes
  <2> QED
    BY <1>1, <2>1
<1> QED
  BY <1>2, <1>3, <1>4, <1>5, <1>6

LEMMA NotifyTypesStay == NotifyTypes /\ [NotifyNext]_notifyVars => NotifyTypes'
<1> SUFFICES ASSUME NotifyTypes, [NotifyNext]_notifyVars PROVE NotifyTypes'
  OBVIOUS
<1>1. CASE UNCHANGED notifyVars
  BY <1>1 DEF notifyVars, NotifyTypes
<1>2. CASE HourPasses
  <2>1. /\ hour < LastHour /\ hour' = hour + 1 /\ outbox' = outbox /\ boxTmp' = boxTmp /\ alerts' = alerts /\ call' = call
        /\ runs' = runs /\ deaths' = deaths /\ queued' = queued /\ outage' = outage /\ unnoted' = unnoted /\ into' = into
    BY <1>2, Zenon DEF HourPasses, History
  <2> QED
    BY <2>1, NotifyNats DEF NotifyTypes
<1>3. ASSUME NEW d \in Dog, NEW q \in Call, Takes(d, q), OfCall(d, q) PROVE NotifyTypes'
  <2>1. call' \in [Dog -> Call] /\ \A e \in Dog : call'[e].at = "idle" => call'[e] = Quiet
    BY <1>3, OthersStay DEF Takes, NotifyTypes
  <2>2. hour' \in 0..LastHour
    BY <1>3, OthersStay DEF NotifyTypes
  <2>3. runs' \in [Dog -> 0..MaxRuns] /\ deaths' \in 0..MaxDeaths
    <3>1. runs \in [Dog -> 0..MaxRuns] /\ deaths \in 0..MaxDeaths
      BY DEF NotifyTypes
    <3>2. runs' = runs \/ (runs[d] < MaxRuns /\ runs' = [runs EXCEPT ![d] = @ + 1])
      BY <1>3 DEF OfCall, Begins, TriesOne, Empties, WritesRest, PutsInPlace, Tells, Notes, Closes, GoesQuietly, Reports, Enqueues,
         IsKilled, SameNotes
    <3>3. deaths' = deaths \/ (deaths < MaxDeaths /\ deaths' = deaths + 1)
      BY <1>3 DEF OfCall, Begins, TriesOne, Empties, WritesRest, PutsInPlace, Tells, Notes, Closes, GoesQuietly, Reports, Enqueues,
         IsKilled, SameNotes
    <3>4. runs' \in [Dog -> 0..MaxRuns]
      BY <3>1, <3>2, NotifyNats
    <3> QED
      BY <3>1, <3>3, <3>4, NotifyNats
  <2>4. alerts' \in [Dog -> Note] /\ unnoted' \subseteq Dog
    BY <1>3, CallIs, QuietIs, Zenon DEF NotifyTypes, OfCall, Begins, TriesOne, Empties, WritesRest, PutsInPlace, Tells, Notes, Closes, GoesQuietly,
       Reports, Enqueues, IsKilled, SameNotes
  <2>5. outage' \in [Dog -> Seq(Int)]
    <3>1. outage' \in {outage, [outage EXCEPT ![d] = Append(@, hour)], [outage EXCEPT ![d] = <<>>]}
      BY <1>3 DEF OfCall, Begins, TriesOne, Empties, WritesRest, PutsInPlace, Tells, Notes, Closes, GoesQuietly,
         Reports, Enqueues, IsKilled, SameNotes
    <3>2. outage \in [Dog -> Seq(Int)] /\ hour \in Int
      BY NotifyNats DEF NotifyTypes
    <3>3. Append(outage[d], hour) \in Seq(Int) /\ <<>> \in Seq(Int)
      BY <3>2
    <3> QED
      BY <3>1, <3>2, <3>3
  <2>7. call'[d].at = "queue" => call'[d].msg \in Msg
    <3>1. call'[d] = q
      BY <1>3 DEF Takes
    <3>2. q.at = "queue" => q.msg \in Msg
      BY <1>3, QuietIs DEF OfCall, Begins, TriesOne, Empties, WritesRest, PutsInPlace, Tells, Notes, Closes, GoesQuietly, Reports,
         Enqueues, IsKilled
    <3> QED
      BY <3>1, <3>2
  <2>6. /\ outbox' \in Seq(Item) \cup {NoBox} /\ boxTmp' \in Seq(Item) \cup {NoBox}
        /\ queued' \subseteq Msg
    <3>1. outbox \in Seq(Item) \cup {NoBox} /\ boxTmp \in Seq(Item) \cup {NoBox} /\ queued \subseteq Msg
      BY DEF NotifyTypes
    <3>2. CASE Enqueues(d, q)
      <4>1. call[d].msg \in Msg
        BY <3>2 DEF Enqueues, NotifyTypes
      <4>2. [msg |-> call[d].msg, at |-> hour] \in Item
        BY <4>1, NotifyNats DEF Item, NotifyTypes
      <4>3. Append(Lines, [msg |-> call[d].msg, at |-> hour]) \in Seq(Item)
        BY <4>2, LinesAre
      <4> QED
        BY <3>1, <3>2, <4>1, <4>3 DEF Enqueues
    <3>4. CASE WritesRest(d, q)
      <4>1. boxTmp' \in Seq(Item) \cup {NoBox}
        <5>1. CASE into[d] = "tmp"
          <6>1. boxTmp \in Seq(Item)
            BY <3>1, <5>1 DEF NotifyTypes
          <6> QED
            BY <3>4, <5>1, <6>1, CallIs, OverwritesIs DEF WritesRest
        <5>2. CASE into[d] # "tmp"
          BY <3>1, <3>4, <5>2 DEF WritesRest
        <5> QED
          BY <5>1, <5>2
      <4>2. outbox' \in Seq(Item) \cup {NoBox}
        <5>1. CASE into[d] = "box"
          BY <3>4, <5>1, CallIs, LinesAre, OverwritesIs DEF WritesRest
        <5>2. CASE into[d] # "box"
          BY <3>1, <3>4, <5>2 DEF WritesRest
        <5> QED
          BY <5>1, <5>2
      <4> QED
        BY <3>1, <3>4, <4>1, <4>2 DEF WritesRest, SameQueue
    <3>3. CASE ~Enqueues(d, q) /\ ~WritesRest(d, q)
      <4>1. queued' = queued
        BY <1>3, <3>3 DEF OfCall, Begins, TriesOne, Empties, PutsInPlace, Tells, Notes, Closes, GoesQuietly,
           Reports, IsKilled, SameQueue
      <4>2. outbox' \in {outbox, boxTmp}
        BY <1>3, <3>3 DEF OfCall, Begins, TriesOne, Empties, PutsInPlace, Tells, Notes, Closes, GoesQuietly,
           Reports, IsKilled, SameBoxes
      <4>3. boxTmp' \in {boxTmp, NoBox, <<>>}
        BY <1>3, <3>3 DEF OfCall, Begins, TriesOne, Empties, PutsInPlace, Tells, Notes, Closes, GoesQuietly,
           Reports, IsKilled, SameBoxes
      <4>4. <<>> \in Seq(Item)
        OBVIOUS
      <4> QED
        BY <3>1, <4>1, <4>2, <4>3, <4>4
    <3> QED
      BY <3>2, <3>3, <3>4
  <2>8. /\ into' \in [Dog -> Handle]
        /\ \A e \in Dog : /\ into'[e] # "none" => call'[e].at = "write"
                          /\ into'[e] = "tmp" => boxTmp' # NoBox
    BY <1>3, HandlesStay
  <2>9. \A e \in Dog : call'[e].at = "queue" => call'[e].msg \in Msg
    <3>1. ASSUME NEW e \in Dog \ {d}, call'[e].at = "queue" PROVE call'[e].msg \in Msg
      BY <1>3, <3>1 DEF Takes, NotifyTypes
    <3> QED
      BY <2>7, <3>1
  <2> QED
    BY <2>1, <2>2, <2>3, <2>4, <2>5, <2>6, <2>8, <2>9 DEF NotifyTypes
<1> QED
  BY <1>1, <1>2, <1>3, CallsMove

LEMMA NotesInTimeStay == NotifyTypes /\ NotesInTime /\ [NotifyNext]_notifyVars => NotesInTime'
<1> SUFFICES ASSUME NotifyTypes, NotesInTime, [NotifyNext]_notifyVars PROVE NotesInTime'
  OBVIOUS
<1>1. CASE UNCHANGED notifyVars
  BY <1>1 DEF notifyVars, NotesInTime
<1>2. CASE HourPasses
  <2>1. hour' = hour + 1 /\ alerts' = alerts /\ call' = call /\ runs' = runs
    BY <1>2, Zenon DEF HourPasses
  <2>2. hour \in Nat
    BY NotifyNats DEF NotifyTypes
  <2> QED
    BY <2>1, <2>2 DEF NotesInTime
<1>3. ASSUME NEW d \in Dog, NEW q \in Call, Takes(d, q), OfCall(d, q) PROVE NotesInTime'
  <2>1. /\ \A e \in Dog : call'[e] = (IF e = d THEN q ELSE call[e])
        /\ hour' = hour
        /\ \A e \in Dog \ {d} : alerts'[e] = alerts[e] /\ runs'[e] = runs[e]
    BY <1>3, OthersStay
  <2>2. ASSUME NEW e \in Dog \ {d}
        PROVE  /\ alerts'[e].since \in -1..hour' /\ alerts'[e].last \in 0..hour' /\ alerts'[e].reminders <= runs'[e]
               /\ call'[e].at = "save" => /\ call'[e].st.since \in -1..hour' /\ call'[e].st.last \in 0..hour'
                                          /\ call'[e].st.reminders <= runs'[e] /\ (alerts'[e].told => call'[e].st.told)
               /\ call'[e].at \in {"flush", "write", "replace", "act"} => alerts'[e].reminders < runs'[e]
    BY <2>1 DEF NotesInTime
  <2>3. /\ hour \in Nat /\ runs[d] \in Nat /\ alerts[d] \in Note /\ runs \in [Dog -> 0..MaxRuns] /\ alerts \in [Dog -> Note]
    BY NotifyNats DEF NotifyTypes
  <2>4. /\ alerts[d].since \in -1..hour /\ alerts[d].last \in 0..hour /\ alerts[d].reminders <= runs[d] /\ alerts[d].reminders \in Nat
        /\ call[d].at = "save" => /\ call[d].st.since \in -1..hour /\ call[d].st.last \in 0..hour
                                  /\ call[d].st.reminders <= runs[d]
        /\ call[d].at \in {"flush", "write", "replace", "act"} => alerts[d].reminders < runs[d]
    BY <2>3 DEF NotesInTime, Note
  <2> DEFINE Here ==
        /\ alerts'[d].since \in -1..hour /\ alerts'[d].last \in 0..hour /\ alerts'[d].reminders <= runs'[d]
        /\ q.at = "save" => /\ q.st.since \in -1..hour /\ q.st.last \in 0..hour
                            /\ q.st.reminders <= runs'[d] /\ (alerts'[d].told => q.st.told)
        /\ q.at \in {"flush", "write", "replace", "act"} => alerts'[d].reminders < runs'[d]
  <2>5. ASSUME Begins(d, q) PROVE Here
    BY <2>3, <2>4, <2>5 DEF Begins
  <2>6. ASSUME TriesOne(d, q) \/ Empties(d, q) \/ WritesRest(d, q) \/ PutsInPlace(d, q) \/ GoesQuietly(d, q) \/ Reports(d, q) \/ Enqueues(d, q) \/ IsKilled(d, q) PROVE Here
    BY <2>3, <2>4, <2>6, QuietIs DEF TriesOne, Empties, WritesRest, PutsInPlace, GoesQuietly, Reports, Enqueues, IsKilled, SameNotes
  <2>7. ASSUME Tells(d, q) PROVE Here
    <3>1. /\ alerts' = alerts /\ runs' = runs /\ call[d].at = "act" /\ q.at = "save" /\ (alerts[d].told => q.st.told)
          /\ q.st.since \in {hour, alerts[d].since} /\ q.st.last \in {hour, 0, alerts[d].last}
          /\ q.st.reminders \in {alerts[d].reminders, alerts[d].reminders + 1}
      BY <2>7, Zenon DEF Tells
    <3>2. q.st.reminders <= runs[d]
      BY <2>3, <2>4, <3>1
    <3>3. q.st.since \in -1..hour /\ q.st.last \in 0..hour
      BY <2>3, <2>4, <3>1
    <3>4. alerts'[d].since \in -1..hour /\ alerts'[d].last \in 0..hour /\ alerts'[d].reminders <= runs'[d]
      BY <2>4, <3>1
    <3> QED
      BY <3>1, <3>2, <3>3, <3>4
  <2>8. ASSUME Notes(d, q) PROVE Here
    BY <2>3, <2>4, <2>8, QuietIs DEF Notes
  <2>9. ASSUME Closes(d, q) PROVE Here
    BY <2>3, <2>4, <2>9, QuietIs DEF Closes
  <2>10. Here
    BY <1>3, <2>5, <2>6, <2>7, <2>8, <2>9 DEF OfCall
  <2> QED
    BY <2>1, <2>2, <2>10 DEF NotesInTime
<1> QED
  BY <1>1, <1>2, <1>3, CallsMove

\* A box without its first message, and with one more.
LEMMA FirstAndRest ==
  ASSUME NEW s, NEW some, MadeOf(s, some), s # <<>>
  PROVE  /\ MadeOf(Tail(s), some) /\ Head(s) \in Item /\ Head(s).msg \in some
         /\ \A m : Holds(s, m) => m = Head(s).msg \/ Holds(Tail(s), m)
<1>1. s \in Seq(Item) /\ Len(s) \in Nat /\ Len(s) > 0 /\ DOMAIN s = 1..Len(s) /\ Head(s) = s[1] /\ 1 \in DOMAIN s
  BY DEF MadeOf
<1>2. /\ Tail(s) \in Seq(Item) /\ DOMAIN Tail(s) = 1..(Len(s) - 1)
      /\ \A i \in 1..(Len(s) - 1) : Tail(s)[i] = s[i + 1] /\ i + 1 \in DOMAIN s
  BY <1>1
<1>3. Head(s) \in Item /\ Head(s).msg \in some
  BY <1>1 DEF MadeOf
<1>4. MadeOf(Tail(s), some)
  BY <1>1, <1>2 DEF MadeOf
<1>7. ASSUME NEW m, Holds(s, m) PROVE m = Head(s).msg \/ Holds(Tail(s), m)
  <2>1. PICK i \in DOMAIN s : s[i].msg = m
    BY <1>7 DEF Holds
  <2>2. CASE i = 1
    BY <1>1, <2>1, <2>2
  <2>3. CASE i # 1
    <3>1. i - 1 \in 1..(Len(s) - 1) /\ s[i] = Tail(s)[i - 1]
      BY <1>1, <1>2, <2>1, <2>3
    <3> QED
      BY <1>2, <2>1, <3>1 DEF Holds
  <2> QED
    BY <2>2, <2>3
<1> QED
  BY <1>3, <1>4, <1>7

LEMMA OneMoreItem ==
  ASSUME NEW s, NEW some, NEW x \in Item, MadeOf(s, some), x.msg \in some
  PROVE  /\ MadeOf(Append(s, x), some)
         /\ \A m : Holds(Append(s, x), m) <=> Holds(s, m) \/ m = x.msg
<1> DEFINE t == Append(s, x)
<1>1. s \in Seq(Item) /\ Len(s) \in Nat /\ DOMAIN s = 1..Len(s)
  BY DEF MadeOf
<1>2. /\ t \in Seq(Item) /\ DOMAIN t = 1..(Len(s) + 1) /\ t[Len(s) + 1] = x
      /\ \A i \in 1..Len(s) : t[i] = s[i]
  BY <1>1
<1> HIDE DEF t
<1>3. MadeOf(t, some)
  BY <1>1, <1>2 DEF MadeOf
<1>4. ASSUME NEW m PROVE Holds(t, m) <=> Holds(s, m) \/ m = x.msg
  BY <1>1, <1>2 DEF Holds
<1> QED
  BY <1>3, <1>4 DEF t

LEMMA OfMore ==
  ASSUME NEW s, NEW some, NEW more, some \subseteq more, MadeOf(s, some)
  PROVE  MadeOf(s, more)
  BY DEF MadeOf

LEMMA OverwritesOf ==
  ASSUME NEW old, NEW keep, NEW some, MadeOf(old, some), MadeOf(keep, some), NEW box \in Overwrites(old, keep)
  PROVE  MadeOf(box, some)
<1>1. old \in Seq(Item) /\ keep \in Seq(Item)
  BY DEF MadeOf
<1>2. box \in Seq(Item) /\ \A m : Holds(box, m) => Holds(old, m) \/ Holds(keep, m)
  BY <1>1, OverwritesIs
<1> QED
  BY <1>2 DEF MadeOf, Holds

LEMMA LinesFollow ==
  /\ outbox' = outbox => Lines' = Lines
  /\ \A s \in Seq(Item) : outbox' = s => Lines' = s
<1>1. outbox' = outbox => Lines' = Lines
  BY DEF Lines
<1>2. ASSUME NEW s \in Seq(Item), outbox' = s PROVE Lines' = s
  BY <1>2, NoBoxIs DEF Lines
<1> QED
  BY <1>1, <1>2

LEMMA BoxesStay == NotifyTypes /\ BoxesQueued /\ [NotifyNext]_notifyVars => BoxesQueued'
<1> SUFFICES ASSUME NotifyTypes, BoxesQueued, [NotifyNext]_notifyVars PROVE BoxesQueued'
  OBVIOUS
<1>1. CASE UNCHANGED notifyVars \/ HourPasses
  <2>1. outbox' = outbox /\ boxTmp' = boxTmp /\ call' = call /\ queued' = queued
    BY <1>1, Zenon DEF notifyVars, HourPasses, History
  <2>2. Lines' = Lines
    BY <2>1 DEF Lines
  <2> QED
    BY <2>1, <2>2 DEF BoxesQueued
<1>2. ASSUME NEW d \in Dog, NEW q \in Call, Takes(d, q), OfCall(d, q) PROVE BoxesQueued'
  <2>1. \A e \in Dog : call'[e] = (IF e = d THEN q ELSE call[e])
    BY <1>2, OthersStay
  <2>2. /\ MadeOf(Lines, queued) /\ (boxTmp # NoBox => MadeOf(boxTmp, queued))
        /\ \A e \in Dog : call[e].at \in {"flush", "write"} => MadeOf(call[e].todo, queued) /\ MadeOf(call[e].keep, queued)
    BY Zenon DEF BoxesQueued
  <2>3. queued \subseteq queued'
    BY <1>2 DEF OfCall, Begins, TriesOne, Empties, WritesRest, PutsInPlace, Tells, Notes, Closes, GoesQuietly, Reports, Enqueues,
       IsKilled, SameQueue
  <2>4. MadeOf(<<>>, queued')
    BY DEF MadeOf
  <2>5. MadeOf(Lines', queued')
    <3>1. CASE Enqueues(d, q)
      <4> DEFINE x == [msg |-> call[d].msg, at |-> hour]
      <4>1. call[d].msg \in Msg /\ call[d].msg \in queued'
        BY <3>1 DEF Enqueues, NotifyTypes
      <4>2. x \in Item /\ x.msg = call[d].msg
        BY <4>1, NotifyNats DEF Item, NotifyTypes
      <4>3. outbox' = Append(Lines, x)
        BY <3>1, Zenon DEF Enqueues
      <4> HIDE DEF x
      <4>5. MadeOf(Lines, queued')
        BY <2>2, <2>3, OfMore
      <4>6. MadeOf(Append(Lines, x), queued')
        BY <4>1, <4>2, <4>5, OneMoreItem
      <4>7. Append(Lines, x) \in Seq(Item)
        BY <4>6 DEF MadeOf
      <4> QED
        BY <4>3, <4>6, <4>7, LinesFollow
    <3>2. CASE PutsInPlace(d, q)
      <4>1. MadeOf(boxTmp, queued) /\ outbox' = boxTmp
        BY <2>2, <3>2 DEF PutsInPlace
      <4>2. boxTmp \in Seq(Item)
        BY <4>1 DEF MadeOf
      <4> QED
        BY <2>3, <4>1, <4>2, LinesFollow, OfMore
    <3>3. CASE WritesRest(d, q) /\ into[d] = "box"
      <4>1. outbox' \in Overwrites(Lines, call[d].keep) /\ MadeOf(call[d].keep, queued)
        BY <2>2, <3>3 DEF WritesRest
      <4>2. MadeOf(outbox', queued)
        BY <2>2, <4>1, OverwritesOf
      <4>3. outbox' \in Seq(Item)
        BY <4>2 DEF MadeOf
      <4> QED
        BY <2>3, <4>2, <4>3, LinesFollow, OfMore
    <3>4. CASE ~Enqueues(d, q) /\ ~PutsInPlace(d, q) /\ ~(WritesRest(d, q) /\ into[d] = "box")
      <4>1. outbox' = outbox
        BY <1>2, <3>4 DEF OfCall, Begins, TriesOne, Empties, WritesRest, Tells, Notes, Closes, GoesQuietly, Reports, IsKilled, SameBoxes
      <4> QED
        BY <2>2, <2>3, <4>1, LinesFollow, OfMore
    <3> QED
      BY <3>1, <3>2, <3>3, <3>4
  <2>6. boxTmp' # NoBox => MadeOf(boxTmp', queued')
    <3>1. CASE WritesRest(d, q) /\ into[d] = "tmp"
      <4>1. boxTmp' \in Overwrites(boxTmp, call[d].keep) /\ MadeOf(call[d].keep, queued)
        BY <2>2, <3>1 DEF WritesRest
      <4>2. MadeOf(boxTmp, queued)
        BY <2>2, <3>1 DEF NotifyTypes
      <4> QED
        BY <2>3, <4>1, <4>2, OverwritesOf, OfMore
    <3>2. CASE ~(WritesRest(d, q) /\ into[d] = "tmp")
      <4>1. boxTmp' = boxTmp \/ boxTmp' = NoBox \/ boxTmp' = <<>>
        BY <1>2, <3>2 DEF OfCall, Begins, TriesOne, Empties, WritesRest, PutsInPlace, Tells, Notes, Closes, GoesQuietly, Reports,
           Enqueues, IsKilled, SameBoxes
      <4> QED
        BY <2>2, <2>3, <2>4, <4>1, OfMore
    <3> QED
      BY <3>1, <3>2
  <2>7. q.at \in {"flush", "write"} => MadeOf(q.todo, queued') /\ MadeOf(q.keep, queued')
    <3>1. CASE Begins(d, q)
      <4>1. q.todo = Lines /\ q.keep = <<>>
        BY <3>1 DEF Begins
      <4> QED
        BY <2>2, <2>3, <2>4, <4>1, OfMore
    <3>2. CASE TriesOne(d, q)
      <4> DEFINE ahead == call[d].todo
                 keep == call[d].keep
      <4>1. MadeOf(ahead, queued) /\ ahead # <<>> /\ MadeOf(keep, queued)
        BY <2>2, <3>2 DEF TriesOne
      <4>2. q.todo = Tail(ahead) /\ (q.keep = keep \/ q.keep = Append(keep, Head(ahead)))
        BY <3>2 DEF TriesOne
      <4> HIDE DEF ahead, keep
      <4>3. MadeOf(Tail(ahead), queued) /\ Head(ahead) \in Item /\ Head(ahead).msg \in queued
        BY <4>1, FirstAndRest
      <4>4. MadeOf(Append(keep, Head(ahead)), queued)
        BY <4>1, <4>3, OneMoreItem
      <4>5. MadeOf(q.keep, queued) /\ MadeOf(q.todo, queued)
        BY <4>1, <4>2, <4>3, <4>4
      <4> QED
        BY <2>3, <4>5, OfMore
    <3>3. CASE Empties(d, q)
      <4>1. q.todo = <<>> /\ q.keep = call[d].keep /\ MadeOf(call[d].keep, queued)
        BY <2>2, <3>3 DEF Empties
      <4> QED
        BY <2>3, <2>4, <4>1, OfMore
    <3>4. CASE ~Begins(d, q) /\ ~TriesOne(d, q) /\ ~Empties(d, q)
      BY <1>2, <3>4, QuietIs DEF OfCall, WritesRest, PutsInPlace, Tells, Notes, Closes, GoesQuietly, Reports, Enqueues, IsKilled
    <3> QED
      BY <3>1, <3>2, <3>3, <3>4
  <2>8. ASSUME NEW e \in Dog, call'[e].at \in {"flush", "write"}
        PROVE  MadeOf(call'[e].todo, queued') /\ MadeOf(call'[e].keep, queued')
    <3>1. CASE e = d
      BY <2>1, <2>7, <2>8, <3>1, Zenon
    <3>2. CASE e # d
      <4>1. call'[e] = call[e]
        BY <2>1, <3>2
      <4> QED
        BY <2>2, <2>3, <2>8, <4>1, OfMore
    <3> QED
      BY <3>1, <3>2
  <2> QED
    BY <2>5, <2>6, <2>8, Zenon DEF BoxesQueued
<1> QED
  BY <1>1, <1>2, CallsMove

\* A waiting message is settled or goes on waiting: unless it is, or becomes, a crossing one.
LEMMA WaitsOn ==
  ASSUME NotifyTypes, BoxesQueued, NEW d \in Dog, NEW q \in Call, Takes(d, q), OfCall(d, q), NEW m \in queued,
         m \notin crossing', ~Settled(m)', Waits(m)
  PROVE  Waits(m)'
<1>1. \A e \in Dog : call'[e] = (IF e = d THEN q ELSE call[e])
  BY OthersStay
<1>2. /\ Holds(Lines, m)
      /\ \A e \in Dog : /\ call[e].at = "flush" => Holds(call[e].todo, m) \/ Holds(call[e].keep, m)
                        /\ call[e].at = "write" => Holds(call[e].keep, m) /\ into[e] = "tmp" /\ boxTmp = <<>>
                        /\ call[e].at = "replace" /\ boxTmp # NoBox => Holds(boxTmp, m)
      /\ \A e, f \in Dog : Rewriting(e) /\ Rewriting(f) => e = f
  BY Zenon DEF Waits
<1>3. m \in InBox
  BY <1>2 DEF Holds, InBox
<1>4. /\ outbox \in Seq(Item) \cup {NoBox} /\ boxTmp \in Seq(Item) \cup {NoBox} /\ into \in [Dog -> Handle]
      /\ <<>> # NoBox /\ Lines \in Seq(Item) /\ call[d].keep \in Seq(Item) /\ ~Holds(<<>>, m)
  BY NoBoxIs, LinesAre, CallIs DEF NotifyTypes, Holds
<1> DEFINE Same(c, h, b) == /\ c.at = "flush" => Holds(c.todo, m) \/ Holds(c.keep, m)
                            /\ c.at = "write" => Holds(c.keep, m) /\ h = "tmp" /\ b = <<>>
                            /\ c.at = "replace" /\ b # NoBox => Holds(b, m)
<1>5. CASE Empties(d, q)
  <2>1. /\ outbox' = outbox /\ boxTmp' = <<>> /\ into' = [into EXCEPT ![d] = "tmp"] /\ q.at = "write" /\ q.keep = call[d].keep
        /\ call[d].at = "flush" /\ call[d].todo = <<>>
        /\ (\E e \in Dog \ {d} : Rewriting(e)) => InBox \subseteq crossing'
    BY <1>5 DEF Empties
  <2>2. \A e \in Dog \ {d} : ~Rewriting(e)
    BY <1>3, <2>1
  <2>3. Holds(call[d].keep, m)
    BY <1>2, <1>4, <2>1
  <2>4. Holds(Lines, m)'
    BY <1>2, <2>1, LinesFollow DEF Holds
  <2>5. ASSUME NEW e \in Dog PROVE Same(call'[e], into'[e], boxTmp')
    BY <1>1, <1>2, <1>4, <2>1, <2>2, <2>3 DEF Rewriting
  <2>6. \A e, f \in Dog : Rewriting(e)' /\ Rewriting(f)' => e = f
    BY <1>1, <2>2 DEF Rewriting
  <2> QED
    BY <2>4, <2>5, <2>6 DEF Waits, Holds
<1>6. CASE WritesRest(d, q)
  <2>1. call[d].at = "write" /\ q.at = "replace" /\ into[d] = "tmp" /\ boxTmp = <<>> /\ Holds(call[d].keep, m) /\ Rewriting(d)
    BY <1>2, <1>6 DEF WritesRest, Rewriting
  <2>2. boxTmp' \in Overwrites(<<>>, call[d].keep) /\ outbox' = outbox /\ into' = [into EXCEPT ![d] = "none"]
    BY <1>6, <2>1 DEF WritesRest
  <2>3. boxTmp' = call[d].keep
    <3>1. <<>> \in Seq(Item)
      OBVIOUS
    <3> QED
      BY <1>4, <2>2, <3>1, OverwritesIs
  <2>4. Holds(Lines, m)'
    BY <1>2, <2>2, LinesFollow DEF Holds
  <2>5. \A e \in Dog \ {d} : ~Rewriting(e)
    BY <1>2, <2>1
  <2>6. ASSUME NEW e \in Dog PROVE Same(call'[e], into'[e], boxTmp')
    BY <1>1, <1>2, <2>1, <2>3, <2>5 DEF Rewriting
  <2>7. \A e, f \in Dog : Rewriting(e)' /\ Rewriting(f)' => e = f
    BY <1>1, <2>5 DEF Rewriting
  <2> QED
    BY <2>4, <2>6, <2>7 DEF Waits, Holds
<1>7. CASE PutsInPlace(d, q)
  <2>1. outbox' = boxTmp /\ boxTmp # NoBox /\ boxTmp' = NoBox /\ call[d].at = "replace" /\ q.at = "act" /\ Rewriting(d)
    BY <1>7 DEF PutsInPlace, Rewriting
  <2>2. \A e \in Dog \ {d} : ~Rewriting(e)
    BY <1>2, <2>1
  <2>3. Holds(Lines, m)'
    <3>1. Lines' = boxTmp /\ Holds(boxTmp, m)
      BY <1>2, <1>4, <2>1, LinesFollow
    <3> QED
      BY <3>1 DEF Holds
  <2>4. ASSUME NEW e \in Dog PROVE Same(call'[e], into'[e], boxTmp')
    BY <1>1, <1>2, <2>1, <2>2 DEF Rewriting
  <2>5. \A e, f \in Dog : Rewriting(e)' /\ Rewriting(f)' => e = f
    BY <1>1, <2>1, <2>2 DEF Rewriting
  <2> QED
    BY <2>3, <2>4, <2>5 DEF Waits, Holds
<1>8. CASE Enqueues(d, q)
  <2> DEFINE x == [msg |-> call[d].msg, at |-> hour]
  <2>1. /\ outbox' = Append(Lines, x) /\ boxTmp' = boxTmp /\ into' = into /\ q.at \in {"remove", "done"}
        /\ call[d].msg \in Msg
    BY <1>8 DEF Enqueues, NotifyTypes
  <2>2. x \in Item /\ x.msg \in Msg
    BY <2>1, NotifyNats DEF Item, NotifyTypes
  <2> HIDE DEF x
  <2>3. MadeOf(Lines, Msg)
    BY OfMore DEF BoxesQueued, NotifyTypes
  <2>4. Append(Lines, x) \in Seq(Item) /\ Holds(Append(Lines, x), m)
    BY <1>2, <2>2, <2>3, OneMoreItem DEF MadeOf
  <2>5. Holds(Lines, m)'
    <3>1. Lines' = Append(Lines, x)
      BY <2>1, <2>4, LinesFollow
    <3> QED
      BY <2>4, <3>1 DEF Holds
  <2>6. ASSUME NEW e \in Dog PROVE Same(call'[e], into'[e], boxTmp')
    BY <1>1, <1>2, <2>1
  <2>7. \A e, f \in Dog : Rewriting(e)' /\ Rewriting(f)' => e = f
    BY <1>1, <1>2, <2>1 DEF Rewriting
  <2> QED
    BY <2>5, <2>6, <2>7 DEF Waits, Holds
<1>9. CASE ~Empties(d, q) /\ ~WritesRest(d, q) /\ ~PutsInPlace(d, q) /\ ~Enqueues(d, q)
  <2>1. outbox' = outbox /\ boxTmp' = boxTmp /\ (\A e \in Dog \ {d} : into'[e] = into[e]) /\ q.at \notin {"write", "replace"}
    BY <1>4, <1>9, QuietIs DEF OfCall, Begins, TriesOne, Tells, Notes, Closes, GoesQuietly, Reports, IsKilled, SameBoxes
  <2>2. Holds(Lines, m)'
    BY <1>2, <2>1, LinesFollow DEF Holds
  <2>3. q.at = "flush" => Holds(q.todo, m) \/ Holds(q.keep, m)
    <3>1. CASE Begins(d, q)
      BY <1>2, <3>1 DEF Begins
    <3>2. CASE TriesOne(d, q)
      <4> DEFINE ahead == call[d].todo
                 keep == call[d].keep
                 item == Head(ahead)
      <4>1. MadeOf(ahead, queued) /\ ahead # <<>> /\ MadeOf(keep, queued)
        BY <3>2 DEF BoxesQueued, TriesOne
      <4>2. /\ q.todo = Tail(ahead)
            /\ (q.keep = keep /\ (item.msg \in got' \/ item.msg \in expired')) \/ q.keep = Append(keep, item)
        BY <3>2 DEF TriesOne
      <4>3. Holds(ahead, m) \/ Holds(keep, m)
        BY <1>2, <3>2 DEF TriesOne
      <4> HIDE DEF ahead, keep
      <4>4. /\ item \in Item /\ item.msg \in queued
            /\ \A n : Holds(ahead, n) => n = item.msg \/ Holds(Tail(ahead), n)
        BY <4>1, FirstAndRest
      <4>5. \A n : Holds(Append(keep, item), n) <=> Holds(keep, n) \/ n = item.msg
        BY <4>1, <4>4, OneMoreItem
      <4>6. m \notin got' /\ m \notin expired'
        BY DEF Settled
      <4> HIDE DEF item
      <4> QED
        BY <4>2, <4>3, <4>4, <4>5, <4>6
    <3>3. CASE ~Begins(d, q) /\ ~TriesOne(d, q)
      BY <1>9, <3>3, QuietIs DEF OfCall, Tells, Notes, Closes, GoesQuietly, Reports, IsKilled
    <3> QED
      BY <3>1, <3>2, <3>3
  <2>4. ASSUME NEW e \in Dog PROVE Same(call'[e], into'[e], boxTmp')
    <3>1. CASE e = d
      BY <1>1, <2>1, <2>3, <3>1
    <3>2. CASE e # d
      BY <1>1, <1>2, <2>1, <3>2
    <3> QED
      BY <3>1, <3>2
  <2>5. \A e, f \in Dog : Rewriting(e)' /\ Rewriting(f)' => e = f
    BY <1>1, <1>2, <2>1 DEF Rewriting
  <2> QED
    BY <2>2, <2>4, <2>5 DEF Waits, Holds
<1> QED
  BY <1>5, <1>6, <1>7, <1>8, <1>9

LEMMA NoneIsLost == NotifyTypes /\ BoxesQueued /\ CopiesKeep /\ [NotifyNext]_notifyVars => CopiesKeep'
<1> SUFFICES ASSUME NotifyTypes, BoxesQueued, CopiesKeep, [NotifyNext]_notifyVars PROVE CopiesKeep'
  OBVIOUS
<1>1. CASE UNCHANGED notifyVars \/ HourPasses
  <2>1. /\ outbox' = outbox /\ boxTmp' = boxTmp /\ call' = call /\ queued' = queued /\ crossing' = crossing
        /\ got' = got /\ expired' = expired /\ into' = into
    BY <1>1, Zenon DEF notifyVars, HourPasses, History
  <2>2. Lines' = Lines
    BY <2>1 DEF Lines
  <2> QED
    BY <2>1, <2>2 DEF CopiesKeep, Waits, Settled, Rewriting
<1>2. ASSUME NEW d \in Dog, NEW q \in Call, Takes(d, q), OfCall(d, q), NEW m \in queued' \ crossing', ~Settled(m)'
      PROVE  Waits(m)'
  <2>1. \A e \in Dog : call'[e] = (IF e = d THEN q ELSE call[e])
    BY <1>2, OthersStay
  <2>2. crossing \subseteq crossing' /\ (Settled(m) => Settled(m)')
    BY <1>2 DEF OfCall, Begins, TriesOne, Empties, WritesRest, PutsInPlace, Tells, Notes, Closes, GoesQuietly, Reports, Enqueues,
       IsKilled, SameQueue, Settled
  <2>3. CASE m \in queued
    <3>1. Waits(m)
      BY <1>2, <2>2, <2>3 DEF CopiesKeep
    <3> QED
      BY <1>2, <2>3, <3>1, WaitsOn
  <2>4. CASE m \notin queued
    <3> DEFINE x == [msg |-> call[d].msg, at |-> hour]
    <3>1. Enqueues(d, q)
      BY <1>2, <2>4 DEF OfCall, Begins, TriesOne, Empties, WritesRest, PutsInPlace, Tells, Notes, Closes, GoesQuietly, Reports,
         IsKilled, SameQueue
    <3>2. /\ m = call[d].msg /\ outbox' = Append(Lines, x) /\ q.at \in {"remove", "done"} /\ m \in Msg
          /\ \A e \in Dog \ {d} : ~Flushing(e)
      BY <1>2, <2>4, <3>1 DEF Enqueues, NotifyTypes
    <3>3. x \in Item /\ x.msg = m
      BY <3>2, NotifyNats DEF Item, NotifyTypes
    <3> HIDE DEF x
    <3>4. MadeOf(Lines, Msg)
      BY OfMore DEF BoxesQueued, NotifyTypes
    <3>5. Append(Lines, x) \in Seq(Item) /\ Holds(Append(Lines, x), m)
      <4>1. x.msg \in Msg
        BY <3>2, <3>3
      <4>2. MadeOf(Append(Lines, x), Msg) /\ \A n : Holds(Append(Lines, x), n) <=> Holds(Lines, n) \/ n = x.msg
        BY <3>3, <3>4, <4>1, OneMoreItem
      <4> QED
        BY <3>3, <4>2 DEF MadeOf
    <3>6. Holds(Lines, m)'
      <4>1. Lines' = Append(Lines, x)
        BY <3>2, <3>5, LinesFollow
      <4> QED
        BY <3>5, <4>1 DEF Holds
    <3>7. \A e \in Dog : call'[e].at \notin {"flush", "write", "replace"}
      BY <2>1, <3>2 DEF Flushing, Rewriting
    <3> QED
      BY <3>6, <3>7 DEF Waits, Rewriting
  <2> QED
    BY <2>3, <2>4
<1>3. ASSUME NEW d \in Dog, NEW q \in Call, Takes(d, q), OfCall(d, q) PROVE CopiesKeep'
  BY <1>2, <1>3 DEF CopiesKeep
<1> QED
  BY <1>1, <1>3, CallsMove

\* What is noted or about to be noted of the alert of d.
Noted(d) == IF call[d].at = "save" THEN call[d].st ELSE alerts[d]

LEMMA NotesStayFit == NotifyTypes /\ NotesFit /\ [NotifyNext]_notifyVars => NotesFit'
<1> SUFFICES ASSUME NotifyTypes, NotesFit, [NotifyNext]_notifyVars PROVE NotesFit'
  OBVIOUS
<1>1. CASE UNCHANGED notifyVars \/ HourPasses
  <2>1. alerts' = alerts /\ call' = call /\ outage' = outage /\ unnoted' = unnoted
    BY <1>1, Zenon DEF notifyVars, HourPasses, History
  <2> QED
    BY <2>1 DEF NotesFit
<1>2. ASSUME NEW d \in Dog, NEW q \in Call, Takes(d, q), OfCall(d, q) PROVE NotesFit'
  <2>1. /\ \A e \in Dog : call'[e] = (IF e = d THEN q ELSE call[e])
        /\ \A e \in Dog \ {d} : alerts'[e] = alerts[e] /\ outage'[e] = outage[e] /\ (e \in unnoted' <=> e \in unnoted)
    BY <1>2, OthersStay
  <2>2. \A e \in Dog \ unnoted : Fits(Tier[e], Noted(e), outage[e])
    BY Zenon DEF NotesFit, Noted
  <2>3. /\ hour \in Int /\ alerts[d] \in Note /\ alerts \in [Dog -> Note] /\ outage \in [Dog -> Seq(Int)]
        /\ call[d].st \in Note
    BY CallIs, NotifyNats DEF NotifyTypes
  <2> DEFINE Now == IF q.at = "save" THEN q.st ELSE alerts'[d]
  <2>4. ASSUME d \notin unnoted' PROVE Fits(Tier[d], Now, outage'[d])
    <3>1. CASE Tells(d, q)
      <4>1. d \notin unnoted /\ call[d].at = "act" /\ q.at = "save" /\ unnoted' # unnoted \cup {d}
        BY <2>4, <3>1 DEF Tells
      <4>2. Fits(Tier[d], alerts[d], outage[d]) /\ Now = q.st
        BY <2>2, <4>1 DEF Noted
      <4>3. CASE outage' = outage /\ (Tier[d] # "C" => (q.st.told <=> alerts[d].told) /\ (q.st.told => q.st.last = alerts[d].last))
        BY <4>2, <4>3 DEF Fits
      <4>4. CASE /\ outage' = [outage EXCEPT ![d] = Append(@, hour)] /\ Tier[d] # "C"
                 /\ q.st.told /\ q.st.last = hour
                 /\ ~alerts[d].told \/ (Tier[d] = "A" /\ hour - alerts[d].last >= Remind)
        <5> DEFINE t == outage[d]
                   u == Append(t, hour)
        <5>1. outage'[d] = u /\ t \in Seq(Int)
          BY <2>3, <4>4
        <5>2. Len(u) = Len(t) + 1 /\ u[Len(u)] = hour /\ u # <<>> /\ Len(t) \in Nat /\ \A i \in 1..Len(t) : u[i] = t[i]
          <6> HIDE DEF t
          <6>1. u = Append(t, hour) /\ t \in Seq(Int) /\ hour \in Int
            BY <2>3, <5>1
          <6> HIDE DEF u
          <6>2. Len(u) = Len(t) + 1 /\ Len(t) \in Nat
            BY <6>1
          <6>3. u[Len(t) + 1] = hour /\ \A i \in 1..Len(t) : u[i] = t[i]
            BY <6>1
          <6> QED
            BY <6>2, <6>3
        <5>3. alerts[d].told <=> t # <<>>
          BY <4>2, <4>4 DEF Fits
        <5>4. CASE Tier[d] = "A"
          <6>1. Spaced(t) /\ (t # <<>> => t[Len(t)] <= alerts[d].last)
            BY <4>2, <5>4 DEF Fits
          <6>2. t # <<>> => t[Len(t)] + Remind <= hour
            <7>1. t[Len(t)] \in Int \/ t = <<>>
              BY <5>1
            <7>2. alerts[d].last \in Int
              BY <2>3 DEF Note
            <7> QED
              BY <2>3, <4>4, <5>3, <6>1, <7>1, <7>2, NotifyNats
          <6> HIDE DEF u
          <6>3. ASSUME NEW i \in 1..Len(u) - 1 PROVE u[i + 1] - u[i] >= Remind
            <7>1. CASE i < Len(t)
              BY <5>2, <6>1, <7>1 DEF Spaced
            <7>2. CASE i = Len(t)
              <8>1. t # <<>> /\ t[i] \in Int
                BY <5>1, <5>2, <7>2
              <8> QED
                BY <2>3, <5>2, <6>2, <7>2, <8>1, NotifyNats
            <7> QED
              BY <5>2, <7>1, <7>2
          <6>4. Spaced(u)
            BY <6>3 DEF Spaced
          <6>5. u[Len(u)] <= q.st.last
            BY <2>3, <4>4, <5>2
          <6> QED
            BY <4>2, <4>4, <5>1, <5>2, <5>4, <6>4, <6>5, Zenon DEF Fits
        <5>5. CASE Tier[d] # "A"
          <6>1. Len(u) <= 1
            BY <4>4, <5>1, <5>2, <5>3, <5>5
          <6> HIDE DEF u
          <6> QED
            BY <4>2, <4>4, <5>1, <5>2, <5>5, <6>1, Zenon DEF Fits
        <5> QED
          BY <5>4, <5>5
      <4> QED
        BY <3>1, <4>1, <4>3, <4>4 DEF Tells
    <3>2. CASE Notes(d, q)
      BY <2>2, <2>3, <2>4, <3>2, QuietIs DEF Notes, Noted
    <3>3. CASE Closes(d, q)
      <4>1. alerts'[d] = NoAlert /\ outage'[d] = <<>> /\ q.at # "save"
        BY <2>3, <3>3, QuietIs DEF Closes
      <4> QED
        BY <4>1, QuietIs DEF Fits, Spaced
    <3>4. CASE IsKilled(d, q)
      BY <2>2, <2>4, <3>4, QuietIs DEF IsKilled, Noted
    <3>5. CASE ~Tells(d, q) /\ ~Notes(d, q) /\ ~Closes(d, q) /\ ~IsKilled(d, q)
      <4>1. call[d].at # "save" /\ q.at # "save" /\ alerts' = alerts /\ outage' = outage /\ unnoted' = unnoted
        BY <1>2, <3>5, QuietIs DEF OfCall, Begins, TriesOne, Empties, WritesRest, PutsInPlace, GoesQuietly, Reports, Enqueues, SameNotes
      <4> QED
        BY <2>2, <2>4, <4>1 DEF Noted
    <3> QED
      BY <3>1, <3>2, <3>3, <3>4, <3>5
  <2>5. ASSUME NEW e \in Dog, e \notin unnoted'
        PROVE  Fits(Tier[e], IF call'[e].at = "save" THEN call'[e].st ELSE alerts'[e], outage'[e])
    <3>1. CASE e = d
      BY <2>1, <2>4, <2>5, <3>1, Zenon
    <3>2. CASE e # d
      BY <2>1, <2>2, <2>5, <3>2 DEF Noted
    <3> QED
      BY <3>1, <3>2
  <2> QED
    BY <2>5, Zenon DEF NotesFit
<1> QED
  BY <1>1, <1>2, CallsMove

LEMMA ToldStaysFit == NotifyTypes /\ ToldFits /\ [NotifyNext]_notifyVars => ToldFits'
<1> SUFFICES ASSUME NotifyTypes, ToldFits, [NotifyNext]_notifyVars PROVE ToldFits'
  OBVIOUS
<1>1. CASE UNCHANGED notifyVars \/ HourPasses
  <2>1. alerts' = alerts /\ call' = call /\ outage' = outage
    BY <1>1, Zenon DEF notifyVars, HourPasses, History
  <2> QED
    BY <2>1 DEF ToldFits
<1>2. ASSUME NEW d \in Dog, NEW q \in Call, Takes(d, q), OfCall(d, q) PROVE ToldFits'
  <2>1. /\ \A e \in Dog : call'[e] = (IF e = d THEN q ELSE call[e])
        /\ \A e \in Dog \ {d} : alerts'[e] = alerts[e] /\ outage'[e] = outage[e]
    BY <1>2, OthersStay
  <2>2. /\ hour \in Int /\ alerts \in [Dog -> Note] /\ outage \in [Dog -> Seq(Int)]
    BY NotifyNats DEF NotifyTypes
  <2>3. Tier[d] # "C" => /\ alerts[d].told => outage[d] # <<>>
                         /\ call[d].at = "save" /\ call[d].st.told => outage[d] # <<>>
    BY DEF ToldFits
  <2> DEFINE Here == Tier[d] # "C" => /\ alerts'[d].told => outage'[d] # <<>>
                                      /\ q.at = "save" /\ q.st.told => outage'[d] # <<>>
  <2>4. ASSUME Tells(d, q) PROVE Here
    <3>1. /\ alerts' = alerts /\ outage' \in {outage, [outage EXCEPT ![d] = Append(@, hour)]}
          /\ Tier[d] # "C" /\ q.st.told /\ outage' = outage => alerts[d].told
      BY <2>4, Zenon DEF Tells
    <3>2. Append(outage[d], hour) # <<>>
      <4>1. ASSUME NEW t \in Seq(Int) PROVE Append(t, hour) # <<>>
        <5>1. Len(Append(t, hour)) = Len(t) + 1 /\ Len(t) \in Nat /\ Len(<<>>) = 0
          BY <2>2
        <5> QED
          BY <5>1
      <4> QED
        BY <2>2, <4>1
    <3>3. outage' = outage \/ outage'[d] # <<>>
      BY <2>2, <3>1, <3>2
    <3> QED
      BY <2>3, <3>1, <3>3
  <2>5. ASSUME Notes(d, q) PROVE Here
    <3>1. alerts'[d] = call[d].st /\ outage' = outage /\ q.at # "save" /\ call[d].at = "save"
      BY <2>2, <2>5, QuietIs DEF Notes
    <3> QED
      BY <2>3, <3>1
  <2>6. ASSUME Closes(d, q) PROVE Here
    <3>1. alerts'[d] = NoAlert /\ q.at # "save"
      BY <2>2, <2>6, QuietIs DEF Closes
    <3> QED
      BY <3>1, QuietIs
  <2>7. ASSUME ~Tells(d, q), ~Notes(d, q), ~Closes(d, q) PROVE Here
    <3>1. q.at # "save" /\ alerts' = alerts /\ outage' = outage
      BY <1>2, <2>7, QuietIs DEF OfCall, Begins, TriesOne, Empties, WritesRest, PutsInPlace, GoesQuietly, Reports, Enqueues,
         IsKilled, SameNotes
    <3> QED
      BY <2>3, <3>1
  <2>8. Here
    BY <2>4, <2>5, <2>6, <2>7
  <2>9. ASSUME NEW e \in Dog, e # d
        PROVE  Tier[e] # "C" => /\ alerts'[e].told => outage'[e] # <<>>
                                /\ call'[e].at = "save" /\ call'[e].st.told => outage'[e] # <<>>
    BY <2>1, <2>9 DEF ToldFits
  <2> QED
    BY <2>1, <2>8, <2>9 DEF ToldFits
<1> QED
  BY <1>1, <1>2, CallsMove

LEMMA NotifyStays == NotifyInv /\ [NotifyNext]_notifyVars => NotifyInv'
  BY NotifyTypesStay, NotesInTimeStay, BoxesStay, NoneIsLost, NotesStayFit, ToldStaysFit DEF NotifyInv

LEMMA NotifyInvIsEnough == NotifyInv => NotifySafe
<1> SUFFICES ASSUME NotifyInv PROVE NotifySafe
  OBVIOUS
<1>1. NotifyTypes /\ NotesInTime /\ BoxesQueued /\ CopiesKeep /\ NotesFit /\ ToldFits
  BY DEF NotifyInv
<1>2. MadeOf(Lines, queued)
  BY <1>1 DEF BoxesQueued
<1>3. \A m : m \in InBox <=> Holds(Lines, m)
  BY Zenon DEF InBox, Holds
<1>4. InBox \subseteq queued
  BY <1>2, <1>3 DEF MadeOf, Holds
<1>6. NotifyTypeOK
  BY <1>1, <1>4 DEF NotifyTypeOK, NotifyTypes, NotesInTime
<1>7. QueuedIsKept
  BY <1>1, <1>3 DEF QueuedIsKept, CopiesKeep, Waits, Settled
<1>8. ASSUME NEW d \in Dog \ unnoted
      PROVE  LET t == outage[d] IN
             /\ Tier[d] = "A" => \A i \in 1..Len(t) - 1 : t[i + 1] - t[i] >= Remind
             /\ Tier[d] = "B" => Len(t) <= 1
             /\ Tier[d] = "C" => t = <<>>
  <2>1. Fits(Tier[d], Noted(d), outage[d])
    BY <1>1, Zenon DEF NotesFit, Noted
  <2> QED
    BY <2>1 DEF Fits, Spaced
<1>9. OutageToldSparingly /\ ToldIsTrue
  BY <1>1, <1>8, NotifyConstants DEF OutageToldSparingly, ToldIsTrue, ToldFits
<1> QED
  BY <1>6, <1>7, <1>9 DEF NotifySafe

\* No queued message vanishes though watchdogs share the outbox and its temporary file and die anywhere,
\* also between emptying the file and writing it; excepted are those queued while another flushed, and
\* those in the outbox when two were rewriting it. No outage is told more often than its tier says, but
\* where a message was delivered and not noted (a death, a lost answer); and none is ever noted as told
\* when it was not: with any watchdogs, tiers and bounds.
THEOREM NotifyStaysSafe == HostSpec => []NotifyHold
<1> DEFINE I == part = "notify" => NotifyInv
<1>1. HostInit => I
  BY PartStarts, NotifyStarts
<1>2. I /\ [HostNext]_hostVars => I'
  BY PartMoves, NotifyStays
<1>3. I => NotifyHold
  BY NotifyInvIsEnough DEF NotifyHold
<1> QED
  BY <1>1, <1>2, <1>3, PTL DEF HostSpec

-----------------------------------------------------------------------------
(* PlugAlerts: the latest edge of a timetable, and what is told of a plug.  *)

LEMMA PlugNats ==
  /\ DayLen \in Nat \ {0} /\ StuckMax \in Nat \ {0} /\ LastTickP \in Nat /\ MaxEventsP \in Nat
  /\ StuckAfter \in Nat /\ ForeignKeep \in Nat /\ Ceiling \in Nat
<1>1. \A n \in {DayLen, StuckAfter, StuckMax, ForeignKeep, Ceiling, LastTickP, MaxEventsP} : n \in Nat
  BY PlugAlertNumbers
<1> QED
  BY <1>1, PlugAlertNumbers

\* What a set of numbers has, without induction: a least one.
LEMMA LeastNat == ASSUME NEW S \in SUBSET Nat, S # {} PROVE \E m \in S : \A n \in S : m <= n
<1> DEFINE R == {ss \in Nat \X Nat : ss[1] < ss[2]}
<1>1. R = OpToRel(<, Nat)
  BY Zenon DEF OpToRel
<1>2. IsWellFoundedOn(R, Nat)
  BY <1>1, NatLessThanWellFounded, Zenon
<1> HIDE DEF R
<1>3. PICK m \in S : \A n \in S : <<n, m>> \notin R
  BY <1>2, WFMin, Zenon
<1>4. \A n \in S : n < m => <<n, m>> \in R
  BY DEF R
<1>5. \A n \in S : ~(n < m)
  BY <1>3, <1>4, Zenon
<1> QED
  BY <1>5

\* Day and clock of a time.
LEMMA ClockIs ==
  ASSUME NEW t \in Nat
  PROVE  /\ Clock(t) \in 0..DayLen - 1 /\ t \div DayLen \in Nat
         /\ t = DayLen * (t \div DayLen) + Clock(t)
<1> DEFINE q == t \div DayLen
           r == t % DayLen
<1>1. DayLen \in Nat \ {0} /\ q \in Int /\ r \in 0..DayLen - 1 /\ t = DayLen * q + r
  BY PlugNats
<1> HIDE DEF q, r
<1>2. q >= 0
  BY <1>1, Z3
<1> QED
  BY <1>1, <1>2 DEF Clock, q, r

LEMMA ClockOf ==
  ASSUME NEW t \in Nat, NEW d \in Nat, NEW c \in 0..DayLen - 1, t = DayLen * d + c
  PROVE  t \div DayLen = d /\ Clock(t) = c
<1> DEFINE q == t \div DayLen
           r == Clock(t)
<1>1. DayLen \in Nat \ {0} /\ q \in Nat /\ r \in 0..DayLen - 1 /\ t = DayLen * q + r
  BY PlugNats, ClockIs
<1> HIDE DEF q, r
<1>2. DayLen * (q - d) = c - r
  BY <1>1, Z3
<1>3. c - r < DayLen /\ r - c < DayLen
  BY <1>1
<1>4. q = d
  <2>1. ~(q >= d + 1)
    BY <1>1, <1>2, <1>3, Z3
  <2>2. ~(q <= d - 1)
    BY <1>1, <1>2, <1>3, Z3
  <2> QED
    BY <1>1, <2>1, <2>2
<1>5. r = c
  BY <1>1, <1>4
<1> QED
  BY <1>4, <1>5 DEF q, r

\* A time of the same day, and the same clock on the next one.
LEMMA ClockGoes ==
  ASSUME NEW t \in Nat, NEW k \in Int, 0 <= Clock(t) + k, Clock(t) + k < DayLen
  PROVE  t + k \in Nat /\ Clock(t + k) = Clock(t) + k /\ (t + k) \div DayLen = t \div DayLen
<1> DEFINE d == t \div DayLen
           c == Clock(t)
           n == DayLen * d
<1>1. DayLen \in Nat \ {0} /\ d \in Nat /\ c \in 0..DayLen - 1 /\ t = n + c
  BY PlugNats, ClockIs
<1>2. n \in Nat
  BY <1>1
<1> HIDE DEF n, c, d
<1>3. t + k \in Nat /\ c + k \in 0..DayLen - 1 /\ t + k = n + (c + k)
  BY <1>1, <1>2 DEF c
<1> QED
  BY <1>1, <1>3, ClockOf DEF n, c, d

LEMMA ClockTurns ==
  ASSUME NEW t \in Nat
  PROVE  t + DayLen \in Nat /\ Clock(t + DayLen) = Clock(t) /\ (t + DayLen) \div DayLen = (t \div DayLen) + 1
<1> DEFINE d == t \div DayLen
           c == Clock(t)
<1>1. DayLen \in Nat \ {0} /\ d \in Nat /\ c \in 0..DayLen - 1 /\ t = DayLen * d + c
  BY PlugNats, ClockIs
<1> HIDE DEF c, d
<1>2. t + DayLen = DayLen * (d + 1) + c /\ d + 1 \in Nat /\ t + DayLen \in Nat
  BY <1>1, Z3
<1> QED
  BY <1>1, <1>2, ClockOf DEF c, d

LEMMA DaysApart ==
  ASSUME NEW p \in Nat, NEW t \in Nat, p <= t
  PROVE  \/ t \div DayLen = p \div DayLen /\ t - p = Clock(t) - Clock(p)
         \/ t \div DayLen = (p \div DayLen) + 1 /\ t - p = DayLen + Clock(t) - Clock(p)
         \/ p + DayLen <= t
<1> DEFINE d == p \div DayLen
           e == t \div DayLen
           c == Clock(p)
           b == Clock(t)
<1>1. /\ DayLen \in Nat \ {0} /\ d \in Nat /\ c \in 0..DayLen - 1 /\ p = DayLen * d + c
      /\ e \in Nat /\ b \in 0..DayLen - 1 /\ t = DayLen * e + b
  BY PlugNats, ClockIs
<1> HIDE DEF c, d, e, b
<1>2. e >= d
  <2>1. ~(e <= d - 1)
    BY <1>1, Z3
  <2> QED
    BY <1>1, <2>1
<1>3. CASE e = d
  BY <1>1, <1>3 DEF c, d, e, b
<1>4. CASE e = d + 1
  <2>1. t - p = DayLen + b - c
    BY <1>1, <1>4, Z3
  <2> QED
    BY <1>4, <2>1 DEF c, d, e, b
<1>5. CASE e >= d + 2
  <2>1. p + DayLen <= t
    BY <1>1, <1>5, Z3
  <2> QED
    BY <2>1
<1> QED
  BY <1>1, <1>2, <1>3, <1>4, <1>5

LEMMA DivGrows ==
  ASSUME NEW p \in Nat, NEW t \in Nat, p <= t PROVE p \div DayLen <= t \div DayLen
<1> DEFINE d == p \div DayLen
           e == t \div DayLen
<1>1. /\ DayLen \in Nat \ {0} /\ d \in Nat /\ Clock(p) \in 0..DayLen - 1 /\ p = DayLen * d + Clock(p)
      /\ e \in Nat /\ Clock(t) \in 0..DayLen - 1 /\ t = DayLen * e + Clock(t)
  BY PlugNats, ClockIs
<1> HIDE DEF d, e
<1>2. ~(e <= d - 1)
  BY <1>1, Z3
<1> QED
  BY <1>1, <1>2 DEF d, e

\* The edges of a timetable are the starts and ends of its windows, which lie within the day.
LEMMA WindowsAre ==
  ASSUME NEW tt \in Timetables, NEW t \in Int
  PROVE  /\ WeekDay(t) \in {0, 1} /\ tt \in [{0, 1} -> SUBSET ((0..DayLen) \X (0..DayLen))]
         /\ \A w \in tt[WeekDay(t)] : w[1] \in 0..DayLen /\ w[2] \in 0..DayLen /\ w[1] < w[2]
<1>1. t \div DayLen \in Int
  BY PlugNats
<1>2. WeekDay(t) \in {0, 1}
  BY <1>1 DEF WeekDay
<1>3. tt \in [{0, 1} -> SUBSET ((0..DayLen) \X (0..DayLen))] /\ \A w \in tt[0] \cup tt[1] : w[1] < w[2]
  BY PlugAlertNumbers, Zenon
<1> QED
  BY <1>2, <1>3

LEMMA EdgeIs ==
  ASSUME NEW tt \in Timetables, NEW t \in Int
  PROVE  \A e : e \in Edges(tt, t) <=> \E w \in tt[WeekDay(t)] : e = <<w[1], "start">> \/ e = <<w[2], "end">>
  BY Zenon DEF Edges

LEMMA EdgesLie ==
  ASSUME NEW tt \in Timetables, NEW t \in Int
  PROVE  \A e \in Edges(tt, t) : e[1] \in 0..DayLen
  BY WindowsAre, EdgeIs

Latest(E) == CHOOSE e \in E : \A f \in E : f[1] <= e[1]
PastEdges(tt) == {e \in Edges(tt, tickP) : e[1] <= Clock(tickP)}

LEMMA LastEdgeIs ==
  ASSUME NEW tt
  PROVE  LastEdge(tt) = IF Edges(tt, tickP) = {} THEN [kind |-> "end", age |-> LastTickP + StuckMax]
                        ELSE IF PastEdges(tt) # {}
                             THEN [kind |-> Latest(PastEdges(tt))[2], age |-> Clock(tickP) - Latest(PastEdges(tt))[1]]
                             ELSE [kind |-> Latest(Edges(tt, tickP))[2],
                                   age |-> Clock(tickP) + DayLen - Latest(Edges(tt, tickP))[1]]
  BY Zenon DEF LastEdge, Latest, PastEdges

\* Edges have a latest one, and where all of those at one time are ends, it is an end.
LEMMA LatestIsEdge ==
  ASSUME NEW E, E # {}, \A e \in E : e[1] \in 0..DayLen
  PROVE  Latest(E) \in E /\ \A f \in E : f[1] <= Latest(E)[1]
<1> DEFINE T == {n \in Nat : \E e \in E : e[1] = DayLen - n}
<1>1. T \in SUBSET Nat /\ T # {} /\ \A e \in E : DayLen - e[1] \in T
  <2>1. \A e \in E : DayLen - e[1] \in Nat /\ e[1] = DayLen - (DayLen - e[1])
    BY PlugNats
  <2>2. \A e \in E : DayLen - e[1] \in T
    BY <2>1
  <2> QED
    BY <2>2
<1>2. PICK m \in T : \A n \in T : m <= n
  BY <1>1, LeastNat
<1>3. PICK e \in E : e[1] = DayLen - m
  BY <1>2
<1>4. \A f \in E : f[1] <= e[1]
  BY <1>1, <1>2, <1>3, PlugNats
<1> QED
  BY <1>3, <1>4, Zenon DEF Latest

LEMMA LatestIsThisEnd ==
  ASSUME NEW E, NEW m \in Int, <<m, "end">> \in E,
         \A e \in E : e[1] \in 0..DayLen /\ e[1] <= m /\ (e[1] = m => e[2] = "end")
  PROVE  Latest(E)[1] = m /\ Latest(E)[2] = "end"
<1>1. Latest(E) \in E /\ m <= Latest(E)[1]
  <2>1. E # {} /\ \A e \in E : e[1] \in 0..DayLen
    OBVIOUS
  <2>2. Latest(E) \in E /\ \A f \in E : f[1] <= Latest(E)[1]
    BY <2>1, LatestIsEdge
  <2> QED
    BY <2>2
<1>2. Latest(E)[1] = m
  BY <1>1
<1> QED
  BY <1>1, <1>2

\* A plug that is off from a switch-off on, while the windows are the same each day: the latest edge,
\* as last_edge counts it, is that switch-off.
LEMMA LatestIsTheEnd ==
  ASSUME NEW tt \in Timetables, tickP \in Nat, NEW t \in 1..tickP,
         Expected(tt, t - 1) = "on", \A u \in t..tickP : Expected(tt, u) = "off",
         \A u \in t - 1..tickP : tt[WeekDay(u)] = tt[WeekDay(tickP)]
  PROVE  LastEdge(tt).kind = "end" /\ LastEdge(tt).age = tickP - t
<1> DEFINE W == tt[WeekDay(tickP)]
           p == t - 1
           b == Clock(p)
           c == Clock(tickP)
           m == b + 1
           E == Edges(tt, tickP)
<1>1. /\ \A w \in W : w[1] \in 0..DayLen /\ w[2] \in 0..DayLen /\ w[1] < w[2]
      /\ \A e : e \in E <=> \E w \in W : e = <<w[1], "start">> \/ e = <<w[2], "end">>
      /\ p \in Nat /\ p <= tickP /\ b \in 0..DayLen - 1 /\ c \in 0..DayLen - 1 /\ DayLen \in Nat
  <2>1. tickP \in Int /\ p \in Nat /\ p <= tickP /\ DayLen \in Nat
    BY PlugNats
  <2>2. b \in 0..DayLen - 1 /\ c \in 0..DayLen - 1
    BY <2>1, ClockIs
  <2>3. \A w \in W : w[1] \in 0..DayLen /\ w[2] \in 0..DayLen /\ w[1] < w[2]
    BY <2>1, WindowsAre
  <2>4. \A e : e \in E <=> \E w \in W : e = <<w[1], "start">> \/ e = <<w[2], "end">>
    BY <2>1, EdgeIs
  <2> QED
    BY <2>1, <2>2, <2>3, <2>4
<1>2. ASSUME NEW u \in t..tickP, NEW w \in W PROVE ~(w[1] <= Clock(u) /\ Clock(u) < w[2])
  <2>1. Expected(tt, u) = "off" /\ tt[WeekDay(u)] = W
    OBVIOUS
  <2> QED
    BY <2>1 DEF Expected
<1>3. PICK v \in W : v[1] <= b /\ b < v[2]
  <2>1. Expected(tt, p) = "on" /\ tt[WeekDay(p)] = W
    BY <1>1
  <2> QED
    BY <2>1 DEF Expected
<1> HIDE DEF W, E, b, c
\* A clock of a window's inside is not met between t and now.
<1>4. ASSUME NEW k \in Int, 0 <= b + k, b + k < DayLen, 0 < k, p + k <= tickP, NEW w \in W, w[1] <= b + k PROVE ~(b + k < w[2])
  <2>1. p + k \in t..tickP /\ Clock(p + k) = b + k
    BY <1>1, <1>4, ClockGoes DEF b
  <2> QED
    BY <1>2, <1>4, <2>1
<1>5. ASSUME NEW k \in Int, 0 <= c - k, 0 <= k, tickP - k > p, NEW w \in W, w[1] <= c - k PROVE ~(c - k < w[2])
  <2>1. -k \in Int /\ 0 <= c + (-k) /\ c + (-k) < DayLen /\ tickP \in Nat
    BY <1>1, <1>5
  <2>2. tickP + (-k) \in Nat /\ Clock(tickP + (-k)) = c + (-k)
    BY <2>1, ClockGoes DEF c
  <2>3. tickP + (-k) \in t..tickP /\ c + (-k) = c - k
    BY <1>1, <1>5, <2>2
  <2> QED
    BY <1>2, <1>5, <2>2, <2>3
<1>6. p + DayLen > tickP
  <2> SUFFICES ASSUME p + DayLen <= tickP PROVE FALSE
    BY <1>1
  <2>1. p + DayLen \in t..tickP /\ Clock(p + DayLen) = b
    BY <1>1, PlugNats, ClockTurns DEF b
  <2> QED
    BY <1>2, <1>3, <2>1
<1>7. t <= tickP /\ p + 1 = t /\ p + 1 <= tickP
  BY <1>1
<1>8. v[2] = m
  <2>1. CASE b + 1 < DayLen
    <3>1. ~(b + 1 < v[2])
      BY <1>1, <1>3, <1>4, <1>7, <2>1
    <3> QED
      BY <1>1, <1>3, <3>1
  <2>2. CASE b + 1 >= DayLen
    BY <1>1, <1>3, <2>2
  <2> QED
    BY <1>1, <2>1, <2>2
<1>9. <<m, "end">> \in E
  BY <1>1, <1>3, <1>8
<1>10. \A e \in E : e[1] \in 0..DayLen
  BY <1>1
<1>11. CASE tickP - p = c - b
  <2>1. m <= c
    BY <1>1, <1>7, <1>11
  <2>2. ASSUME NEW e \in PastEdges(tt) PROVE e[1] \in 0..DayLen /\ e[1] <= m /\ (e[1] = m => e[2] = "end")
    <3>1. e \in E /\ e[1] <= c /\ e[1] \in 0..DayLen
      BY <1>10, <2>2 DEF PastEdges, E, c
    <3>2. PICK w \in W : e = <<w[1], "start">> \/ e = <<w[2], "end">>
      BY <1>1, <3>1
    <3>3. CASE e = <<w[1], "start">> /\ e[1] >= m
      <4>1. w[1] \in 0..c /\ w[1] < w[2] /\ w[1] > b
        BY <1>1, <3>1, <3>3
      <4>2. w[1] - b \in Int /\ b + (w[1] - b) = w[1] /\ 0 < w[1] - b /\ p + (w[1] - b) <= tickP /\ w[1] < DayLen
        BY <1>1, <1>11, <4>1
      <4> QED
        BY <1>4, <4>1, <4>2
    <3>4. CASE e = <<w[2], "end">> /\ e[1] > m
      <4>1. w[2] - 1 \in 0..c /\ w[1] <= w[2] - 1 /\ w[2] - 1 > b /\ w[2] - 1 < w[2]
        BY <1>1, <3>1, <3>4
      <4>2. /\ (w[2] - 1) - b \in Int /\ b + ((w[2] - 1) - b) = w[2] - 1 /\ 0 < (w[2] - 1) - b
            /\ p + ((w[2] - 1) - b) <= tickP /\ w[2] - 1 < DayLen
        BY <1>1, <1>11, <4>1
      <4> QED
        BY <1>4, <4>1, <4>2
    <3> QED
      BY <1>1, <3>1, <3>2, <3>3, <3>4
  <2>3. <<m, "end">> \in PastEdges(tt)
    BY <1>9, <2>1 DEF PastEdges, E, c
  <2>4. m \in Int /\ PastEdges(tt) # {} /\ E # {}
    BY <1>1, <1>9, <2>3
  <2>5. Latest(PastEdges(tt))[1] = m /\ Latest(PastEdges(tt))[2] = "end"
    BY <2>2, <2>3, <2>4, LatestIsThisEnd
  <2>6. LastEdge(tt) = [kind |-> Latest(PastEdges(tt))[2], age |-> c - Latest(PastEdges(tt))[1]]
    BY <2>4, LastEdgeIs, Zenon DEF E, c
  <2>7. c - m = tickP - t
    BY <1>1, <1>11
  <2> QED
    BY <2>5, <2>6, <2>7
<1>12. CASE tickP - p = DayLen + c - b
  <2>1. PastEdges(tt) = {}
    <3> SUFFICES ASSUME NEW e \in PastEdges(tt) PROVE FALSE
      OBVIOUS
    <3>1. e \in E /\ e[1] <= c /\ e[1] \in 0..DayLen
      BY <1>10 DEF PastEdges, E, c
    <3>2. PICK w \in W : e = <<w[1], "start">> \/ e = <<w[2], "end">>
      BY <1>1, <3>1
    <3>3. CASE e = <<w[1], "start">>
      <4>1. w[1] \in 0..c /\ w[1] < w[2]
        BY <1>1, <3>1, <3>3
      <4>2. c - w[1] \in Int /\ c - (c - w[1]) = w[1] /\ 0 <= c - w[1] /\ 0 <= w[1] /\ tickP - (c - w[1]) > p
        BY <1>1, <1>12, <4>1
      <4> QED
        BY <1>5, <4>1, <4>2
    <3>4. CASE e = <<w[2], "end">>
      <4>1. w[2] - 1 \in 0..c /\ w[1] <= w[2] - 1 /\ w[2] - 1 < w[2]
        BY <1>1, <3>1, <3>4
      <4>2. /\ c - (w[2] - 1) \in Int /\ c - (c - (w[2] - 1)) = w[2] - 1 /\ 0 <= c - (w[2] - 1)
            /\ 0 <= w[2] - 1 /\ tickP - (c - (w[2] - 1)) > p
        BY <1>1, <1>12, <4>1
      <4> QED
        BY <1>5, <4>1, <4>2
    <3> QED
      BY <3>2, <3>3, <3>4
  <2>2. ASSUME NEW e \in E PROVE e[1] \in 0..DayLen /\ e[1] <= m /\ (e[1] = m => e[2] = "end")
    <3>1. e[1] \in 0..DayLen
      BY <1>10, <2>2
    <3>2. PICK w \in W : e = <<w[1], "start">> \/ e = <<w[2], "end">>
      BY <1>1, <2>2
    <3>3. CASE e = <<w[1], "start">> /\ e[1] >= m
      <4>1. w[1] \in 0..DayLen - 1 /\ w[1] < w[2] /\ w[1] > b
        BY <1>1, <3>1, <3>3
      <4>2. w[1] - b \in Int /\ b + (w[1] - b) = w[1] /\ 0 < w[1] - b /\ p + (w[1] - b) <= tickP /\ w[1] < DayLen
        BY <1>1, <1>12, <4>1
      <4> QED
        BY <1>4, <4>1, <4>2
    <3>4. CASE e = <<w[2], "end">> /\ e[1] > m
      <4>1. w[2] - 1 \in 0..DayLen - 1 /\ w[1] <= w[2] - 1 /\ w[2] - 1 > b /\ w[2] - 1 < w[2]
        BY <1>1, <3>1, <3>4
      <4>2. /\ (w[2] - 1) - b \in Int /\ b + ((w[2] - 1) - b) = w[2] - 1 /\ 0 < (w[2] - 1) - b
            /\ p + ((w[2] - 1) - b) <= tickP /\ w[2] - 1 < DayLen
        BY <1>1, <1>12, <4>1
      <4> QED
        BY <1>4, <4>1, <4>2
    <3> QED
      BY <1>1, <3>1, <3>2, <3>3, <3>4
  <2>3. m \in Int /\ E # {}
    BY <1>1, <1>9
  <2>4. Latest(E)[1] = m /\ Latest(E)[2] = "end"
    BY <1>9, <2>2, <2>3, LatestIsThisEnd
  <2>5. LastEdge(tt) = [kind |-> Latest(E)[2], age |-> c + DayLen - Latest(E)[1]]
    BY <2>1, <2>3, LastEdgeIs, Zenon DEF E, c
  <2>6. c + DayLen - m = tickP - t
    BY <1>1, <1>12
  <2> QED
    BY <2>4, <2>5, <2>6
<1> QED
  BY <1>1, <1>6, <1>11, <1>12, DaysApart DEF b, c

\* No edge is at this clock, so the latest one is a tick or more ago.
LEMMA LatestIsPast ==
  ASSUME NEW tt \in Timetables, tickP \in Nat, ~AtEdge(tt, tickP) PROVE LastEdge(tt).age >= 1
<1> DEFINE c == Clock(tickP)
           E == Edges(tt, tickP)
<1>1. c \in 0..DayLen - 1 /\ DayLen \in Nat \ {0} /\ StuckMax \in Nat \ {0} /\ LastTickP \in Nat
  BY ClockIs, PlugNats
<1>2. \A e \in E : e[1] \in 0..DayLen
  BY EdgesLie
<1>3. \A e \in E : e[1] % DayLen # c
  BY Zenon DEF AtEdge
<1> HIDE DEF c, E
<1>4. \A e \in E : e[1] # c /\ e[1] # c + DayLen
  <2> SUFFICES ASSUME NEW e \in E PROVE e[1] # c /\ e[1] # c + DayLen
    OBVIOUS
  <2>1. CASE e[1] < DayLen
    <3>1. e[1] \in Nat /\ e[1] = DayLen * 0 + e[1] /\ e[1] \in 0..DayLen - 1
      BY <1>1, <1>2, <2>1
    <3>2. Clock(e[1]) = e[1]
      BY <3>1, ClockOf
    <3> QED
      BY <1>1, <1>3, <2>1, <3>1, <3>2 DEF Clock
  <2>2. CASE e[1] = DayLen
    <3>1. e[1] \in Nat /\ 1 \in Nat /\ 0 \in 0..DayLen - 1 /\ e[1] = DayLen * 1 + 0
      BY <1>1, <2>2
    <3>2. Clock(e[1]) = 0
      BY <3>1, ClockOf
    <3> QED
      BY <1>1, <1>3, <2>2, <3>2 DEF Clock
  <2> QED
    BY <1>1, <1>2, <2>1, <2>2
<1>5. CASE E = {}
  <2>1. LastEdge(tt) = [kind |-> "end", age |-> LastTickP + StuckMax]
    BY <1>5, LastEdgeIs, Zenon DEF E
  <2> QED
    BY <1>1, <2>1
<1>6. CASE E # {} /\ PastEdges(tt) # {}
  <2>1. LastEdge(tt) = [kind |-> Latest(PastEdges(tt))[2], age |-> c - Latest(PastEdges(tt))[1]]
    BY <1>6, LastEdgeIs, Zenon DEF E, c
  <2>2. \A e \in PastEdges(tt) : e \in E /\ e[1] \in 0..DayLen /\ e[1] <= c
    BY <1>2 DEF PastEdges, E, c
  <2>3. Latest(PastEdges(tt)) \in PastEdges(tt)
    BY <1>6, <2>2, LatestIsEdge
  <2> QED
    BY <1>1, <1>4, <2>1, <2>2, <2>3
<1>7. CASE E # {} /\ PastEdges(tt) = {}
  <2>1. LastEdge(tt) = [kind |-> Latest(E)[2], age |-> c + DayLen - Latest(E)[1]]
    BY <1>7, LastEdgeIs, Zenon DEF E, c
  <2>2. Latest(E) \in E
    BY <1>2, <1>7, LatestIsEdge
  <2> QED
    BY <1>1, <1>2, <1>4, <2>1, <2>2
<1> QED
  BY <1>5, <1>6, <1>7

\* An edge that Home Assistant switches at is one of that day, or the end of the day before.
LEMMA AtEdgeIs ==
  ASSUME NEW tt, NEW t \in Int, AtEdge(tt, t)
  PROVE  \E e \in Edges(tt, t) \cup Edges(tt, t - 1) : e[1] % DayLen = Clock(t)
  BY Zenon DEF AtEdge

LEMMA PlugStarts == PlugInit => PlugInv
<1> SUFFICES ASSUME PlugInit PROVE PlugInv
  OBVIOUS
<1>1. PlugTypes
  <2>1. Expected(timetable, 0) \in {"on", "off"}
    BY DEF Expected
  <2>2. tickP = 0 /\ eventsP = 0 /\ editedAt = 0 /\ timetable \in Timetables /\ copied = {} /\ byHa = {} /\ polledP = FALSE
    BY DEF PlugInit
  <2>3. plug = [state |-> Expected(timetable, 0), at |-> -ForeignKeep] /\ -ForeignKeep \in Int /\ -ForeignKeep <= 0
    BY PlugNats DEF PlugInit
  <2>4. plug \in [state : {"on", "off", "unavailable"}, at : Int] /\ plug.at <= 0
    BY <2>1, <2>3
  <2>5. tickP \in 0..LastTickP /\ eventsP \in 0..MaxEventsP /\ editedAt \in 0..tickP
    BY <2>2, PlugNats
  <2>6. byHa \subseteq 0..tickP /\ polledP \in BOOLEAN /\ plug.at <= tickP
    BY <2>2, <2>4
  <2> QED
    BY <2>2, <2>4, <2>5, <2>6, Zenon DEF PlugTypes
<1> QED
  BY <1>1, Zenon DEF PlugInit, PlugInv, ListedInTime, SaysNoSchedules, HaKeepsEdges, ContradictionListed, StuckIsToldThatDay, Overdue

\* A run judges by the timetable it has read.
Stays == openP \ (Old \cup {<<"noSchedules", -1>>, <<"unavail", -1>>})
LEMMA JudgeIs ==
  ASSUME PlugTypes, JudgesPlug
  PROVE  /\ polledP' = TRUE /\ UNCHANGED <<tickP, timetable, editedAt, plug, byHa, eventsP>>
         /\ \/ copied' = {} /\ openP' = (openP \ Old) \cup {<<"noSchedules", -1>>}
            \/ \E tt \in Timetables :
                 /\ copied' = {tt}
                 /\ \/ /\ Unavailable
                       /\ openP' = Stays \cup {<<"unavail", -1>>} \/ openP' = Stays
                    \/ ~Unavailable /\ openP' = {k \in Stays : k[1] = "foreign"} \cup Raised(tt)
<1>1. ReadSchedules = {} \/ \E tt \in Timetables : ReadSchedules = {tt}
  BY DEF ReadSchedules, PlugTypes
<1>2. CASE ReadSchedules = {}
  BY <1>2, Zenon DEF JudgesPlug
<1>3. ASSUME NEW tt \in Timetables, ReadSchedules = {tt}
      PROVE  /\ copied' = {tt}
             /\ \/ /\ Unavailable
                   /\ openP' = Stays \cup {<<"unavail", -1>>} \/ openP' = Stays
                \/ ~Unavailable /\ openP' = {k \in Stays : k[1] = "foreign"} \cup Raised(tt)
  <2>1. (CHOOSE x \in {tt} : TRUE) = tt
    OBVIOUS
  <2>2. /\ copied' = {tt}
        /\ openP' = IF Unavailable THEN Stays \cup When(tickP - plug.at > 2, "unavail")
                    ELSE {k \in Stays : k[1] = "foreign"} \cup Raised(tt)
    BY <1>3, <2>1, Zenon DEF JudgesPlug, Stays
  <2> QED
    BY <2>2 DEF When
<1> QED
  BY <1>1, <1>2, <1>3, Zenon DEF JudgesPlug

LEMMA RaisedIs ==
  ASSUME NEW tt
  PROVE  /\ \A k \in Raised(tt) : /\ k[1] # "noSchedules"
                                  /\ k[1] = "foreign" => Foreign(tt) /\ k = <<"foreign", plug.at>>
         /\ Foreign(tt) => <<"foreign", plug.at>> \in Raised(tt)
         /\ Mismatch(tt) => <<"mismatch", -1>> \in Raised(tt)
         /\ StuckOn(tt) => <<"stuck", -1>> \in Raised(tt)
  BY DEF Raised, When

LEMMA PlugMoves ==
  ASSUME [PlugNext]_plugVars
  PROVE  UNCHANGED plugVars \/ TickP \/ JudgesPlug \/ (Event /\ (UNCHANGED plug \/ \E s \in {"on", "off", "unavailable"} : Becomes(s))
           /\ (UNCHANGED <<timetable, editedAt>> \/ \E tt \in Timetables : timetable' = tt /\ editedAt' = tickP))
<1>1. ASSUME LoadTurns \/ SnapshotBreaks PROVE Event /\ UNCHANGED <<plug, timetable, editedAt>>
  BY <1>1, Zenon DEF LoadTurns, SnapshotBreaks
<1>2. ASSUME NEW s \in {"on", "off", "unavailable"}, PlugTurns(s) PROVE Event /\ Becomes(s) /\ UNCHANGED <<timetable, editedAt>>
  BY <1>2, Zenon DEF PlugTurns
<1>3. ASSUME NEW s \in {"on", "off"}, HaRestarts(s) PROVE Event /\ Becomes(s) /\ s \in {"on", "off", "unavailable"} /\ UNCHANGED <<timetable, editedAt>>
  BY <1>3, Zenon DEF HaRestarts
<1>4. ASSUME NEW tt \in Timetables, Edited(tt) PROVE Event /\ UNCHANGED plug /\ timetable' = tt /\ editedAt' = tickP
  BY <1>4, Zenon DEF Edited
<1>5. CASE PlugNext
  BY <1>1, <1>2, <1>3, <1>4, <1>5, Zenon DEF PlugNext
<1> QED
  BY <1>5

LEMMA PlugTypesStay == PlugTypes /\ [PlugNext]_plugVars => PlugTypes'
<1> SUFFICES ASSUME PlugTypes, [PlugNext]_plugVars PROVE PlugTypes'
  OBVIOUS
<1>0. tickP \in 0..LastTickP /\ eventsP \in 0..MaxEventsP /\ editedAt \in 0..tickP /\ byHa \subseteq 0..tickP
  BY Zenon DEF PlugTypes
<1>1. ASSUME NEW s \in {"on", "off", "unavailable"}, Becomes(s), tickP' \in Int, tickP <= tickP'
      PROVE  plug' \in [state : {"on", "off", "unavailable"}, at : Int] /\ plug'.at <= tickP'
  BY <1>1, PlugNats DEF Becomes, PlugTypes
<1>2. CASE UNCHANGED plugVars
  BY <1>2, Zenon DEF plugVars, PlugTypes
<1>3. CASE TickP
  <2>1. /\ tickP' \in 0..LastTickP /\ tickP' = tickP + 1 /\ tickP' \in Int /\ tickP <= tickP'
        /\ UNCHANGED <<timetable, editedAt, copied, eventsP>> /\ polledP' = FALSE
    BY <1>3, PlugNats DEF TickP, PlugTypes
  <2>2. \A tt, t : Expected(tt, t) \in {"on", "off", "unavailable"}
    BY DEF Expected
  <2>3. byHa' \subseteq 0..tickP' /\ (UNCHANGED plug \/ \E s \in {"on", "off", "unavailable"} : Becomes(s))
    <3>1. byHa' = byHa \cup {tickP'} \/ byHa' = byHa
      BY <1>3, Zenon DEF TickP
    <3>2. UNCHANGED plug \/ Becomes(Expected(timetable, tickP'))
      BY <1>3, Zenon DEF TickP
    <3>3. byHa' \subseteq 0..tickP'
      <4>1. tickP' = tickP + 1 /\ tickP \in 0..LastTickP
        BY <1>0, <2>1, Zenon
      <4>2. \A t \in 0..tickP : t \in 0..tickP'
        BY <4>1
      <4>3. tickP' \in 0..tickP'
        BY <4>1
      <4> QED
        BY <1>0, <3>1, <4>2, <4>3, Zenon
    <3> QED
      BY <2>2, <3>2, <3>3, Zenon
  <2>4. plug' \in [state : {"on", "off", "unavailable"}, at : Int] /\ plug'.at <= tickP'
    BY <1>1, <2>1, <2>3 DEF PlugTypes
  <2>5. editedAt' \in 0..tickP' /\ eventsP' \in 0..MaxEventsP /\ polledP' \in BOOLEAN
    <3>1. polledP' \in BOOLEAN /\ editedAt' = editedAt /\ eventsP' = eventsP /\ tickP' = tickP + 1 /\ tickP' \in 0..LastTickP
      BY <2>1, Zenon
    <3>2. editedAt' \in 0..tickP'
      BY <1>0, <3>1
    <3> QED
      BY <1>0, <3>1, <3>2, Zenon
  <2> QED
    BY <2>1, <2>3, <2>4, <2>5, Zenon DEF PlugTypes
<1>4. CASE JudgesPlug
  <2>1. polledP' = TRUE /\ UNCHANGED <<tickP, timetable, editedAt, plug, byHa, eventsP>>
        /\ (copied' = {} \/ \E tt \in Timetables : copied' = {tt})
    BY <1>4, JudgeIs, Zenon
  <2>2. polledP' \in BOOLEAN
    BY <2>1
  <2> QED
    BY <2>1, <2>2, Zenon DEF PlugTypes
<1>5. CASE Event /\ (UNCHANGED plug \/ \E s \in {"on", "off", "unavailable"} : Becomes(s))
           /\ (UNCHANGED <<timetable, editedAt>> \/ \E tt \in Timetables : timetable' = tt /\ editedAt' = tickP)
  <2>1. tickP' = tickP /\ tickP' \in Int /\ tickP <= tickP' /\ UNCHANGED <<copied, byHa>> /\ polledP' = FALSE
    BY <1>5, PlugNats DEF Event, PlugTypes
  <2>2. eventsP' \in 0..MaxEventsP /\ polledP' \in BOOLEAN
    <3>1. eventsP < MaxEventsP /\ eventsP' = eventsP + 1 /\ polledP' \in BOOLEAN
      BY <1>5, Zenon DEF Event
    <3>2. eventsP' \in 0..MaxEventsP
      BY <1>0, <3>1, PlugNats
    <3> QED
      BY <3>1, <3>2, Zenon
  <2>3. plug' \in [state : {"on", "off", "unavailable"}, at : Int] /\ plug'.at <= tickP'
    BY <1>1, <1>5, <2>1 DEF PlugTypes
  <2>4. timetable' \in Timetables /\ editedAt' \in 0..tickP'
    BY <1>5, <2>1, PlugNats DEF PlugTypes
  <2> QED
    BY <2>1, <2>2, <2>3, <2>4, Zenon DEF PlugTypes
<1> QED
  BY <1>2, <1>3, <1>4, <1>5, PlugMoves, Zenon

LEMMA ListStays ==
  PlugTypes /\ ListedInTime /\ SaysNoSchedules /\ [PlugNext]_plugVars => ListedInTime' /\ SaysNoSchedules'
<1> SUFFICES ASSUME PlugTypes, ListedInTime, SaysNoSchedules, [PlugNext]_plugVars PROVE ListedInTime' /\ SaysNoSchedules'
  OBVIOUS
<1>0. tickP \in Nat /\ ForeignKeep \in Nat /\ plug.at \in Int /\ plug.at <= tickP
  BY PlugNats DEF PlugTypes
<1>1. CASE UNCHANGED plugVars
  BY <1>1, Zenon DEF plugVars, ListedInTime, SaysNoSchedules
<1>2. CASE TickP
  <2>1. polledP /\ tickP' = tickP + 1 /\ UNCHANGED <<openP, copied>> /\ polledP' = FALSE
    BY <1>2 DEF TickP
  <2>2. ListedInTime'
    BY <1>0, <2>1 DEF ListedInTime
  <2> QED
    BY <2>1, <2>2, Zenon DEF SaysNoSchedules
<1>3. CASE JudgesPlug
  <2>1. /\ polledP' = TRUE /\ tickP' = tickP
        /\ \/ copied' = {} /\ openP' = (openP \ Old) \cup {<<"noSchedules", -1>>}
           \/ \E tt \in Timetables :
                /\ copied' = {tt}
                /\ \/ /\ Unavailable
                      /\ openP' = Stays \cup {<<"unavail", -1>>} \/ openP' = Stays
                   \/ ~Unavailable /\ openP' = {k \in Stays : k[1] = "foreign"} \cup Raised(tt)
    BY <1>3, JudgeIs, Zenon
  <2>2. ASSUME NEW k \in openP', k[1] = "foreign"
        PROVE  k \in openP \ Old \/ \E tt \in Timetables : Foreign(tt) /\ k = <<"foreign", plug.at>>
    <3>1. <<"noSchedules", -1>>[1] # "foreign" /\ <<"unavail", -1>>[1] # "foreign"
      OBVIOUS
    <3>2. CASE openP' = (openP \ Old) \cup {<<"noSchedules", -1>>}
      BY <2>2, <3>1, <3>2, Zenon
    <3>3. ASSUME NEW tt \in Timetables, openP' = Stays \cup {<<"unavail", -1>>} \/ openP' = Stays PROVE k \in openP \ Old
      BY <2>2, <3>1, <3>3, Zenon DEF Stays
    <3>4. ASSUME NEW tt \in Timetables, openP' = {x \in Stays : x[1] = "foreign"} \cup Raised(tt)
          PROVE  k \in openP \ Old \/ (Foreign(tt) /\ k = <<"foreign", plug.at>>)
      <4>1. k \in Stays \/ k \in Raised(tt)
        BY <2>2, <3>4, Zenon
      <4> QED
        BY <2>2, <4>1, RaisedIs, Zenon DEF Stays
    <3> QED
      BY <2>1, <3>2, <3>3, <3>4, Zenon
  <2>3. ListedInTime'
    <3>1. ASSUME NEW k \in openP', k[1] = "foreign"
          PROVE  k[2] \in Int /\ k[2] <= tickP /\ k[2] >= tickP - ForeignKeep - 1 /\ k[2] >= tickP - ForeignKeep
      <4>1. CASE k \in openP \ Old
        BY <1>0, <3>1, <4>1 DEF ListedInTime, Old
      <4>2. ASSUME NEW tt \in Timetables, Foreign(tt), k = <<"foreign", plug.at>>
            PROVE  k[2] \in Int /\ k[2] <= tickP /\ k[2] >= tickP - ForeignKeep - 1 /\ k[2] >= tickP - ForeignKeep
        <5>1. tickP - plug.at < ForeignKeep /\ k[2] = plug.at
          BY <4>2 DEF Foreign
        <5> QED
          BY <1>0, <5>1
      <4> QED
        BY <2>2, <3>1, <4>1, <4>2
    <3> QED
      BY <2>1, <3>1 DEF ListedInTime
  <2>4. SaysNoSchedules'
    <3> SUFFICES ASSUME <<"noSchedules", -1>> \in openP', copied' # {} PROVE FALSE
      BY DEF SaysNoSchedules
    <3>0. <<"noSchedules", -1>>[1] = "noSchedules" /\ <<"noSchedules", -1>>[1] # "foreign" /\ <<"noSchedules", -1>> # <<"unavail", -1>>
      OBVIOUS
    <3>1. <<"noSchedules", -1>> \notin Stays
      BY Zenon DEF Stays
    <3>2. \A tt : <<"noSchedules", -1>> \notin Raised(tt)
      BY <3>0, RaisedIs, Zenon
    <3>3. ASSUME NEW tt \in Timetables, openP' = {x \in Stays : x[1] = "foreign"} \cup Raised(tt) PROVE FALSE
      <4>1. <<"noSchedules", -1>> \in Stays \/ <<"noSchedules", -1>> \in Raised(tt)
        BY <3>3, Zenon
      <4> QED
        BY <3>1, <3>2, <4>1, Zenon
    <3>4. <<"noSchedules", -1>> \notin Stays \cup {<<"unavail", -1>>}
      BY <3>0, <3>1
    <3> QED
      BY <2>1, <3>1, <3>3, <3>4, Zenon
  <2> QED
    BY <2>3, <2>4
<1>4. CASE Event
  <2>1. UNCHANGED <<tickP, openP, copied>> /\ polledP' = FALSE
    BY <1>4 DEF Event
  <2> QED
    BY <2>1 DEF ListedInTime, SaysNoSchedules
<1> QED
  BY <1>1, <1>2, <1>3, <1>4, PlugMoves, Zenon

LEMMA HaStays == PlugTypes /\ HaKeepsEdges /\ [PlugNext]_plugVars => HaKeepsEdges'
<1> SUFFICES ASSUME PlugTypes, HaKeepsEdges, [PlugNext]_plugVars PROVE HaKeepsEdges'
  OBVIOUS
<1>1. CASE UNCHANGED <<byHa, editedAt, timetable>>
  BY <1>1, Zenon DEF HaKeepsEdges
<1>2. CASE TickP
  <2>1. UNCHANGED <<timetable, editedAt>> /\ \A t \in byHa' : t \in byHa \/ AtEdge(timetable, t)
    BY <1>2, Zenon DEF TickP
  <2> QED
    BY <2>1, Zenon DEF HaKeepsEdges
<1>3. CASE Event /\ editedAt' = tickP
  <2>1. \A t \in byHa' : ~(editedAt' < t)
    BY <1>3, PlugNats DEF Event, PlugTypes
  <2> QED
    BY <2>1 DEF HaKeepsEdges
<1> QED
  BY <1>1, <1>2, <1>3, PlugMoves, JudgeIs, Zenon DEF Event, plugVars

\* The alerts are judged anew by every run, and until the next one nothing that they tell of changes.
LEMMA ToldStays ==
  PlugTypes /\ ContradictionListed /\ StuckIsToldThatDay /\ [PlugNext]_plugVars => ContradictionListed' /\ StuckIsToldThatDay'
<1> SUFFICES ASSUME PlugTypes, ContradictionListed, StuckIsToldThatDay, [PlugNext]_plugVars
             PROVE  ContradictionListed' /\ StuckIsToldThatDay'
  OBVIOUS
<1>1. CASE UNCHANGED plugVars
  BY <1>1, Zenon DEF plugVars, ContradictionListed, StuckIsToldThatDay, Overdue, OffSince, SwitchOff, Unavailable
<1>2. CASE ~polledP'
  BY <1>2, Zenon DEF ContradictionListed, StuckIsToldThatDay, Overdue
<1>3. CASE JudgesPlug /\ copied' = {timetable}
  <2>0. /\ polledP' = TRUE /\ UNCHANGED <<tickP, timetable, editedAt, plug, byHa, eventsP>>
        /\ timetable \in Timetables /\ timetable' \in Timetables /\ Unavailable' = Unavailable
    BY <1>3, JudgeIs, Zenon DEF PlugTypes, Unavailable
  <2>1. tickP \in Nat /\ plug.at \in Int
    BY PlugNats DEF PlugTypes
  <2>2. ASSUME ~Unavailable PROVE Raised(timetable) \subseteq openP'
    <3>1. ~(copied' = {})
      BY <1>3
    <3>2. \A tt : copied' = {tt} => tt = timetable
      BY <1>3
    <3> QED
      BY <1>3, <2>2, <3>1, <3>2, JudgeIs, Zenon
  <2>3. ContradictionListed'
    <3> SUFFICES ASSUME ~Unavailable, plug.state # Expected(timetable, tickP), tickP - plug.at >= 1, ~AtEdge(timetable, tickP)
                 PROVE  <<"mismatch", -1>> \in openP' \/ <<"foreign", plug.at>> \in openP'
      BY <2>0, Zenon DEF ContradictionListed
    <3>1. LastEdge(timetable).age >= 1
      BY <2>0, <2>1, LatestIsPast
    <3>2. Foreign(timetable) \/ Mismatch(timetable)
      BY <3>1 DEF Mismatch
    <3> QED
      BY <2>2, <3>2, RaisedIs, Zenon
  <2>4. StuckIsToldThatDay'
    <3> SUFFICES ASSUME NEW t \in 1..tickP, plug.state = "on", SwitchOff(t), OffSince(t), tickP - t \in StuckAfter..StuckMax,
                        tickP \div DayLen = (t - 1) \div DayLen \/ timetable[0] = timetable[1]
                 PROVE  <<"stuck", -1>> \in openP'
      BY <2>0, Zenon DEF StuckIsToldThatDay, Overdue, OffSince, SwitchOff
    <3>1. ~Unavailable
      BY DEF Unavailable
    <3>2. Expected(timetable, t - 1) = "on" /\ \A u \in t..tickP : Expected(timetable, u) = "off"
      BY DEF SwitchOff, OffSince
    <3>3. \A u \in t - 1..tickP : timetable[WeekDay(u)] = timetable[WeekDay(tickP)]
      <4> SUFFICES ASSUME NEW u \in t - 1..tickP PROVE timetable[WeekDay(u)] = timetable[WeekDay(tickP)]
        OBVIOUS
      <4>1. u \in Int /\ tickP \in Int /\ u \in Nat /\ t - 1 \in Nat /\ t - 1 <= u /\ u <= tickP
        BY <2>1
      <4>2. CASE timetable[0] = timetable[1]
        BY <2>0, <4>1, <4>2, WindowsAre
      <4>3. CASE tickP \div DayLen = (t - 1) \div DayLen
        <5>1. (t - 1) \div DayLen <= u \div DayLen /\ u \div DayLen <= tickP \div DayLen
          BY <2>1, <4>1, DivGrows
        <5>2. u \div DayLen = tickP \div DayLen
          BY <2>1, <4>1, <4>3, <5>1, ClockIs
        <5> QED
          BY <5>2 DEF WeekDay
      <4> QED
        BY <4>2, <4>3
    <3>4. LastEdge(timetable).kind = "end" /\ LastEdge(timetable).age = tickP - t
      BY <2>0, <2>1, <3>2, <3>3, LatestIsTheEnd
    <3>5. Expected(timetable, tickP) = "off"
      BY <2>1, <3>2
    <3>6. StuckOn(timetable)
      BY <3>4, <3>5 DEF StuckOn
    <3> QED
      BY <2>2, <3>1, <3>6, RaisedIs, Zenon
  <2> QED
    BY <2>3, <2>4
<1>4. CASE JudgesPlug /\ copied' # {timetable}
  <2>1. timetable' = timetable
    BY <1>4, JudgeIs, Zenon
  <2> QED
    BY <1>4, <2>1, Zenon DEF ContradictionListed, StuckIsToldThatDay, Overdue
<1>5. TickP \/ Event => ~polledP'
  BY Zenon DEF TickP, Event
<1> QED
  BY <1>1, <1>2, <1>3, <1>4, <1>5, PlugMoves, Zenon

LEMMA PlugStays == PlugInv /\ [PlugNext]_plugVars => PlugInv'
  BY PlugTypesStay, ListStays, HaStays, ToldStays, Zenon DEF PlugInv

LEMMA PlugInvIsEnough == PlugInv => PlugAlertsSafe
<1> SUFFICES ASSUME PlugInv PROVE PlugAlertsSafe
  OBVIOUS
<1>1. Cardinality(copied) <= 1 /\ copied \subseteq Timetables
  <2>1. copied = {} \/ \E tt \in Timetables : copied = {tt}
    BY DEF PlugInv, PlugTypes
  <2>2. copied = {} => Cardinality(copied) = 0
    BY FS_EmptySet
  <2>3. ASSUME NEW tt \in Timetables, copied = {tt} PROVE Cardinality(copied) = 1
    BY <2>3, FS_Singleton
  <2> QED
    BY <2>1, <2>2, <2>3
<1>2. plug.state \in {"on", "off", "unavailable"} /\ plug.at <= tickP /\ tickP \in Nat
  BY PlugNats DEF PlugInv, PlugTypes
<1>3. \A k \in openP : k[1] = "foreign" => k[2] \in tickP - ForeignKeep - 1..tickP
  BY <1>2, PlugNats DEF PlugInv, ListedInTime
<1>4. PlugTypeOK
  BY <1>1, <1>2, <1>3, Zenon DEF PlugInv, PlugTypes, SaysNoSchedules, PlugTypeOK
<1> QED
  BY <1>4, Zenon DEF PlugInv, PlugAlertsSafe

\* A change at an edge is near an edge of every day that has the edges of its own.
LEMMA EdgesStayExplained == PlugInv /\ [PlugNext]_plugVars => EdgesAreNotForeign
<1> SUFFICES ASSUME PlugInv, [PlugNext]_plugVars, NEW k \in NewForeign, k[2] \in byHa, ~(editedAt >= k[2]), copied' = {timetable},
                    \A t \in {k[2] - 1, k[2]} : Edges(timetable, t) = Edges(timetable, tickP)
             PROVE  FALSE
  BY Zenon DEF EdgesAreNotForeign
<1>0. PlugTypes /\ k \in openP' /\ k \notin openP /\ k[1] = "foreign"
  BY Zenon DEF PlugInv, NewForeign
<1>1. JudgesPlug
  BY <1>0, PlugMoves, Zenon DEF plugVars, TickP, Event
<1>2. Foreign(timetable) /\ k = <<"foreign", plug.at>>
  <2>0. <<"noSchedules", -1>>[1] # "foreign" /\ <<"unavail", -1>>[1] # "foreign"
    OBVIOUS
  <2>1. ~(copied' = {}) /\ \A tt : copied' = {tt} => tt = timetable
    OBVIOUS
  <2>2. k \notin Stays /\ k # <<"unavail", -1>>
    BY <1>0, <2>0, Zenon DEF Stays
  <2>3. k \in Raised(timetable)
    <3>1. k \notin Stays \cup {<<"unavail", -1>>}
      BY <2>2
    <3>2. \A tt : openP' = {x \in Stays : x[1] = "foreign"} \cup Raised(tt) => k \in Raised(tt)
      BY <1>0, <2>2, Zenon
    <3> QED
      BY <1>0, <1>1, <2>1, <2>2, <3>1, <3>2, JudgeIs, Zenon
  <2> QED
    BY <1>0, <2>3, RaisedIs, Zenon
<1>3. k[2] = plug.at /\ k[2] \in Nat /\ editedAt < k[2]
  BY <1>0, <1>2 DEF PlugTypes
<1>4. AtEdge(timetable, k[2])
  BY <1>3, Zenon DEF PlugInv, HaKeepsEdges
<1>5. PICK e \in Edges(timetable, k[2]) \cup Edges(timetable, k[2] - 1) : e[1] % DayLen = Clock(k[2])
  BY <1>3, <1>4, AtEdgeIs
<1>6. e \in Edges(timetable, tickP)
  BY <1>5
<1> QED
  BY <1>2, <1>3, <1>5, <1>6, Zenon DEF Foreign, NearEdge

\* PlugAlertsHold: a plug against the schedule that the run knows is listed, as a mismatch or as the change
\* that brought it there, and one that is still on after the end of its window is told, with whatever edits,
\* restarts, faults and lost snapshots (check_plugs, last_edge, near_edge, init_schedules).
THEOREM PlugAlertsStaySafe == HostSpec => []PlugAlertsHold
<1> DEFINE I == part = "plugAlerts" => PlugInv
<1>1. HostInit => I
  BY PartStarts, PlugStarts
<1>2. I /\ [HostNext]_hostVars => I'
  BY PartMoves, PlugStays
<1>3. I => PlugAlertsHold
  BY PlugInvIsEnough DEF PlugAlertsHold
<1> QED
  BY <1>1, <1>2, <1>3, PTL DEF HostSpec

-----------------------------------------------------------------------------
(* Watchers: the watchdogs that remember between runs.                     *)

LEMMA WatchNats ==
  /\ DownAfter \in Nat /\ DegradedAfter \in Nat /\ TransientRuns \in Nat /\ PersistRuns \in Nat
  /\ MaxLooks \in Nat /\ MaxNews \in Nat /\ MaxKills \in Nat /\ MaxLosses \in Nat
  /\ TransientRuns > 1 /\ PersistRuns > 0
  BY WatcherNumbers, Zenon

LEMMA CallsOf ==
  ASSUME NEW K, NEW k
  PROVE  /\ <<"alert", k>> \in Alerts(K) <=> k \in K
         /\ <<"clear", k>> \in Clears(K) <=> k \in K
         /\ <<"clear", k>> \notin Alerts(K) /\ <<"alert", k>> \notin Clears(K)
  BY DEF Alerts, Clears

LEMMA Topics ==
  /\ Listable \subseteq Topic /\ NewSockets \subseteq Topic /\ Troubles \subseteq Topic
  /\ \A n \in Nat : <<"release", n>> \in Topic /\ <<"release", n>> \notin Listable
  /\ \A k \in NewSockets \cup Troubles : ~Once(k)
  /\ \A k \in Listable : Once(k)
  /\ \A n \in Nat : Once(<<"release", n>>)
<1>1. Listable \subseteq Topic /\ NewSockets \subseteq Topic /\ Troubles \subseteq Topic /\ \A n \in Nat : <<"release", n>> \in Topic
  BY DEF Topic
<1>2. \A n \in Nat : <<"release", n>> \notin Listable
  BY DEF Listable
<1>3. \A k \in NewSockets : ~Once(k)
  BY DEF NewSockets, Once
<1>4. \A k \in Troubles : ~Once(k)
  BY DEF Troubles, Once
<1>5. \A k \in Listable : Once(k)
  BY <1>1 DEF Once, Listable
<1>6. \A n \in Nat : Once(<<"release", n>>)
  BY <1>1, Zenon DEF Once
<1> QED
  BY <1>1, <1>2, <1>3, <1>4, <1>5, <1>6, Zenon

LEMMA SentIs ==
  ASSUME NEW p \in Topic \X BOOLEAN
  PROVE  (p[2] /\ p = <<p[1], TRUE>>) \/ (~p[2] /\ p = <<p[1], FALSE>>)
<1>1. PICK x \in Topic, b \in BOOLEAN : p = <<x, b>>
  OBVIOUS
<1>2. CASE b = TRUE
  BY <1>1, <1>2
<1>3. CASE b = FALSE
  BY <1>1, <1>3
<1> QED
  BY <1>2, <1>3

LEMMA NeverIsNone == \A S \in SUBSET Listable : S # Never
<1> SUFFICES ASSUME NEW S \in SUBSET Listable, S = Never PROVE FALSE
  OBVIOUS
<1>1. <<"never">> \in Listable
  BY DEF Never
<1> QED
  BY <1>1 DEF Listable

LEMMA WatchStartsWell == WatchInit => WatchInv
<1> SUFFICES ASSUME WatchInit PROVE WatchInv
  OBVIOUS
<1>1. Calm \in Sight /\ EmptyFile \in StateFile /\ Calm.listed = {} /\ Calm.left = {}
  BY DEF Calm, Sight, EmptyFile, StateFile
<1>2. EmptyFile.devices = Never /\ EmptyFile.reverts = {} /\ EmptyFile.alerted = {} /\ EmptyFile.bad = 0 /\ EmptyFile.since = -1
      /\ EmptyFile.down = 0
  BY DEF EmptyFile
<1>3. NoRun.active = FALSE
  BY DEF NoRun
<1>4. lastRun \in [world : Sight, run : Nat] /\ lastRun.run = 0 /\ lastRun.world = Calm
  BY <1>1 DEF WatchInit
<1>5. NowOf(lastRun.world) = {}
  BY <1>4 DEF NowOf, Calm
<1>6. WatchTypes
  BY <1>1, <1>3, <1>4, WatchNats DEF WatchInit, WatchTypes
<1>7. Counted(stateFile) /\ Listed(stateFile)
  BY <1>1, <1>2 DEF WatchInit, Counted, Listed
<1>8. OnceOnly
  BY <1>1 DEF WatchInit, OnceOnly
<1>9. AlertsRecorded
  BY <1>2, <1>3, Zenon DEF WatchInit, AlertsRecorded
<1>10. Listening
  BY <1>3, <1>5 DEF WatchInit, Listening
<1>11. Drifting
  BY <1>2, <1>3 DEF WatchInit, Drifting
<1> QED
  BY <1>3, <1>6, <1>7, <1>8, <1>9, <1>10, <1>11 DEF WatchInv, WatchInit

-----------------------------------------------------------------------------
(* What a run decides.                                                     *)

\* Calls about the listed fit the lists; what the run will save was listed, and new names have an alert.
Sensible(e) ==
  /\ e.calls \subseteq {"alert", "clear"} \X Topic
  /\ \A k \in Topic : Once(k) /\ <<"alert", k>> \in e.calls => k \notin world.left
  /\ \A k \in Topic : Once(k) /\ <<"clear", k>> \in e.calls => k \in world.left
  /\ e.next \in StateFile /\ Listed(e.next)
  /\ e.next.down <= stateFile.down + 1 /\ e.next.bad <= stateFile.bad + 1 /\ e.next.since \in -1..looks
  /\ e.next.alerted = {} \/ \E S \in SUBSET Socket : e.next.alerted = {<<"new", S>>}
  /\ e.next.bad = 0 <=> e.next.since = -1
  /\ stateFile.devices # Never =>
       /\ e.next.devices # Never
       /\ \A k \in (e.next.devices \cap world.listed) \ stateFile.devices : <<"alert", k>> \in e.calls

LEMMA FieldsOf ==
  ASSUME NEW f \in StateFile
  PROVE  /\ f.devices \in (SUBSET Listable) \cup {Never} /\ f.reverts \in SUBSET Listable /\ f.release \in Int
         /\ f.down \in Nat /\ f.degraded \in Nat /\ f.alerted \in SUBSET NewSockets /\ f.bad \in Nat /\ f.since \in Int
  BY DEF StateFile

LEMMA FileWith ==
  ASSUME NEW f \in StateFile, NEW D \in SUBSET Listable, NEW R \in SUBSET Listable, NEW n \in Nat, NEW r \in Int
  PROVE  [f EXCEPT !.devices = D, !.reverts = R, !.down = 0, !.degraded = n, !.release = r] \in StateFile
<1> DEFINE g == [[f EXCEPT !.devices = D] EXCEPT !.reverts = R]
<1>1. g \in StateFile
  BY DEF StateFile
<1> HIDE DEF g
<1>2. [[[g EXCEPT !.down = 0] EXCEPT !.degraded = n] EXCEPT !.release = r] \in StateFile
  BY <1>1 DEF StateFile
<1> QED
  BY <1>2 DEF g, StateFile

LEMMA SightOf ==
  ASSUME NEW w \in Sight
  PROVE  /\ w.up \in BOOLEAN /\ w.token \in BOOLEAN /\ w.full \in BOOLEAN /\ w.listed \in SUBSET Listable /\ w.left \in SUBSET Listable
         /\ w.release \in Nat /\ w.logins \in {"few", "some", "many"} /\ w.degraded \in BOOLEAN
         /\ w.sockets \in SUBSET Socket /\ w.policy \in {"good", "bad", "unknown"}
  BY DEF Sight

LEMMA KeepsLists ==
  ASSUME Listed(stateFile), NEW e, e.next \in StateFile,
         e.next.devices = stateFile.devices, e.next.reverts = stateFile.reverts,
         e.calls \subseteq {"alert", "clear"} \X (NewSockets \cup Troubles),
         e.next.down <= stateFile.down + 1, e.next.bad <= stateFile.bad + 1, e.next.since \in -1..looks,
         e.next.alerted = {} \/ \E S \in SUBSET Socket : e.next.alerted = {<<"new", S>>},
         e.next.bad = 0 <=> e.next.since = -1
  PROVE  Sensible(e)
<1>1. \A k : \A a : <<a, k>> \in e.calls => k \in NewSockets \cup Troubles
  OBVIOUS
<1>2. e.calls \subseteq {"alert", "clear"} \X Topic
  BY Topics
<1>3. \A k \in Topic : Once(k) => <<"alert", k>> \notin e.calls /\ <<"clear", k>> \notin e.calls
  BY <1>1, Topics, Zenon
<1>4. Listed(e.next)
  BY Zenon DEF Listed
<1> QED
  BY <1>2, <1>3, <1>4 DEF Sensible

LEMMA TogglesOf ==
  ASSUME NEW k \in Topic, NEW b \in BOOLEAN, NEW T, k \in T
  PROVE  Toggle(b, k) \subseteq {"alert", "clear"} \X T
  BY DEF Toggle, Alerts, Clears

LEMMA OfIs ==
  ASSUME world \in Sight, NEW kind
  PROVE  Of(kind) \subseteq Listable /\ Of(kind) \subseteq world.listed
  BY SightOf DEF Of

LEMMA FullIsSensible ==
  ASSUME WatchTypes, Counted(stateFile), Listed(stateFile), world.listed \cap world.left = {}
  PROVE  Sensible(GatewayFull) /\ GatewayFull.next.alerted = stateFile.alerted
<1> DEFINE s == stateFile
           first == s.devices = Never
           released == s.release # -1 /\ world.release > s.release
           degraded == IF world.degraded THEN s.degraded + 1 ELSE 0
           recorded == IF first THEN {} ELSE s.devices
           x1 == Clears({<<"down">>, <<"token">>})
           x2 == IF first THEN {} ELSE Alerts(Of("device") \ recorded)
           x3 == Clears(recorded \ Of("device"))
           x4 == Alerts(Of("revert") \ s.reverts)
           x5 == Clears(s.reverts \ Of("revert"))
           x6 == IF released THEN Alerts({<<"release", world.release>>}) ELSE {}
           x7 == IF world.logins = "some" THEN {} ELSE Toggle(world.logins = "many", <<"logins">>)
           x8 == IF world.degraded /\ degraded < DegradedAfter THEN {} ELSE Toggle(world.degraded, <<"degraded">>)
           e == GatewayFull
<1>1. e.calls = x1 \cup x2 \cup x3 \cup x4 \cup x5 \cup x6 \cup x7 \cup x8
  BY DEF GatewayFull, Plan
<1>2. e.next = [s EXCEPT !.devices = Of("device"), !.reverts = Of("revert"), !.down = 0, !.degraded = degraded,
                         !.release = IF @ = -1 \/ released THEN world.release ELSE @]
  BY DEF GatewayFull, Plan
<1>3. /\ s \in StateFile /\ world \in Sight
      /\ s.devices \in (SUBSET Listable) \cup {Never} /\ s.reverts \in SUBSET Listable /\ s.release \in Int
      /\ s.degraded \in Nat /\ world.release \in Nat /\ world.left \subseteq Listable /\ s.down \in Nat /\ s.bad \in Nat
  BY FieldsOf, SightOf DEF WatchTypes
<1>4. recorded \subseteq Listable /\ recorded \subseteq world.listed \cup world.left /\ s.reverts \subseteq world.listed \cup world.left
  BY <1>3 DEF Listed
<1>5. /\ Of("device") \subseteq Listable /\ Of("device") \subseteq world.listed
      /\ Of("revert") \subseteq Listable /\ Of("revert") \subseteq world.listed
      /\ \A k \in world.listed : k[1] = "device" => k \in Of("device")
      /\ \A k \in world.listed : k[1] = "revert" => k \in Of("revert")
  BY <1>3, OfIs DEF Of
<1>6. degraded \in Nat
  BY <1>3
<1>7. /\ e.next \in StateFile
      /\ e.next.devices = Of("device") /\ e.next.reverts = Of("revert") /\ e.next.down = 0 /\ e.next.alerted = s.alerted
      /\ e.next.bad = s.bad /\ e.next.since = s.since
  <2> DEFINE r == IF s.release = -1 \/ released THEN world.release ELSE s.release
  <2>1. r \in Int
    BY <1>3
  <2>2. e.next = [s EXCEPT !.devices = Of("device"), !.reverts = Of("revert"), !.down = 0, !.degraded = degraded, !.release = r]
    BY <1>2
  <2> HIDE DEF degraded, r, e
  <2>3. e.next \in StateFile
    <3>1. Of("device") \in SUBSET Listable /\ Of("revert") \in SUBSET Listable
      BY <1>5, Zenon
    <3>2. [s EXCEPT !.devices = Of("device"), !.reverts = Of("revert"), !.down = 0, !.degraded = degraded, !.release = r] \in StateFile
      BY <3>1, <2>1, <1>3, <1>6, FileWith, Zenon
    <3> QED
      BY <3>2, <2>2, Zenon
  <2> QED
    BY <2>2, <2>3, <1>3 DEF StateFile
<1>8. /\ x1 \subseteq {"clear"} \X Troubles
      /\ x2 \subseteq {"alert"} \X Of("device") /\ x3 \subseteq {"clear"} \X (recorded \ Of("device"))
      /\ x4 \subseteq {"alert"} \X Of("revert") /\ x5 \subseteq {"clear"} \X (s.reverts \ Of("revert"))
      /\ x6 \subseteq {"alert"} \X {<<"release", world.release>>}
  BY DEF Alerts, Clears, Troubles
<1>9. x7 \subseteq {"alert", "clear"} \X Troubles /\ x8 \subseteq {"alert", "clear"} \X Troubles
  <2>1. <<"logins">> \in Troubles /\ <<"degraded">> \in Troubles /\ <<"logins">> \in Topic /\ <<"degraded">> \in Topic
    BY Topics DEF Troubles
  <2>2. \A b \in BOOLEAN : /\ Toggle(b, <<"logins">>) \subseteq {"alert", "clear"} \X Troubles
                           /\ Toggle(b, <<"degraded">>) \subseteq {"alert", "clear"} \X Troubles
    BY <2>1, TogglesOf
  <2>3. world.degraded \in BOOLEAN /\ (world.logins = "many") \in BOOLEAN
    BY <1>3, SightOf
  <2> QED
    BY <2>2, <2>3, Zenon
<1>10. \A k : /\ <<"alert", k>> \in e.calls => k \in Of("device") \cup Of("revert") \cup {<<"release", world.release>>} \cup Troubles
              /\ <<"clear", k>> \in e.calls => k \in (recorded \ Of("device")) \cup (s.reverts \ Of("revert")) \cup Troubles
  <2> HIDE DEF x1, x2, x3, x4, x5, x6, x7, x8, e, recorded
  <2> QED
    BY <1>1, <1>8, <1>9
<1>11. e.calls \subseteq {"alert", "clear"} \X Topic
  <2>1. <<"release", world.release>> \in Topic /\ recorded \subseteq Topic /\ s.reverts \subseteq Topic
        /\ Of("device") \subseteq Topic /\ Of("revert") \subseteq Topic /\ Troubles \subseteq Topic
    BY <1>3, <1>4, <1>5, Topics, Zenon
  <2> HIDE DEF x1, x2, x3, x4, x5, x6, x7, x8, e, recorded
  <2> QED
    BY <1>1, <1>8, <1>9, <2>1
<1>12. /\ \A k \in recorded \ Of("device") : k \in world.left
       /\ \A k \in s.reverts \ Of("revert") : k \in world.left
  BY <1>5 DEF Listed
<1>13. \A k \in Topic : Once(k) /\ <<"alert", k>> \in e.calls => k \notin world.left
  <2> SUFFICES ASSUME NEW k \in Topic, Once(k), <<"alert", k>> \in e.calls PROVE k \notin world.left
    OBVIOUS
  <2>1. CASE k \in Of("device") \cup Of("revert")
    BY <2>1, <1>5
  <2>2. CASE k = <<"release", world.release>>
    BY <2>2, <1>3, Topics
  <2>3. CASE k \in Troubles
    BY <2>3, Topics
  <2> HIDE DEF e
  <2> QED
    BY <1>10, <2>1, <2>2, <2>3
<1>14. \A k \in Topic : Once(k) /\ <<"clear", k>> \in e.calls => k \in world.left
  <2> HIDE DEF e, recorded
  <2> QED
    BY <1>10, <1>12, Topics
<1>15. Listed(e.next)
  BY <1>5, <1>7 DEF Listed, Of
<1>16. Of("device") # Never
  BY <1>5, NeverIsNone
<1>17. ASSUME s.devices # Never
       PROVE  \A k \in (e.next.devices \cap world.listed) \ s.devices : <<"alert", k>> \in e.calls
  <2> SUFFICES ASSUME NEW k \in Of("device"), k \notin s.devices PROVE <<"alert", k>> \in e.calls
    BY <1>7, Zenon
  <2>1. <<"alert", k>> \in Alerts(Of("device") \ recorded)
    BY <1>17, CallsOf
  <2> QED
    BY <1>1, <1>17, <2>1
<1>18. e.next.down <= s.down + 1 /\ e.next.bad <= s.bad + 1 /\ e.next.since \in -1..looks
  BY <1>3, <1>7 DEF Counted
<1>19. /\ e.next.alerted = {} \/ \E S \in SUBSET Socket : e.next.alerted = {<<"new", S>>}
       /\ e.next.bad = 0 <=> e.next.since = -1
  BY <1>7, Zenon DEF Counted
<1> HIDE DEF e
<1>20. Sensible(e)
  BY <1>7, <1>11, <1>13, <1>14, <1>15, <1>16, <1>17, <1>18, <1>19 DEF Sensible
<1> QED
  BY <1>7, <1>20 DEF e

LEMMA DriftWith ==
  ASSUME NEW f \in StateFile, NEW b \in Nat, NEW n \in Int
  PROVE  [f EXCEPT !.bad = b, !.since = n] \in StateFile
<1> DEFINE h == [f EXCEPT !.bad = b]
<1>1. h \in StateFile
  BY DEF StateFile
<1> HIDE DEF h
<1>2. [h EXCEPT !.since = n] \in StateFile
  BY <1>1 DEF StateFile
<1> QED
  BY <1>2 DEF h, StateFile

LEMMA GatewayIs ==
  ASSUME WatchTypes, Counted(stateFile), Listed(stateFile), world.listed \cap world.left = {}
  PROVE  Sensible(GatewayEvaluate)
<1> DEFINE e == GatewayEvaluate
<1> SUFFICES Sensible(e)
  OBVIOUS
<1>1. stateFile \in StateFile /\ stateFile.down \in Nat /\ stateFile.bad \in Nat /\ world \in Sight
  BY FieldsOf DEF WatchTypes
<1>2. stateFile.since \in -1..looks
  BY DEF Counted
<1>3. {<<"down">>, <<"token">>} \subseteq Troubles
  BY DEF Troubles
<1>4. CASE world.up /\ world.token /\ world.full
  BY <1>4, FullIsSensible DEF GatewayEvaluate
<1>5. ASSUME e.calls \subseteq {"alert", "clear"} \X Troubles,
             NEW n \in {0, stateFile.down + 1}, e.next = [stateFile EXCEPT !.down = n]
      PROVE  Sensible(e)
  <2> HIDE DEF e
  <2>0. n \in Nat /\ n <= stateFile.down + 1
    BY <1>1
  <2>1. /\ e.next \in StateFile /\ e.next.devices = stateFile.devices /\ e.next.reverts = stateFile.reverts
        /\ e.next.down = n /\ e.next.bad = stateFile.bad /\ e.next.since = stateFile.since
        /\ e.next.alerted = stateFile.alerted
    BY <1>1, <1>5, <2>0 DEF StateFile
  <2>2. e.calls \subseteq {"alert", "clear"} \X (NewSockets \cup Troubles)
    BY <1>5
  <2>3. e.next.alerted = {} \/ \E S \in SUBSET Socket : e.next.alerted = {<<"new", S>>}
    BY <2>1, Zenon DEF Counted
  <2>4. e.next.bad = 0 <=> e.next.since = -1
    BY <2>1, Zenon DEF Counted
  <2>5. e.next.down <= stateFile.down + 1 /\ e.next.bad <= stateFile.bad + 1 /\ e.next.since \in -1..looks
    BY <2>0, <2>1, <1>1, <1>2
  <2> QED
    BY <2>1, <2>2, <2>3, <2>4, <2>5, KeepsLists
<1>6. CASE ~world.up
  <2>1. e.next = [stateFile EXCEPT !.down = stateFile.down + 1]
        /\ e.calls = (IF stateFile.down + 1 >= DownAfter THEN Alerts({<<"down">>}) ELSE {})
    BY <1>6 DEF GatewayEvaluate, Plan
  <2>2. e.calls \subseteq {"alert", "clear"} \X Troubles
    BY <2>1, <1>3 DEF Alerts
  <2>3. stateFile.down + 1 \in {0, stateFile.down + 1}
    OBVIOUS
  <2> HIDE DEF e
  <2> QED
    BY <2>1, <2>2, <2>3, <1>5, Zenon
<1>7. CASE world.up /\ ~world.token
  <2>1. e.next = [stateFile EXCEPT !.down = 0] /\ e.calls = Clears({<<"down">>}) \cup Alerts({<<"token">>})
    BY <1>7 DEF GatewayEvaluate, Plan
  <2>2. e.calls \subseteq {"alert", "clear"} \X Troubles
    BY <2>1, <1>3 DEF Alerts, Clears
  <2>3. 0 \in {0, stateFile.down + 1}
    OBVIOUS
  <2> HIDE DEF e
  <2> QED
    BY <2>1, <2>2, <2>3, <1>5, Zenon
<1>8. CASE world.up /\ world.token /\ ~world.full
  <2>1. e.next = [stateFile EXCEPT !.down = 0] /\ e.calls = Clears({<<"down">>, <<"token">>})
    BY <1>8 DEF GatewayEvaluate, Plan
  <2>2. e.calls \subseteq {"alert", "clear"} \X Troubles
    BY <2>1, <1>3 DEF Clears
  <2>3. 0 \in {0, stateFile.down + 1}
    OBVIOUS
  <2> HIDE DEF e
  <2> QED
    BY <2>1, <2>2, <2>3, <1>5, Zenon
<1> QED
  BY <1>1, SightOf, <1>4, <1>6, <1>7, <1>8

LEMMA ListenerIs ==
  ASSUME WatchTypes, Counted(stateFile), Listed(stateFile)
  PROVE  /\ Sensible(ListenerEvaluate)
         /\ ListenerEvaluate.next.alerted = NowOf(world)
         /\ \A k : <<"alert", k>> \in ListenerEvaluate.calls <=> k \in NowOf(world)
         /\ \A k : <<"clear", k>> \in ListenerEvaluate.calls <=> k \in stateFile.alerted \ NowOf(world)
<1> DEFINE e == ListenerEvaluate
           now == NowOf(world)
<1>1. e.calls = Alerts(now) \cup Clears(stateFile.alerted \ now) /\ e.next = [stateFile EXCEPT !.alerted = now]
  BY DEF ListenerEvaluate, Plan, NowOf
<1>2. stateFile \in StateFile /\ stateFile.down \in Nat /\ stateFile.bad \in Nat /\ world.sockets \in SUBSET Socket
      /\ stateFile.alerted \subseteq NewSockets
  BY FieldsOf, SightOf DEF WatchTypes
<1>3. now \subseteq NewSockets /\ (now = {} \/ \E S \in SUBSET Socket : now = {<<"new", S>>})
  BY <1>2 DEF NowOf, NewSockets
<1> HIDE DEF e, now
<1>4. /\ e.next \in StateFile /\ e.next.devices = stateFile.devices /\ e.next.reverts = stateFile.reverts
      /\ e.next.down = stateFile.down /\ e.next.bad = stateFile.bad /\ e.next.since = stateFile.since
      /\ e.next.alerted = now
  BY <1>1, <1>2, <1>3 DEF StateFile
<1>5. e.calls \subseteq {"alert", "clear"} \X (NewSockets \cup Troubles)
  BY <1>1, <1>2, <1>3 DEF Alerts, Clears
<1>6. e.next.alerted = {} \/ \E S \in SUBSET Socket : e.next.alerted = {<<"new", S>>}
  BY <1>3, <1>4, Zenon
<1>7. e.next.bad = 0 <=> e.next.since = -1
  BY <1>4, Zenon DEF Counted
<1>8. e.next.down <= stateFile.down + 1 /\ e.next.bad <= stateFile.bad + 1 /\ e.next.since \in -1..looks
  BY <1>2, <1>4 DEF Counted
<1>9. Sensible(e)
  BY <1>4, <1>5, <1>6, <1>7, <1>8, KeepsLists
<1>10. /\ \A k : <<"alert", k>> \in e.calls <=> k \in now
       /\ \A k : <<"clear", k>> \in e.calls <=> k \in stateFile.alerted \ now
  BY <1>1 DEF Alerts, Clears
<1> QED
  BY <1>4, <1>9, <1>10 DEF e, now

LEMMA DriftIs ==
  ASSUME WatchTypes, Counted(stateFile), Listed(stateFile)
  PROVE  /\ Sensible(DriftEvaluate)
         /\ \A c \in DriftEvaluate.calls : c[2] \in {<<"drift">>, <<"persistent">>}
         /\ stateFile.bad = 0 => DriftEvaluate.calls = {}
         /\ world.policy = "good" => DriftEvaluate.next.bad = 0
         /\ DriftEvaluate.next.bad = 0 /\ stateFile.bad # 0 =>
              DriftEvaluate.calls = Clears({<<"drift">>, <<"persistent">>})
<1> DEFINE e == DriftEvaluate
           since == IF stateFile.since = -1 THEN looks ELSE stateFile.since
           both == {<<"drift">>, <<"persistent">>}
           shown == {k \in both : IF k = <<"drift">> THEN stateFile.bad + 1 >= TransientRuns ELSE looks - since >= PersistRuns}
<1>1. stateFile \in StateFile /\ stateFile.down \in Nat /\ stateFile.bad \in Nat /\ looks \in Nat /\ stateFile.since \in -1..looks
  BY FieldsOf DEF WatchTypes, Counted
<1>2. /\ world.policy = "unknown" => e.calls = {} /\ e.next = stateFile
      /\ world.policy = "good" => e.calls = (IF stateFile.bad > 0 THEN Clears(both) ELSE {})
                                  /\ e.next = [stateFile EXCEPT !.bad = 0, !.since = -1]
      /\ world.policy = "bad" => e.calls = Alerts(shown) /\ e.next = [stateFile EXCEPT !.bad = stateFile.bad + 1, !.since = since]
  BY DEF DriftEvaluate, Plan
<1>3. world.policy \in {"good", "bad", "unknown"}
  BY SightOf DEF WatchTypes
<1>4. since \in 0..looks
  BY <1>1
<1>5. stateFile.bad = 0 <=> stateFile.since = -1
  BY Zenon DEF Counted
<1>6. stateFile.bad = 0 => shown = {}
  BY <1>1, <1>5, WatchNats
<1>7. shown \subseteq both /\ both \subseteq Troubles
  BY DEF Troubles
<1>8. stateFile.alerted = {} \/ \E S \in SUBSET Socket : stateFile.alerted = {<<"new", S>>}
  BY Zenon DEF Counted
<1> HIDE DEF e, since, shown, both
<1>9. /\ e.next \in StateFile /\ e.next.devices = stateFile.devices /\ e.next.reverts = stateFile.reverts
      /\ e.next.down = stateFile.down /\ e.next.alerted = stateFile.alerted
      /\ (e.next.bad = stateFile.bad /\ e.next.since = stateFile.since) \/ (e.next.bad = 0 /\ e.next.since = -1)
         \/ (e.next.bad = stateFile.bad + 1 /\ e.next.since = since)
  <2>1. CASE world.policy = "unknown"
    BY <2>1, <1>1, <1>2
  <2>2. CASE world.policy = "good"
    <3>1. \A b \in Nat, n \in Int : [stateFile EXCEPT !.bad = b, !.since = n] \in StateFile
      BY <1>1, DriftWith, Zenon
    <3>2. 0 \in Nat /\ -1 \in Int
      OBVIOUS
    <3>3. [stateFile EXCEPT !.bad = 0, !.since = -1] \in StateFile
      BY <3>1, <3>2, Zenon
    <3> QED
      BY <3>3, <2>2, <1>1, <1>2 DEF StateFile
  <2>3. CASE world.policy = "bad"
    <3>1. stateFile.bad + 1 \in Nat /\ since \in Int
      BY <1>1, <1>4
    <3>2. [stateFile EXCEPT !.bad = stateFile.bad + 1, !.since = since] \in StateFile
      BY <3>1, <1>1, DriftWith, Zenon
    <3> QED
      BY <3>1, <3>2, <2>3, <1>1, <1>2 DEF StateFile
  <2> QED
    BY <1>3, <2>1, <2>2, <2>3
<1>10. e.calls \subseteq {"alert", "clear"} \X both
  BY <1>2, <1>3, <1>7 DEF Alerts, Clears
<1>11. e.calls \subseteq {"alert", "clear"} \X (NewSockets \cup Troubles)
  BY <1>7, <1>10
<1>12. e.next.alerted = {} \/ \E S \in SUBSET Socket : e.next.alerted = {<<"new", S>>}
  BY <1>8, <1>9, Zenon
<1>13. e.next.bad = 0 <=> e.next.since = -1
  BY <1>1, <1>4, <1>5, <1>9
<1>14. e.next.down <= stateFile.down + 1 /\ e.next.bad <= stateFile.bad + 1 /\ e.next.since \in -1..looks
  BY <1>1, <1>4, <1>9
<1>15. Sensible(e)
  BY <1>9, <1>11, <1>12, <1>13, <1>14, KeepsLists
<1>16. stateFile.bad = 0 => e.calls = {}
  BY <1>1, <1>2, <1>3, <1>6 DEF Alerts
<1>17. world.policy = "good" => e.next.bad = 0
  BY <1>1, <1>2 DEF StateFile
<1>18. world.policy = "bad" => e.next.bad = stateFile.bad + 1
  BY <1>1, <1>2 DEF StateFile
<1>19. e.next.bad = 0 /\ stateFile.bad # 0 => e.calls = Clears(both)
  BY <1>1, <1>2, <1>3, <1>18
<1>20. \A c \in e.calls : c[2] \in both
  BY <1>10
<1> QED
  BY <1>15, <1>16, <1>17, <1>19, <1>20 DEF e, both

LEMMA EvaluatedIs ==
  ASSUME WatchTypes, Counted(stateFile), Listed(stateFile), world.listed \cap world.left = {}
  PROVE  Sensible(Evaluated)
<1>1. watcher \in {"gateway", "listener", "drift"}
  BY DEF WatchTypes
<1> QED
  BY <1>1, GatewayIs, ListenerIs, DriftIs DEF Evaluated

-----------------------------------------------------------------------------
(* The steps one by one.                                                   *)

LEMMA ListingIs ==
  ASSUME world \in Sight, world.listed \cap world.left = {}, NEW k \in Listable, Listing(k)
  PROVE  /\ world' \in Sight /\ world.left \subseteq world'.left /\ world'.listed \cap world'.left = {}
         /\ world.listed \cup world.left \subseteq world'.listed \cup world'.left
         /\ world'.listed \cap (world.listed \cup world.left) \subseteq world.listed
<1>1. world.listed \in SUBSET Listable /\ world.left \in SUBSET Listable
  BY SightOf
<1>2. CASE k \notin world.listed \cup world.left /\ world' = [world EXCEPT !.listed = @ \cup {k}]
  <2>1. world' \in Sight /\ world'.listed = world.listed \cup {k} /\ world'.left = world.left
    BY <1>1, <1>2 DEF Sight
  <2> QED
    BY <1>2, <2>1
<1>3. CASE k \in world.listed /\ world' = [world EXCEPT !.listed = @ \ {k}, !.left = @ \cup {k}]
  <2> DEFINE v == [world EXCEPT !.listed = @ \ {k}]
  <2>1. v \in Sight /\ v.listed = world.listed \ {k} /\ v.left = world.left
    BY <1>1 DEF Sight
  <2>2. world' = [v EXCEPT !.left = v.left \cup {k}]
    BY <1>3 DEF Sight
  <2> HIDE DEF v
  <2>3. world' \in Sight /\ world'.listed = world.listed \ {k} /\ world'.left = world.left \cup {k}
    BY <1>1, <2>1, <2>2 DEF Sight
  <2> QED
    BY <1>3, <2>3
<1> QED
  BY <1>2, <1>3 DEF Listing

LEMMA WorldMoves ==
  ASSUME world \in Sight, world.listed \cap world.left = {}, WorldChanges
  PROVE  /\ world' \in Sight /\ world.left \subseteq world'.left /\ world'.listed \cap world'.left = {}
         /\ world.listed \cup world.left \subseteq world'.listed \cup world'.left
         /\ world'.listed \cap (world.listed \cup world.left) \subseteq world.listed
<1>1. CASE \E k \in {"device", "revert"} \X Device : Listing(k)
  BY <1>1, ListingIs DEF Listable
<1>2. ASSUME world' \in Sight, world'.listed = world.listed, world'.left = world.left
      PROVE  /\ world' \in Sight /\ world.left \subseteq world'.left /\ world'.listed \cap world'.left = {}
             /\ world.listed \cup world.left \subseteq world'.listed \cup world'.left
             /\ world'.listed \cap (world.listed \cup world.left) \subseteq world.listed
  BY <1>2
<1>3. CASE \/ world' = [world EXCEPT !.up = ~@]
           \/ world' = [world EXCEPT !.token = ~@]
           \/ world' = [world EXCEPT !.full = ~@]
           \/ world' = [world EXCEPT !.degraded = ~@]
  <2>1. \A b \in BOOLEAN : /\ [world EXCEPT !.up = b] \in Sight /\ [world EXCEPT !.token = b] \in Sight
                           /\ [world EXCEPT !.full = b] \in Sight /\ [world EXCEPT !.degraded = b] \in Sight
    BY DEF Sight
  <2>2. (~world.up) \in BOOLEAN /\ (~world.token) \in BOOLEAN /\ (~world.full) \in BOOLEAN /\ (~world.degraded) \in BOOLEAN
    OBVIOUS
  <2>3. world' \in Sight
    BY <1>3, <2>1, <2>2, Zenon
  <2>4. world'.listed = world.listed /\ world'.left = world.left
    BY <1>3 DEF Sight
  <2> QED
    BY <2>3, <2>4, <1>2
<1>4. CASE world' = [world EXCEPT !.release = @ + 1]
  BY <1>2, <1>4 DEF Sight
<1>5. CASE \E x \in {"few", "some", "many"} : x # world.logins /\ world' = [world EXCEPT !.logins = x]
  BY <1>2, <1>5 DEF Sight
<1>6. CASE \E S \in SUBSET Socket : S # world.sockets /\ world' = [world EXCEPT !.sockets = S]
  BY <1>2, <1>6 DEF Sight
<1>7. CASE \E x \in {"good", "bad", "unknown"} : x # world.policy /\ world' = [world EXCEPT !.policy = x]
  BY <1>2, <1>7 DEF Sight
<1> QED
  BY <1>1, <1>3, <1>4, <1>5, <1>6, <1>7 DEF WorldChanges

LEMMA WorldChangesStays == WatchInv /\ WorldChanges => WatchInv'
<1> SUFFICES ASSUME WatchInv, WorldChanges PROVE WatchInv'
  OBVIOUS
<1> USE DEF WatchInv
<1>1. /\ world' \in Sight /\ world.left \subseteq world'.left /\ world'.listed \cap world'.left = {}
      /\ world.listed \cup world.left \subseteq world'.listed \cup world'.left
      /\ world'.listed \cap (world.listed \cup world.left) \subseteq world.listed
  BY WorldMoves DEF WatchTypes, OnceOnly
<1>2. /\ watcher' = watcher /\ stateFile' = stateFile /\ todo' = todo /\ found' = found /\ alertW' = alertW /\ toldW' = toldW
      /\ looks' = looks /\ kills' = kills /\ lastRun' = lastRun /\ initial' = initial /\ tellings' = tellings
      /\ orphans' = orphans /\ sent' = sent /\ unmarked' = unmarked /\ news' \in 0..MaxNews
  BY WatchNats DEF WorldChanges, WatchTypes
<1>3. WatchTypes'
  BY <1>1, <1>2, Zenon DEF WatchTypes
<1>4. Counted(stateFile)' /\ (found.active => Counted(found.next))'
  BY <1>2, Zenon DEF Counted
<1>5. Listed(stateFile)' /\ (found.active => Listed(found.next))'
  BY <1>1, <1>2 DEF Listed
<1>6. OnceOnly'
  BY <1>1, <1>2 DEF OnceOnly, Single, Accounted, Once
<1>7. AlertsRecorded'
  <2>1. stateFile.devices # Never => stateFile.devices \cap world'.listed \subseteq stateFile.devices \cap world.listed
    BY <1>1 DEF Listed
  <2>2. found.active /\ stateFile.devices # Never =>
          found.next.devices \cap world'.listed \subseteq found.next.devices \cap world.listed
    BY <1>1 DEF Listed, AlertsRecorded
  <2> QED
    BY <1>2, <2>1, <2>2 DEF AlertsRecorded
<1>8. Listening' /\ Drifting'
  BY <1>2, Zenon DEF Listening, Drifting
<1> QED
  BY <1>3, <1>4, <1>5, <1>6, <1>7, <1>8, Zenon

LEMMA RunStartsStays == WatchInv /\ WatchStarts => WatchInv'
<1> SUFFICES ASSUME WatchInv, WatchStarts PROVE WatchInv'
  OBVIOUS
<1> DEFINE e == Evaluated
<1>1. /\ WatchTypes /\ Counted(stateFile) /\ Listed(stateFile) /\ OnceOnly /\ AlertsRecorded /\ Listening /\ Drifting
      /\ ~found.active
  BY DEF WatchInv, WatchStarts
<1>2. Sensible(e)
  BY <1>1, EvaluatedIs DEF OnceOnly
<1>3. /\ watcher' = watcher /\ stateFile' = stateFile /\ world' = world /\ alertW' = alertW /\ toldW' = toldW
      /\ looks' = looks + 1 /\ looks < MaxLooks /\ news' = news /\ kills' = kills /\ lastRun' = lastRun /\ initial' = initial
      /\ tellings' = tellings /\ orphans' = orphans /\ sent' = sent /\ unmarked' = unmarked
      /\ todo' = {c \in e.calls : ~Idle(c)} /\ found' = [active |-> TRUE, saw |-> world, next |-> e.next]
  BY DEF WatchStarts
<1>4. watcher = "listener" => e = ListenerEvaluate
  BY DEF Evaluated
<1>5. watcher = "drift" => e = DriftEvaluate
  BY DEF Evaluated
<1> HIDE DEF e
<1>6. /\ e.calls \subseteq {"alert", "clear"} \X Topic /\ e.next \in StateFile /\ world \in Sight /\ stateFile \in StateFile
      /\ looks \in Nat /\ looks \in 0..MaxLooks /\ stateFile.down \in Nat /\ stateFile.bad \in Nat /\ e.next.down \in Nat /\ e.next.bad \in Nat
  BY <1>1, <1>2, FieldsOf, WatchNats DEF Sensible, WatchTypes
<1>7. found'.active /\ found'.saw = world /\ found'.next = e.next
  BY <1>3
<1>8. \A k : /\ <<"alert", k>> \in todo' <=> <<"alert", k>> \in e.calls /\ k \notin toldW
             /\ <<"clear", k>> \in todo' <=> <<"clear", k>> \in e.calls /\ k \in alertW
  BY <1>3 DEF Idle, Due
<1>9. todo' \subseteq e.calls
  BY <1>3
<1>10. WatchTypes'
  <2>1. todo' \subseteq {"alert", "clear"} \X Topic
    BY <1>6, <1>9
  <2>2. looks' \in 0..MaxLooks
    BY <1>3, <1>6, WatchNats
  <2>3. lastRun.run \in Nat /\ lastRun.run <= looks
    BY <1>1 DEF WatchTypes
  <2>4. lastRun'.run < looks'
    BY <1>3, <1>6, <2>3
  <2>5. found' \in [active : {TRUE}, saw : Sight, next : StateFile]
    BY <1>3, <1>6
  <2>6. sent' = NoneSent
    BY <1>1, <1>3 DEF WatchTypes
  <2> QED
    BY <1>1, <1>3, <1>7, <2>1, <2>2, <2>4, <2>5, <2>6, Zenon DEF WatchTypes
<1>11. Counted(stateFile)'
  <2>1. stateFile.down <= looks /\ stateFile.bad <= looks /\ stateFile.since \in -1..looks
    BY <1>1, Zenon DEF Counted
  <2>2. stateFile.down <= looks' /\ stateFile.bad <= looks' /\ stateFile.since \in -1..looks'
    BY <1>3, <1>6, <2>1, SMT
  <2>3. /\ stateFile.alerted = {} \/ \E S \in SUBSET Socket : stateFile.alerted = {<<"new", S>>}
        /\ stateFile.bad = 0 <=> stateFile.since = -1
    BY <1>1, Zenon DEF Counted
  <2> QED
    BY <1>3, <2>2, <2>3, Zenon DEF Counted
<1>12. Counted(found.next)'
  <2>1. e.next.down <= looks' /\ e.next.bad <= looks' /\ e.next.since \in -1..looks'
    BY <1>1, <1>2, <1>3, <1>6 DEF Counted, Sensible
  <2>2. e.next.alerted = {} \/ \E S \in SUBSET Socket : e.next.alerted = {<<"new", S>>}
    BY <1>2, Zenon DEF Sensible
  <2>3. e.next.bad = 0 <=> e.next.since = -1
    BY <1>2, Zenon DEF Sensible
  <2> QED
    BY <1>7, <2>1, <2>2, <2>3, Zenon DEF Counted
<1>13. Listed(stateFile)' /\ Listed(found.next)'
  BY <1>1, <1>2, <1>3, <1>7, Zenon DEF Listed, Sensible
<1>14. OnceOnly'
  <2>1. \A k \in Topic : Once(k) /\ <<"clear", k>> \in todo' => k \in world.left /\ <<"alert", k>> \notin todo'
    BY <1>2, <1>8, Zenon DEF Sensible
  <2>2. \A m \in tellings : Single(m[1]) => m[1] \in toldW \/ (m[1] \in world.left /\ <<"alert", m[1]>> \notin todo')
    <3> SUFFICES ASSUME NEW m \in tellings, Single(m[1]), m[1] \notin toldW
                 PROVE  m[1] \in world.left /\ <<"alert", m[1]>> \notin todo'
      OBVIOUS
    <3>1. sent # <<m[1], TRUE>>
      <4>1. todo = {}
        BY <1>1 DEF WatchTypes
      <4>2. ASSUME sent = <<m[1], TRUE>> PROVE FALSE
        <5>1. sent \in {NoneSent} \cup (Topic \X BOOLEAN) /\ sent = NoneSent
          BY <1>1, <4>1, Zenon DEF WatchTypes
        <5> QED
          BY <4>2, <5>1 DEF NoneSent
      <4> QED
        BY <4>2
    <3>2. Once(m[1]) /\ Accounted(m[1])
      BY <1>1, <3>1, Zenon DEF OnceOnly, Single
    <3>3. m[1] \in Topic /\ m[1] \in world.left
      BY <3>2 DEF Accounted, Once
    <3> QED
      BY <3>2, <3>3, <1>2, <1>8, Zenon DEF Sensible
  <2>3. \A k \in Topic : <<"alert", k>> \in todo' => k \notin toldW
    BY <1>8, Zenon
  <2>4. world.listed \cap world.left = {} /\ \A m, n \in tellings : m[1] = n[1] /\ Single(m[1]) => m[2] = n[2]
    BY <1>1 DEF OnceOnly
  <2> QED
    BY <1>3, <2>1, <2>2, <2>3, <2>4, Zenon DEF OnceOnly, Single, Accounted
<1>15. AlertsRecorded'
  <2>1. ASSUME stateFile.devices # Never
        PROVE  \A k \in (e.next.devices \cap world.listed) \ initial : k \in alertW \/ <<"alert", k>> \in todo'
    <3> SUFFICES ASSUME NEW k \in e.next.devices, k \in world.listed, k \notin initial, k \notin alertW
                 PROVE  <<"alert", k>> \in todo'
      BY Zenon
    <3>1. k \notin stateFile.devices
      BY <1>1, <2>1 DEF AlertsRecorded
    <3>2. <<"alert", k>> \in e.calls
      BY <1>2, <2>1, <3>1 DEF Sensible
    <3>3. k \notin toldW
      BY <1>1 DEF WatchTypes
    <3> QED
      BY <1>8, <3>2, <3>3
  <2>2. stateFile.devices # Never => e.next.devices # Never
    BY <1>2 DEF Sensible
  <2>3. stateFile.devices # Never => (stateFile.devices \cap world.listed) \ initial \subseteq alertW
    BY <1>1 DEF AlertsRecorded
  <2> QED
    BY <1>3, <1>7, <2>1, <2>2, <2>3 DEF AlertsRecorded
<1>16. Listening'
  <2> SUFFICES ASSUME watcher = "listener" PROVE Listening'
    BY <1>3 DEF Listening
  <2>1. /\ e.next.alerted = NowOf(world)
        /\ \A k : <<"alert", k>> \in e.calls <=> k \in NowOf(world)
        /\ \A k : <<"clear", k>> \in e.calls <=> k \in stateFile.alerted \ NowOf(world)
    BY <1>1, <1>4, ListenerIs, Zenon
  <2>2. NowOf(world)' = NowOf(world)
    BY <1>3 DEF NowOf
  <2>3. alertW \subseteq stateFile.alerted \cup orphans /\ toldW \subseteq alertW
    BY <1>1 DEF Listening, WatchTypes
  <2>4. NowOf(found.saw)' = NowOf(world)
    BY <1>7, <1>3 DEF NowOf
  <2>5. /\ \A k \in NowOf(world) : (k \in alertW \/ <<"alert", k>> \in todo') /\ <<"clear", k>> \notin todo'
        /\ \A k \in alertW \ NowOf(world) : k \in stateFile.alerted => <<"clear", k>> \in todo'
        /\ \A k \in Topic : <<"alert", k>> \in todo' => k \in NowOf(world)
    BY <1>8, <2>1, <2>3
  <2>6. found'.next.alerted = NowOf(world)
    BY <1>7, <2>1
  <2>7. alertW \subseteq stateFile.alerted \cup orphans \cup NowOf(world)
    BY <2>3
  <2> QED
    BY <1>3, <1>7, <2>4, <2>5, <2>6, <2>7, Zenon DEF Listening
<1>17. Drifting'
  <2> SUFFICES ASSUME watcher = "drift" PROVE Drifting'
    BY <1>3 DEF Drifting
  <2> DEFINE both == {<<"drift">>, <<"persistent">>}
  <2>1. /\ \A c \in e.calls : c[2] \in both
        /\ stateFile.bad = 0 => e.calls = {}
        /\ world.policy = "good" => e.next.bad = 0
        /\ e.next.bad = 0 /\ stateFile.bad # 0 => e.calls = Clears(both)
    BY <1>1, <1>5, DriftIs, Zenon
  <2>2. alertW \subseteq both /\ (stateFile.bad = 0 => alertW = {})
    BY <1>1 DEF Drifting
  <2> HIDE DEF both
  <2>3. stateFile.bad = 0 => todo' = {}
    BY <1>9, <2>1
  <2>4. ASSUME e.next.bad = 0 PROVE (\A k \in alertW : <<"clear", k>> \in todo') /\ \A c \in todo' : c[1] # "alert"
    <3>1. CASE stateFile.bad = 0
      BY <2>2, <2>3, <3>1
    <3>2. CASE stateFile.bad # 0
      <4>1. e.calls = Clears(both)
        BY <2>1, <2>4, <3>2
      <4>2. \A c \in todo' : c[1] # "alert"
        BY <1>9, <4>1 DEF Clears
      <4> QED
        BY <1>8, <2>2, <4>1, <4>2, CallsOf
    <3> QED
      BY <3>1, <3>2
  <2>5. \A c \in todo' : c[2] \in both
    BY <1>9, <2>1
  <2> QED
    BY <1>3, <1>7, <2>1, <2>2, <2>3, <2>4, <2>5, Zenon DEF Drifting, both
<1> QED
  BY <1>7, <1>10, <1>11, <1>12, <1>13, <1>14, <1>15, <1>16, <1>17 DEF WatchInv

LEMMA SendsAlertStays == WatchInv /\ SendsAlert => WatchInv'
<1> SUFFICES ASSUME WatchInv, SendsAlert PROVE WatchInv'
  OBVIOUS
<1>1. /\ WatchTypes /\ Counted(stateFile) /\ Listed(stateFile) /\ OnceOnly /\ AlertsRecorded /\ Listening /\ Drifting
      /\ found.active => Counted(found.next) /\ Listed(found.next)
  BY DEF WatchInv
<1>2. /\ watcher' = watcher /\ world' = world /\ stateFile' = stateFile /\ todo' = todo /\ found' = found /\ alertW' = alertW
      /\ toldW' = toldW /\ looks' = looks /\ news' = news /\ kills' = kills /\ lastRun' = lastRun /\ initial' = initial
      /\ orphans' = orphans /\ sent = NoneSent
  BY DEF SendsAlert
<1>3. PICK c \in todo, heard \in BOOLEAN, through \in BOOLEAN :
        /\ c[1] = "alert" /\ Due(c[2]) /\ (heard => through) /\ sent' = <<c[2], heard>>
        /\ tellings' = IF through THEN tellings \cup {<<c[2], looks>>} ELSE tellings
        /\ unmarked' = IF through /\ ~heard THEN unmarked \cup {c[2]} ELSE unmarked
  BY Zenon DEF SendsAlert
<1> DEFINE k == c[2]
<1>4. k \in Topic /\ <<"alert", k>> \in todo /\ k \notin toldW
  <2>1. c \in {"alert", "clear"} \X Topic /\ c[1] = "alert"
    BY <1>1, <1>3 DEF WatchTypes
  <2>2. c = <<"alert", c[2]>> /\ c[2] \in Topic
    BY <2>1
  <2> QED
    BY <1>3, <2>2 DEF Due
<1>5. looks \in Nat
  BY <1>1, WatchNats DEF WatchTypes
<1>6. /\ sent' = <<k, heard>> /\ unmarked \subseteq unmarked'
      /\ tellings' = tellings \/ (tellings' = tellings \cup {<<k, looks>>} /\ (heard \/ k \in unmarked'))
  BY <1>3
<1> HIDE DEF k
<1>7. WatchTypes'
  <2>1. sent' \in Topic \X BOOLEAN /\ sent'[1] = k
    BY <1>3, <1>4, <1>6
  <2>2. tellings' \subseteq Topic \X Nat
    BY <1>1, <1>4, <1>5, <1>6 DEF WatchTypes
  <2> QED
    BY <1>1, <1>2, <1>4, <2>1, <2>2, Zenon DEF WatchTypes
\* What was told of k before was told with its answer lost: a told one is not due, and one that left the list is not called.
<1>8. \A m \in tellings : m[1] = k => ~Single(k)
  <2> SUFFICES ASSUME NEW m \in tellings, m[1] = k, Single(k) PROVE FALSE
    OBVIOUS
  <2>1. Accounted(k) \/ sent = <<k, TRUE>>
    BY <1>1, Zenon DEF OnceOnly
  <2>2. sent # <<k, TRUE>>
    BY <1>2 DEF NoneSent
  <2> QED
    BY <1>4, <2>1, <2>2, Zenon DEF Accounted
<1>9. OnceOnly'
  <2>1. \A x : Single(x)' => Single(x)
    BY <1>6 DEF Single, Once
  <2>2. \A x : Accounted(x)' <=> Accounted(x)
    BY <1>2, Zenon DEF Accounted
  <2>3. \A m \in tellings' : m \in tellings \/ (m[1] = k /\ m[2] = looks /\ (heard \/ k \in unmarked'))
    BY <1>6
  <2>4. \A m \in tellings' : Single(m[1])' => Accounted(m[1])' \/ sent' = <<m[1], TRUE>>
    <3> SUFFICES ASSUME NEW m \in tellings', Single(m[1])' PROVE Accounted(m[1])' \/ sent' = <<m[1], TRUE>>
      OBVIOUS
    <3>1. CASE m \in tellings
      <4>1. sent # <<m[1], TRUE>>
        BY <1>2 DEF NoneSent
      <4> QED
        BY <1>1, <2>1, <2>2, <3>1, <4>1, Zenon DEF OnceOnly
    <3>2. CASE m[1] = k /\ (heard \/ k \in unmarked')
      <4>1. k \notin unmarked'
        BY <3>2, Zenon DEF Single
      <4>2. heard = TRUE
        BY <1>3, <3>2, <4>1
      <4> QED
        BY <1>6, <3>2, <4>2
    <3> QED
      BY <2>3, <3>1, <3>2
  <2>5. \A m, n \in tellings' : m[1] = n[1] /\ Single(m[1])' => m[2] = n[2]
    <3> SUFFICES ASSUME NEW m \in tellings', NEW n \in tellings', m[1] = n[1], Single(m[1])' PROVE m[2] = n[2]
      OBVIOUS
    <3>1. CASE m[1] = k
      BY <1>8, <2>1, <2>3, <3>1
    <3>2. CASE m[1] # k
      BY <1>1, <2>1, <2>3, <3>2 DEF OnceOnly
    <3> QED
      BY <3>1, <3>2
  <2>6. /\ (world.listed \cap world.left = {})'
        /\ (\A x \in Topic : <<"alert", x>> \in todo => x \notin toldW)'
        /\ (\A x \in Topic : Once(x) /\ <<"clear", x>> \in todo => x \in world.left /\ <<"alert", x>> \notin todo)'
    BY <1>1, <1>2, Zenon DEF OnceOnly
  <2> QED
    BY <2>4, <2>5, <2>6, Zenon DEF OnceOnly
<1>10. AlertsRecorded' /\ Listening' /\ Drifting'
  BY <1>1, <1>2, Zenon DEF AlertsRecorded, Listening, Drifting, NowOf
<1>11. Counted(stateFile)' /\ Listed(stateFile)' /\ (found.active => Counted(found.next) /\ Listed(found.next))'
  BY <1>1, <1>2, Zenon DEF Counted, Listed
<1> QED
  BY <1>7, <1>9, <1>10, <1>11, Zenon DEF WatchInv

LEMMA CallsStays == WatchInv /\ Calls => WatchInv'
<1> SUFFICES ASSUME WatchInv, Calls PROVE WatchInv'
  OBVIOUS
<1>1. /\ WatchTypes /\ Counted(stateFile) /\ Listed(stateFile) /\ OnceOnly /\ AlertsRecorded /\ Listening /\ Drifting
      /\ found.active => Counted(found.next) /\ Listed(found.next)
  BY DEF WatchInv
<1>2. PICK c \in todo :
        /\ todo' = todo \ {c}
        /\ \/ c[1] = "clear" /\ sent = NoneSent /\ alertW' = alertW \ {c[2]} /\ toldW' = toldW \ {c[2]}
           \/ /\ c[1] = "alert" /\ sent # NoneSent /\ sent[1] = c[2] /\ alertW' = alertW \cup {c[2]}
              /\ toldW' = IF sent[2] THEN toldW \cup {c[2]} ELSE toldW
        /\ sent' = NoneSent /\ orphans' = orphans \cap alertW'
        /\ UNCHANGED <<watcher, world, stateFile, found, looks, news, kills, lostIn, lastRun, initial, tellings, unmarked>>
  BY DEF Calls
<1> DEFINE k == c[2]
<1>3. c \in {"alert", "clear"} \X Topic /\ found.active /\ looks \in Nat
  BY <1>1, <1>2, WatchNats DEF WatchTypes
<1>4. k \in Topic /\ (c = <<"alert", k>> \/ c = <<"clear", k>>)
  BY <1>3
<1>5. /\ watcher' = watcher /\ world' = world /\ stateFile' = stateFile /\ found' = found /\ looks' = looks /\ news' = news
      /\ kills' = kills /\ lastRun' = lastRun /\ initial' = initial
      /\ todo' = todo \ {c} /\ orphans' = orphans \cap alertW' /\ tellings' = tellings /\ unmarked' = unmarked
      /\ sent' = NoneSent
  BY <1>2
<1>6. \/ c = <<"clear", k>> /\ sent = NoneSent /\ alertW' = alertW \ {k} /\ toldW' = toldW \ {k}
      \/ /\ c = <<"alert", k>> /\ alertW' = alertW \cup {k}
         /\ \/ toldW' = toldW \cup {k} /\ sent = <<k, TRUE>>
            \/ toldW' = toldW /\ sent = <<k, FALSE>>
  <2>1. CASE c[1] = "clear"
    <3>1. sent = NoneSent /\ alertW' = alertW \ {k} /\ toldW' = toldW \ {k}
      BY <1>2, <2>1
    <3>2. c = <<"clear", k>>
      BY <1>4, <2>1
    <3> QED
      BY <3>1, <3>2, Zenon
  <2>2. CASE c[1] = "alert"
    <3>1. sent \in Topic \X BOOLEAN /\ sent[1] = k
      BY <1>1, <1>2, <2>2 DEF WatchTypes
    <3>2. (sent[2] /\ sent = <<k, TRUE>>) \/ (~sent[2] /\ sent = <<k, FALSE>>)
      BY <3>1, SentIs, Zenon
    <3>3. /\ alertW' = alertW \cup {k} /\ (sent[2] => toldW' = toldW \cup {k}) /\ (~sent[2] => toldW' = toldW)
      BY <1>2, <2>2
    <3>4. c = <<"alert", k>>
      BY <1>4, <2>2
    <3> QED
      BY <3>2, <3>3, <3>4, Zenon
  <2>3. c[1] = "clear" \/ c[1] = "alert"
    BY <1>4
  <2> QED
    BY <2>1, <2>2, <2>3, Zenon
<1>7. c \in todo
  BY <1>2
<1>6a. \/ c = <<"clear", k>> /\ alertW' = alertW \ {k}
       \/ c = <<"alert", k>> /\ alertW' = alertW \cup {k}
  BY <1>6, Zenon
<1> HIDE DEF k
<1>8. WatchTypes'
  <2>1. toldW' \subseteq alertW' /\ orphans' \subseteq alertW'
    BY <1>1, <1>5, <1>6 DEF WatchTypes
  <2>2. todo' \subseteq {"alert", "clear"} \X Topic
    BY <1>1, <1>5 DEF WatchTypes
  <2>3. tellings' \subseteq Topic \X Nat
    BY <1>1, <1>5, Zenon DEF WatchTypes
  <2> QED
    BY <1>1, <1>3, <1>5, <2>1, <2>2, <2>3, Zenon DEF WatchTypes
<1>9. Counted(stateFile)' /\ Counted(found.next)' /\ Listed(stateFile)' /\ Listed(found.next)'
  BY <1>1, <1>3, <1>5, Zenon DEF Counted, Listed
<1>10. Once(k) /\ c = <<"clear", k>> => k \in world.left /\ <<"alert", k>> \notin todo
  BY <1>1, <1>4, <1>7, Zenon DEF OnceOnly
<1>11. OnceOnly'
  <2>1. \A x \in Topic : <<"alert", x>> \in todo' => x \notin toldW'
    BY <1>1, <1>5, <1>6 DEF OnceOnly
  <2>2. \A x \in Topic : Once(x) /\ <<"clear", x>> \in todo' => x \in world.left /\ <<"alert", x>> \notin todo'
    BY <1>1, <1>5, Zenon DEF OnceOnly
  <2>3. \A m \in tellings : Single(m[1]) => m[1] \in toldW' \/ (m[1] \in world.left /\ <<"alert", m[1]>> \notin todo')
    <3> SUFFICES ASSUME NEW m \in tellings, Single(m[1])
                 PROVE  m[1] \in toldW' \/ (m[1] \in world.left /\ <<"alert", m[1]>> \notin todo')
      OBVIOUS
    <3>1. Accounted(m[1]) \/ sent = <<m[1], TRUE>>
      BY <1>1, Zenon DEF OnceOnly
    <3>2. CASE sent = <<m[1], TRUE>>
      <4>1. sent # NoneSent /\ sent # <<k, FALSE>>
        BY <3>2 DEF NoneSent
      <4>2. toldW' = toldW \cup {k} /\ sent = <<k, TRUE>>
        BY <1>6, <4>1
      <4> QED
        BY <3>2, <4>2
    <3>3. CASE Accounted(m[1])
      BY <3>3, <1>5, <1>6, <1>10 DEF Accounted, Single
    <3> QED
      BY <3>1, <3>2, <3>3
  <2>4. world.listed \cap world.left = {} /\ \A m, n \in tellings : m[1] = n[1] /\ Single(m[1]) => m[2] = n[2]
    BY <1>1 DEF OnceOnly
  <2> QED
    BY <1>5, <2>1, <2>2, <2>3, <2>4, Zenon DEF OnceOnly, Single, Accounted
<1>12. AlertsRecorded'
  <2>1. \A x \in Listable : x \in world.listed /\ x \in alertW => x \in alertW'
    <3> SUFFICES ASSUME NEW x \in Listable, x \in world.listed, x \in alertW, x \notin alertW' PROVE FALSE
      OBVIOUS
    <3>1. x = k /\ c = <<"clear", k>>
      BY <1>6a
    <3>2. k \in world.left
      BY <3>1, <1>10, Topics
    <3> QED
      BY <1>1, <3>1, <3>2 DEF OnceOnly
  <2>2. world.listed \subseteq Listable
    BY <1>1, SightOf DEF WatchTypes
  <2>3. \A x : <<"alert", x>> \in todo => <<"alert", x>> \in todo' \/ x \in alertW'
    BY <1>5, <1>6a
  <2> QED
    BY <1>1, <1>5, <2>1, <2>2, <2>3 DEF AlertsRecorded
<1>13. Listening'
  <2> SUFFICES ASSUME watcher = "listener" PROVE Listening'
    BY <1>5 DEF Listening
  <2> DEFINE now == found.next.alerted
  <2>1. /\ now = NowOf(found.saw)
        /\ alertW \subseteq stateFile.alerted \cup orphans \cup now
        /\ \A x \in now : (x \in alertW \/ <<"alert", x>> \in todo) /\ <<"clear", x>> \notin todo
        /\ \A x \in alertW \ now : x \in stateFile.alerted => <<"clear", x>> \in todo
        /\ \A x \in Topic : <<"alert", x>> \in todo => x \in now
    BY <1>1, <1>3, Zenon DEF Listening
  <2> HIDE DEF now
  <2>2. c = <<"alert", k>> => k \in now
    BY <1>4, <1>7, <2>1
  <2>3. alertW' \subseteq stateFile.alerted \cup orphans' \cup now
    BY <1>5, <1>6a, <2>1, <2>2
  <2>4. \A x \in now : (x \in alertW' \/ <<"alert", x>> \in todo') /\ <<"clear", x>> \notin todo'
    <3> SUFFICES ASSUME NEW x \in now PROVE x \in alertW' \/ <<"alert", x>> \in todo'
      BY <1>5, <2>1, Zenon
    <3>1. CASE x \in alertW
      BY <1>6a, <1>7, <2>1, <3>1
    <3>2. CASE <<"alert", x>> \in todo
      BY <1>5, <1>6a, <3>2
    <3> QED
      BY <2>1, <3>1, <3>2
  <2>5. \A x \in alertW' \ now : x \in stateFile.alerted => <<"clear", x>> \in todo'
    BY <1>5, <1>6a, <2>1, <2>2
  <2>6. \A x \in Topic : <<"alert", x>> \in todo' => x \in now
    BY <1>5, <2>1
  <2>7. NowOf(found.saw)' = NowOf(found.saw)
    BY <1>5 DEF NowOf
  <2> QED
    BY <1>3, <1>5, <2>1, <2>3, <2>4, <2>5, <2>6, <2>7, Zenon DEF Listening, now
<1>14. Drifting'
  <2> SUFFICES ASSUME watcher = "drift" PROVE Drifting'
    BY <1>5 DEF Drifting
  <2> DEFINE both == {<<"drift">>, <<"persistent">>}
  <2>1. /\ alertW \subseteq both /\ \A x \in todo : x[2] \in both
        /\ stateFile.bad = 0 => alertW = {} /\ todo = {}
        /\ found.saw.policy = "good" => found.next.bad = 0
        /\ found.next.bad = 0 => (\A x \in alertW : <<"clear", x>> \in todo) /\ \A x \in todo : x[1] # "alert"
    BY <1>1, <1>3, Zenon DEF Drifting
  <2> HIDE DEF both
  <2>2. k \in both
    BY <1>7, <2>1 DEF k
  <2>3. stateFile.bad # 0
    BY <1>7, <2>1
  <2>4. alertW' \subseteq both /\ \A x \in todo' : x[2] \in both
    BY <1>5, <1>6a, <2>1, <2>2
  <2>5. ASSUME found.next.bad = 0
        PROVE  (\A x \in alertW' : <<"clear", x>> \in todo') /\ \A x \in todo' : x[1] # "alert"
    BY <1>5, <1>6a, <1>7, <2>1, <2>5
  <2> QED
    BY <1>3, <1>5, <2>1, <2>3, <2>4, <2>5, Zenon DEF Drifting, both
<1> QED
  BY <1>3, <1>8, <1>9, <1>11, <1>12, <1>13, <1>14, Zenon DEF WatchInv

LEMMA SavesStateStays == WatchInv /\ SavesState => WatchInv'
<1> SUFFICES ASSUME WatchInv, SavesState PROVE WatchInv'
  OBVIOUS
<1>1. /\ WatchTypes /\ Counted(stateFile) /\ Listed(stateFile) /\ OnceOnly /\ AlertsRecorded /\ Listening /\ Drifting
      /\ Counted(found.next) /\ Listed(found.next) /\ found.active /\ todo = {}
  BY DEF WatchInv, SavesState
<1>2. /\ watcher' = watcher /\ world' = world /\ todo' = {} /\ found' = NoRun /\ looks' = looks /\ news' = news
      /\ kills' = kills /\ alertW' = alertW /\ toldW' = toldW /\ tellings' = tellings /\ sent' = sent /\ unmarked' = unmarked
      /\ stateFile' = found.next /\ lastRun' = [world |-> found.saw, run |-> looks]
      /\ orphans' = orphans \ found.next.alerted
      /\ initial' = IF stateFile.devices = Never /\ found.next.devices # Never THEN found.next.devices ELSE initial
  BY <1>1 DEF SavesState
<1>3. NoRun.active = FALSE /\ found # NoRun
  BY <1>1 DEF NoRun
<1>4. found.saw \in Sight /\ found.next \in StateFile /\ looks \in Nat
  <2>1. found \in [active : {TRUE}, saw : Sight, next : StateFile]
    BY <1>1, <1>3 DEF WatchTypes
  <2>2. looks \in Nat
    BY <1>1, WatchNats DEF WatchTypes
  <2> QED
    BY <2>1, <2>2
<1>5. lastRun'.run = looks /\ lastRun'.world = found.saw /\ lastRun' \in [world : Sight, run : Nat]
  BY <1>2, <1>4
<1>6. WatchTypes'
  <2>1. orphans' \subseteq alertW' /\ lastRun'.run <= looks
    BY <1>1, <1>2, <1>4, <1>5 DEF WatchTypes
  <2>2. todo' \subseteq {"alert", "clear"} \X Topic
    BY <1>2
  <2>3. found' \in {NoRun} \cup [active : {TRUE}, saw : Sight, next : StateFile]
    BY <1>2
  <2>4. sent' = NoneSent
    BY <1>1, <1>2 DEF WatchTypes
  <2> QED
    BY <1>1, <1>2, <1>3, <1>4, <1>5, <2>1, <2>2, <2>3, <2>4, Zenon DEF WatchTypes
<1>7. Counted(stateFile)' /\ Listed(stateFile)' /\ ~found'.active
  BY <1>1, <1>2, <1>3, Zenon DEF Counted, Listed
<1>8. OnceOnly'
  BY <1>1, <1>2, Zenon DEF OnceOnly, Single, Accounted
<1>9. AlertsRecorded'
  <2>1. CASE stateFile.devices = Never
    BY <1>2, <1>7, <2>1 DEF AlertsRecorded
  <2>2. CASE stateFile.devices # Never
    BY <1>1, <1>2, <1>7, <2>2 DEF AlertsRecorded
  <2> QED
    BY <2>1, <2>2
<1>10. Listening'
  <2> SUFFICES ASSUME watcher = "listener" PROVE Listening'
    BY <1>2 DEF Listening
  <2> DEFINE now == found.next.alerted
  <2>1. /\ now = NowOf(found.saw)
        /\ alertW \subseteq stateFile.alerted \cup orphans \cup now
        /\ now \subseteq alertW
        /\ \A x \in alertW \ now : x \notin stateFile.alerted
    BY <1>1 DEF Listening
  <2>2. NowOf(lastRun.world)' = now
    BY <1>5, <2>1 DEF NowOf
  <2> HIDE DEF now
  <2>3. alertW' \subseteq now \cup orphans'
    BY <1>2, <2>1 DEF now
  <2>4. now \subseteq alertW'
    BY <1>2, <2>1
  <2>5. stateFile'.alerted = now
    BY <1>2 DEF now
  <2> QED
    BY <1>7, <2>2, <2>3, <2>4, <2>5, Zenon DEF Listening
<1>11. Drifting'
  <2> SUFFICES ASSUME watcher = "drift" PROVE Drifting'
    BY <1>2 DEF Drifting
  <2>1. found.next.bad = 0 => alertW = {}
    BY <1>1 DEF Drifting
  <2>2. found.saw.policy = "good" => alertW = {}
    BY <1>1, <2>1 DEF Drifting
  <2> QED
    BY <1>1, <1>2, <1>5, <1>7, <2>1, <2>2 DEF Drifting
<1> QED
  BY <1>6, <1>7, <1>8, <1>9, <1>10, <1>11, Zenon DEF WatchInv

LEMMA WatchKilledStays == WatchInv /\ WatchKilled => WatchInv'
<1> SUFFICES ASSUME WatchInv, WatchKilled PROVE WatchInv'
  OBVIOUS
<1>1. /\ WatchTypes /\ Counted(stateFile) /\ Listed(stateFile) /\ OnceOnly /\ AlertsRecorded /\ Listening /\ Drifting
      /\ found.active
  BY DEF WatchInv, WatchKilled
<1>2. /\ watcher' = watcher /\ world' = world /\ stateFile' = stateFile /\ todo' = {} /\ found' = NoRun /\ looks' = looks
      /\ news' = news /\ kills' \in 0..MaxKills /\ alertW' = alertW /\ toldW' = toldW /\ tellings' = tellings
      /\ lastRun' = lastRun /\ initial' = initial /\ sent' = NoneSent
      /\ unmarked' = IF sent # NoneSent /\ sent[2] THEN unmarked \cup {sent[1]} ELSE unmarked
      /\ orphans' = orphans \cup ((found.next.alerted \cap alertW) \ stateFile.alerted)
  BY <1>1, WatchNats DEF WatchKilled, WatchTypes
<1>3. NoRun.active = FALSE
  BY DEF NoRun
<1>4. lastRun.run \in Nat /\ looks \in Nat /\ lastRun.run < looks
  BY <1>1, WatchNats DEF WatchTypes
<1>5. WatchTypes'
  <2>1. orphans' \subseteq alertW' /\ lastRun.run <= looks
    BY <1>1, <1>2, <1>4 DEF WatchTypes
  <2>2. todo' \subseteq {"alert", "clear"} \X Topic
    BY <1>2
  <2>3. found' \in {NoRun} \cup [active : {TRUE}, saw : Sight, next : StateFile]
    BY <1>2
  <2> QED
    BY <1>1, <1>2, <1>3, <2>1, <2>2, <2>3, Zenon DEF WatchTypes
<1>6. Counted(stateFile)' /\ Listed(stateFile)' /\ ~found'.active /\ lastRun'.run # looks'
  BY <1>1, <1>2, <1>3, <1>4 DEF Counted, Listed
<1>7. OnceOnly'
  <2>1. \A x : Single(x)' => Single(x) /\ sent # <<x, TRUE>>
    <3>1. unmarked \subseteq unmarked'
      BY <1>2
    <3>2. ASSUME NEW x, sent = <<x, TRUE>> PROVE x \in unmarked'
      <4>1. sent # NoneSent /\ sent[2] = TRUE /\ sent[1] = x
        BY <3>2 DEF NoneSent
      <4> QED
        BY <1>2, <4>1
    <3> QED
      BY <3>1, <3>2 DEF Single, Once
  <2>2. \A x : Accounted(x) => Accounted(x)'
    BY <1>2 DEF Accounted
  <2>3. \A m \in tellings' : Single(m[1])' => Accounted(m[1])'
    BY <1>1, <1>2, <2>1, <2>2, Zenon DEF OnceOnly
  <2>4. \A m, n \in tellings' : m[1] = n[1] /\ Single(m[1])' => m[2] = n[2]
    BY <1>1, <1>2, <2>1, Zenon DEF OnceOnly
  <2>5. (world.listed \cap world.left = {})' /\ todo' = {}
    BY <1>1, <1>2, Zenon DEF OnceOnly
  <2> QED
    BY <2>3, <2>4, <2>5, Zenon DEF OnceOnly
<1>8. AlertsRecorded'
  BY <1>1, <1>2, <1>6, Zenon DEF AlertsRecorded
<1>9. Listening'
  <2> SUFFICES ASSUME watcher = "listener" PROVE Listening'
    BY <1>2 DEF Listening
  <2>1. alertW \subseteq stateFile.alerted \cup orphans \cup found.next.alerted
    BY <1>1 DEF Listening
  <2>2. alertW' \subseteq stateFile'.alerted \cup orphans'
    BY <1>2, <2>1
  <2> QED
    BY <1>6, <2>2, Zenon DEF Listening
<1>10. Drifting'
  BY <1>1, <1>2, <1>6 DEF Drifting
<1> QED
  BY <1>5, <1>6, <1>7, <1>8, <1>9, <1>10, Zenon DEF WatchInv

LEMMA WatchInvStays == WatchInv /\ [WatchNext]_watchVars => WatchInv'
<1> SUFFICES ASSUME WatchInv, [WatchNext]_watchVars PROVE WatchInv'
  OBVIOUS
<1>1. CASE UNCHANGED watchVars
  <2>1. /\ watcher' = watcher /\ world' = world /\ stateFile' = stateFile /\ todo' = todo /\ found' = found /\ alertW' = alertW
        /\ toldW' = toldW /\ looks' = looks /\ news' = news /\ kills' = kills /\ lastRun' = lastRun /\ initial' = initial
        /\ tellings' = tellings /\ orphans' = orphans /\ sent' = sent /\ unmarked' = unmarked
    BY <1>1 DEF watchVars
  <2>2. WatchTypes' /\ OnceOnly' /\ AlertsRecorded'
    BY <2>1, Zenon DEF WatchInv, WatchTypes, OnceOnly, Single, Accounted, AlertsRecorded
  <2>3. Listening' /\ Drifting'
    BY <2>1, Zenon DEF WatchInv, Listening, Drifting, NowOf
  <2>4. Counted(stateFile)' /\ Listed(stateFile)' /\ (found.active => Counted(found.next) /\ Listed(found.next))'
    BY <2>1, Zenon DEF WatchInv, Counted, Listed
  <2> QED
    BY <2>2, <2>3, <2>4, Zenon DEF WatchInv
<1> QED
  BY <1>1, WorldChangesStays, RunStartsStays, SendsAlertStays, CallsStays, SavesStateStays, WatchKilledStays, Zenon
  DEF WatchNext

LEMMA WatchInvIsEnough == WatchInv => WatchersSafe
<1> SUFFICES ASSUME WatchInv PROVE WatchersSafe
  OBVIOUS
<1>1. WatchTypes /\ Counted(stateFile) /\ OnceOnly /\ AlertsRecorded /\ Listening /\ Drifting
  BY DEF WatchInv
<1>2. stateFile \in StateFile /\ stateFile.down \in Nat /\ stateFile.bad \in Nat /\ looks \in Nat
  BY <1>1, FieldsOf, WatchNats DEF WatchTypes
<1>3. WatchTypeOK
  <2>1. Cardinality(stateFile.alerted) <= 1
    <3>1. CASE stateFile.alerted = {}
      BY <3>1, FS_EmptySet
    <3>2. ASSUME NEW S \in SUBSET Socket, stateFile.alerted = {<<"new", S>>} PROVE Cardinality(stateFile.alerted) <= 1
      <4> DEFINE k == <<"new", S>>
      <4> HIDE DEF k
      <4>1. Cardinality({k}) = 1
        BY FS_Singleton
      <4> QED
        BY <3>2, <4>1 DEF k
    <3> QED
      BY <1>1, <3>1, <3>2, Zenon DEF Counted
  <2>2. stateFile.down \in 0..looks /\ stateFile.bad \in 0..looks /\ stateFile.since \in -1..looks
    BY <1>1, <1>2 DEF Counted
  <2> QED
    BY <1>1, <2>1, <2>2, Zenon DEF WatchTypes, WatchTypeOK
<1>4. AnnouncedOnce
  <2> SUFFICES ASSUME NEW m \in tellings, NEW n \in tellings, m[1] = n[1], m[1] \notin unmarked,
                      m[1][1] \in {"device", "revert", "release"}
               PROVE  m[2] = n[2]
    BY DEF AnnouncedOnce
  <2>1. m[1] \in Topic
    BY <1>1 DEF WatchTypes
  <2>2. Single(m[1])
    BY <2>1, Zenon DEF Single, Once
  <2> QED
    BY <1>1, <2>2, Zenon DEF OnceOnly
<1>5. RecordedIsAlerted
  BY <1>1, Zenon DEF RecordedIsAlerted, AlertsRecorded
<1>6. ListenerAlertIsCurrent
  BY <1>1, Zenon DEF ListenerAlertIsCurrent, Listening, NowOf
<1>7. DriftAlertEnds
  BY <1>1, Zenon DEF DriftAlertEnds, Drifting
<1> QED
  BY <1>3, <1>4, <1>5, <1>6, <1>7 DEF WatchersSafe

\* The alerts of sockets and of the policy fit what the last whole run saw, and news is announced by one run, but for
\* a message that got through and was not noted: its answer was lost, or the run was killed between sending and noting
\* (gateway-watch, listener-watch, policy-drift-watch, watchnotify.alert).
THEOREM WatchersStaySafe == HostSpec => []WatchersHold
<1> DEFINE Inv == part = "watchers" => WatchInv
<1>1. HostInit => Inv
  BY PartStarts, WatchStartsWell
<1>2. Inv /\ [HostNext]_hostVars => Inv'
  BY PartMoves, WatchInvStays
<1>3. Inv => WatchersHold
  BY WatchInvIsEnough DEF WatchersHold
<1> QED
  BY <1>1, <1>2, <1>3, PTL DEF HostSpec


-----------------------------------------------------------------------------
(* VacuumAlerts: what is told of a robot with a plan.                      *)

LEMMA VaNats ==
  /\ DayTicks \in Nat /\ DueGrace \in Nat /\ Hung \in Nat /\ QuietAfter \in Nat /\ EscalateAfter \in Nat /\ Horizon \in Nat
  /\ RunHorizon \in Nat /\ LastPoll \in Nat /\ MaxTurns \in Nat
  BY VacuumAlertNumbers, Zenon

LEMMA OneMoreRecord ==
  ASSUME NEW S, NEW q \in Seq(S), NEW x \in S
  PROVE  /\ Append(q, x) \in Seq(S) /\ Append(q, x) # <<>> /\ Len(q) \in Nat /\ Len(Append(q, x)) = Len(q) + 1
         /\ \A i \in 1..Len(q) : Append(q, x)[i] = q[i]
         /\ Append(q, x)[Len(q) + 1] = x
  OBVIOUS

LEMMA Elements == ASSUME NEW S, NEW q \in Seq(S) PROVE \A i \in 1..Len(q) : q[i] \in S
  OBVIOUS

LEMMA RecordsAre ==
  ASSUME VaTypes
  PROVE  /\ Len(states) \in Nat /\ Len(states) > 0 /\ nowV \in Nat /\ DOMAIN states = 1..Len(states)
         /\ \A i \in 1..Len(states) : states[i] \in [at : Nat, state : RobotStates] /\ states[i].at \in Nat /\ states[i].state \in RobotStates
         /\ Len(planRuns) \in Nat /\ DOMAIN planRuns = 1..Len(planRuns)
         /\ \A i \in 1..Len(planRuns) : planRuns[i] \in PlanRun /\ planRuns[i].start \in Nat /\ planRuns[i].end \in Int
         /\ planRuns # <<>> => Len(planRuns) \in 1..Len(planRuns)
<1>1. states \in Seq([at : Nat, state : RobotStates]) /\ states # <<>> /\ planRuns \in Seq(PlanRun) /\ nowV \in Nat
  BY VaNats DEF VaTypes
<1>2. \A i \in 1..Len(states) : states[i] \in [at : Nat, state : RobotStates]
  BY <1>1, Elements, Zenon
<1>3. \A i \in 1..Len(planRuns) : planRuns[i] \in PlanRun
  BY <1>1, Elements, Zenon
<1>4. Len(states) \in Nat /\ Len(states) > 0 /\ DOMAIN states = 1..Len(states)
      /\ Len(planRuns) \in Nat /\ DOMAIN planRuns = 1..Len(planRuns) /\ (planRuns # <<>> => Len(planRuns) > 0)
  BY <1>1
<1>5. \A i \in 1..Len(states) : states[i].at \in Nat /\ states[i].state \in RobotStates
  BY <1>2
<1>6. \A i \in 1..Len(planRuns) : planRuns[i].start \in Nat /\ planRuns[i].end \in Int
  BY <1>3 DEF PlanRun
<1> QED
  BY <1>1, <1>2, <1>3, <1>4, <1>5, <1>6

LEMMA VaStartsWell == VaInit => VaInv
<1> SUFFICES ASSUME VaInit PROVE VaInv
  OBVIOUS
<1> DEFINE first == [at |-> 0, state |-> "docked"]
<1>1. /\ nowV = 0 /\ states = <<first>> /\ planRuns = <<>> /\ openV = {} /\ toldV = {} /\ polledV = FALSE /\ turns = 0
  BY DEF VaInit
<1>2. first \in [at : Nat, state : RobotStates] /\ first.at = 0 /\ first.state = "docked"
  BY DEF RobotStates
<1> HIDE DEF first
<1>3. states \in Seq([at : Nat, state : RobotStates]) /\ states # <<>> /\ Len(states) = 1 /\ states[1] = first
  BY <1>1, <1>2
<1>4. planRuns \in Seq(PlanRun) /\ Len(planRuns) = 0
  BY <1>1
<1>5. VaTypes
  <2>1. \A i \in 1..Len(states) : i = 1
    BY <1>3
  <2>2. \A i, j \in 1..Len(states) : i <= j => states[i].at <= states[j].at
    BY <1>2, <1>3, <2>1
  <2>3. \A i \in 1..Len(states) - 1 : states[i].state # states[i + 1].state
    BY <1>3
  <2>4. \A i \in 1..Len(states) : states[i].at <= nowV
    BY <1>1, <1>2, <1>3, <2>1
  <2>5. nowV \in 0..LastPoll /\ turns \in 0..MaxTurns
    BY <1>1, VaNats
  <2>6. \A i \in 1..Len(planRuns) : FALSE
    BY <1>4
  <2> QED
    BY <1>1, <1>3, <1>4, <2>2, <2>3, <2>4, <2>5, <2>6 DEF VaTypes
<1>6. StuckKept /\ OneMessagePerIncident
  BY <1>1 DEF StuckKept, OneMessagePerIncident
<1>7. StuckIsTold
  <2>1. \A i \in 1..Len(states) : states[i].state = "docked"
    BY <1>2, <1>3
  <2> QED
    BY <2>1 DEF StuckIsTold
<1>8. FailureIsTold /\ UnfinishedIsToldUnlessGone
  BY <1>1 DEF FailureIsTold, UnfinishedIsToldUnlessGone
<1> QED
  BY <1>5, <1>6, <1>7, <1>8 DEF VaInv

\* What holds of a longer history holds of a shorter one.
LEMMA BecameLess ==
  ASSUME VaTypes, VaTypes', Len(states) <= Len(states'), \A i \in 1..Len(states) : states'[i] = states[i],
         NEW t, NEW u, NEW S, OnlyBecame(t, u, S)'
  PROVE  OnlyBecame(t, u, S)
<1>1. DOMAIN states = 1..Len(states) /\ Len(states) \in Nat
  BY RecordsAre
<1>2. DOMAIN states' = 1..Len(states') /\ Len(states') \in Nat
  BY DEF VaTypes
<1>3. DOMAIN states \subseteq DOMAIN states'
  BY <1>1, <1>2
<1> QED
  BY <1>1, <1>3 DEF OnlyBecame

LEMMA HalfHourStays == VaInv /\ HalfHour => VaInv'
<1> SUFFICES ASSUME VaInv, HalfHour PROVE VaInv'
  OBVIOUS
<1>1. VaTypes /\ StuckKept /\ StuckIsTold /\ FailureIsTold /\ OneMessagePerIncident
  BY DEF VaInv
<1>2. polledV /\ nowV < LastPoll /\ nowV' = nowV + 1 /\ polledV' = FALSE /\ states' = states /\ planRuns' = planRuns
      /\ openV' = openV /\ toldV' = toldV /\ turns' = turns
  BY DEF HalfHour
<1>3. /\ Len(states) \in Nat /\ Len(states) > 0 /\ nowV \in Nat
      /\ \A i \in 1..Len(states) : states[i].at \in Nat /\ states[i].at <= nowV
      /\ \A i \in 1..Len(planRuns) : planRuns[i].start \in Nat /\ planRuns[i].end \in Int
      /\ planRuns # <<>> => Len(planRuns) \in 1..Len(planRuns)
  BY <1>1, RecordsAre DEF VaTypes
<1>4. \A m \in toldV : m \in Loud \X (0..nowV) /\ m[2] \in 0..nowV
  BY <1>1 DEF VaTypes
<1>5. VaTypes'
  <2>1. nowV' \in 0..LastPoll /\ \A i \in 1..Len(states) : states[i].at <= nowV'
    BY <1>2, <1>3, VaNats, SMT
  <2>2. \A i \in 1..Len(planRuns) : LET r == planRuns[i] IN
          r.start <= nowV' /\ (r.end # -1 => r.start <= r.end /\ r.end <= nowV')
    BY <1>1, <1>2, <1>3, SMT DEF VaTypes
  <2>3. toldV \subseteq Loud \X (0..nowV')
    BY <1>2, <1>3, <1>4
  <2> QED
    BY <1>1, <1>2, <2>1, <2>2, <2>3, Zenon DEF VaTypes
<1>6. StuckKept'
  <2>1. ASSUME NEW m \in toldV, OnlyBecame(m[2], nowV + 1, {"unavailable"}) PROVE OnlyBecame(m[2], nowV, {"unavailable"})
    BY <1>3, <1>4, <2>1, RecordsAre, <1>1 DEF OnlyBecame
  <2> QED
    BY <1>1, <1>2, <2>1, Zenon DEF StuckKept, StandsSince, RobotIs, OnlyBecame
<1>7. StuckIsTold'
  <2> SUFFICES ASSUME NEW i \in 1..Len(states), states[i].state = "paused", NEW t, t = states[i].at + 1
               PROVE  /\ i < Len(states) /\ states[i + 1].at > t => <<"stuck", t>> \in toldV
                      /\ i = Len(states) =>
                           /\ nowV' > t => <<"stuck", t>> \in toldV
                           /\ nowV' = t => <<"stuck", t>> \in toldV \/ "stuck" \notin openV
    BY <1>2, Zenon DEF StuckIsTold
  <2> DEFINE told == <<"stuck", t>> \in toldV
  <2>1. t \in Nat
    BY <1>3
  <2>2. /\ i < Len(states) /\ states[i + 1].at > t => told
        /\ i = Len(states) => /\ nowV > t => told
                              /\ nowV = t => told \/ ("stuck" \notin openV /\ ~polledV)
                              /\ nowV < t /\ polledV => "stuck" \notin openV
    BY <1>1, Zenon DEF StuckIsTold
  <2>3. polledV /\ nowV' = nowV + 1 /\ nowV \in Nat
    BY <1>2, <1>3
  <2> HIDE DEF told
  <2>4. i = Len(states) => (nowV' > t => told) /\ (nowV' = t => told \/ "stuck" \notin openV)
    BY <2>1, <2>2, <2>3
  <2> QED
    BY <2>2, <2>4, Zenon DEF told
<1>8. FailureIsTold'
  <2> SUFFICES ASSUME planRuns # <<>>, LastRun.end # -1, RunHorizon > 0
               PROVE  /\ nowV' # LastRun.end
                      /\ "failed" \in openV => \E t \in 0..nowV' : t > LastRun.end /\ <<"failed", t>> \in toldV
    BY <1>2, Zenon DEF FailureIsTold, LastRun
  <2>1. LastRun.end \in Int /\ LastRun.end <= nowV
    BY <1>1, <1>3 DEF LastRun, VaTypes
  <2>2. 0..nowV \subseteq 0..nowV'
    BY <1>2, <1>3
  <2>3. /\ nowV = LastRun.end /\ polledV => "failed" \notin openV
        /\ nowV > LastRun.end /\ "failed" \in openV => \E t \in 0..nowV : t > LastRun.end /\ <<"failed", t>> \in toldV
    BY <1>1, Zenon DEF FailureIsTold
  <2>4. "failed" \in openV => \E t \in 0..nowV : t > LastRun.end /\ <<"failed", t>> \in toldV
    BY <1>2, <1>3, <2>1, <2>3
  <2> QED
    BY <1>2, <1>3, <2>1, <2>2, <2>4
<1>9. OneMessagePerIncident'
  BY <1>1, <1>2, Zenon DEF OneMessagePerIncident, OnlyBecame
<1>10. UnfinishedIsToldUnlessGone'
  BY <1>2 DEF UnfinishedIsToldUnlessGone
<1> QED
  BY <1>5, <1>6, <1>7, <1>8, <1>9, <1>10 DEF VaInv

LEMMA RobotTurnsStays == ASSUME VaInv, NEW s \in RobotStates, RobotTurns(s) PROVE VaInv'
<1>1. VaTypes /\ StuckKept /\ StuckIsTold /\ FailureIsTold /\ OneMessagePerIncident
  BY DEF VaInv
<1> DEFINE x == [at |-> nowV, state |-> s]
           n == Len(states)
<1>2. /\ nowV' = nowV /\ polledV' = FALSE /\ states' = Append(states, x) /\ planRuns' = planRuns
      /\ openV' = openV /\ toldV' = toldV /\ turns' = turns + 1 /\ turns < MaxTurns /\ s # RobotIs
  BY DEF RobotTurns, Turn
<1>3. /\ n \in Nat /\ n > 0 /\ nowV \in Nat
      /\ \A i \in 1..n : states[i].at \in Nat /\ states[i].at <= nowV /\ states[i].state \in RobotStates
  BY <1>1, RecordsAre DEF VaTypes
<1>4. x \in [at : Nat, state : RobotStates] /\ x.at = nowV /\ x.state = s
  BY <1>3
<1>5. states \in Seq([at : Nat, state : RobotStates])
  BY <1>1 DEF VaTypes
<1> HIDE DEF x, n
<1>6. /\ states' \in Seq([at : Nat, state : RobotStates]) /\ states' # <<>> /\ Len(states') = n + 1
      /\ \A i \in 1..n : states'[i] = states[i]
      /\ states'[n + 1] = x
  BY <1>2, <1>4, <1>5, OneMoreRecord DEF n
<1>7. \A m \in toldV : m \in Loud \X (0..nowV) /\ m[2] \in 0..nowV
  BY <1>1 DEF VaTypes
<1>8. VaTypes'
  <2>1. turns' \in 0..MaxTurns
    BY <1>1, <1>2, VaNats DEF VaTypes
  <2>2. \A i, j \in 1..n : i <= j => states[i].at <= states[j].at
    BY <1>1 DEF VaTypes, n
  <2>3. \A i \in 1..(n + 1) : states'[i].at \in Nat /\ states'[i].at <= nowV
    BY <1>3, <1>4, <1>6
  <2>4. \A i, j \in 1..(n + 1) : i <= j => states'[i].at <= states'[j].at
    BY <1>3, <1>4, <1>6, <2>2, <2>3
  <2>5. \A i \in 1..(n + 1) - 1 : states'[i].state # states'[i + 1].state
    <3> SUFFICES ASSUME NEW i \in 1..n PROVE states'[i].state # states'[i + 1].state
      BY <1>3
    <3>1. CASE i < n
      <4>1. states[i].state # states[i + 1].state
        BY <1>1, <1>3, <3>1 DEF VaTypes, n
      <4> QED
        BY <1>3, <1>6, <3>1, <4>1
    <3>2. CASE i = n
      BY <1>2, <1>3, <1>4, <1>6, <3>2 DEF RobotIs, n
    <3> QED
      BY <1>3, <3>1, <3>2
  <2> QED
    BY <1>1, <1>2, <1>6, <2>1, <2>3, <2>4, <2>5, Zenon DEF VaTypes
<1>9. \A t, u, S : OnlyBecame(t, u, S)' => OnlyBecame(t, u, S)
  BY <1>1, <1>3, <1>6, <1>8, BecameLess DEF n
<1>10. StuckKept'
  <2> SUFFICES ASSUME NEW m \in toldV, m[1] = "stuck", OnlyBecame(m[2], nowV, {"unavailable"})'
               PROVE  "stuck" \in openV /\ StandsSince(m[2])'
    BY <1>2, Zenon DEF StuckKept
  <2>1. s = "unavailable"
    <3>1. n + 1 \in DOMAIN states'
      BY <1>3, <1>6
    <3>2. states'[n + 1].at \in m[2]..nowV
      BY <1>3, <1>4, <1>6, <1>7
    <3> QED
      BY <1>2, <1>4, <1>6, <3>1, <3>2 DEF OnlyBecame
  <2>2. OnlyBecame(m[2], nowV, {"unavailable"})
    BY <1>2, <1>9
  <2>3. "stuck" \in openV /\ StandsSince(m[2])
    BY <1>1, <2>2, Zenon DEF StuckKept
  <2>4. PICK i \in 1..n : /\ states[i].state = "paused" /\ states[i].at < m[2]
                          /\ i = n \/ (i = n - 1 /\ RobotIs = "unavailable")
    BY <2>3 DEF StandsSince, n
  <2>5. i = n
    BY <1>2, <2>1, <2>4
  <2>6. /\ i \in 1..(n + 1) /\ i = (n + 1) - 1 /\ states'[i].state = "paused" /\ states'[i].at < m[2]
        /\ states'[n + 1].state = "unavailable" /\ states'[n + 1].at >= m[2]
    BY <1>3, <1>4, <1>6, <1>7, <2>1, <2>4, <2>5
  <2> QED
    BY <1>6, <2>3, <2>6 DEF StandsSince, RobotIs
<1>11. StuckIsTold'
  <2> SUFFICES ASSUME NEW i \in 1..(n + 1), states'[i].state = "paused"
               PROVE  /\ i < n + 1 /\ states'[i + 1].at > states'[i].at + 1 => <<"stuck", states'[i].at + 1>> \in toldV
                      /\ i = n + 1 => nowV <= states'[i].at
    <3>1. \A i \in 1..(n + 1) : states'[i].at \in Nat
      BY <1>3, <1>4, <1>6
    <3> QED
      BY <1>2, <1>3, <1>6, <3>1 DEF StuckIsTold
  <2>1. CASE i = n + 1
    BY <1>3, <1>4, <1>6, <2>1
  <2>2. CASE i \in 1..n
    <3>1. states[i].state = "paused" /\ states'[i] = states[i] /\ states[i].at \in Nat
      BY <1>3, <1>6, <2>2
    <3>2. /\ i < n /\ states[i + 1].at > states[i].at + 1 => <<"stuck", states[i].at + 1>> \in toldV
          /\ i = n /\ nowV > states[i].at + 1 => <<"stuck", states[i].at + 1>> \in toldV
      BY <1>1, <2>2, <3>1, Zenon DEF StuckIsTold, n
    <3> QED
      BY <1>3, <1>4, <1>6, <2>2, <3>1, <3>2
  <2> QED
    BY <1>3, <2>1, <2>2
<1>12. FailureIsTold'
  BY <1>1, <1>2, Zenon DEF FailureIsTold, LastRun
<1>13. OneMessagePerIncident'
  BY <1>1, <1>2, <1>9, Zenon DEF OneMessagePerIncident
<1>14. UnfinishedIsToldUnlessGone'
  BY <1>2 DEF UnfinishedIsToldUnlessGone
<1> QED
  BY <1>8, <1>10, <1>11, <1>12, <1>13, <1>14 DEF VaInv

\* A change of the plan's runs leaves what is said of the robot.
LEMMA RobotAlike ==
  ASSUME VaInv, states' = states, nowV' = nowV, openV' = openV, toldV' = toldV, polledV' = FALSE
  PROVE  StuckKept' /\ StuckIsTold' /\ OneMessagePerIncident' /\ UnfinishedIsToldUnlessGone'
<1>1. StuckKept /\ StuckIsTold /\ OneMessagePerIncident
  BY DEF VaInv
<1>2. StuckKept' /\ OneMessagePerIncident'
  BY <1>1, Zenon DEF StuckKept, StandsSince, RobotIs, OnlyBecame, OneMessagePerIncident
<1>3. StuckIsTold'
  <2> SUFFICES ASSUME NEW i \in 1..Len(states), states[i].state = "paused"
               PROVE  LET t == states[i].at + 1 IN
                        /\ i < Len(states) /\ states[i + 1].at > t => <<"stuck", t>> \in toldV
                        /\ i = Len(states) =>
                             /\ nowV > t => <<"stuck", t>> \in toldV
                             /\ nowV = t => <<"stuck", t>> \in toldV \/ "stuck" \notin openV
    BY Zenon DEF StuckIsTold
  <2> QED
    BY <1>1, Zenon DEF StuckIsTold
<1> QED
  BY <1>2, <1>3 DEF UnfinishedIsToldUnlessGone

LEMMA PlanStartsStays == VaInv /\ PlanStarts => VaInv'
<1> SUFFICES ASSUME VaInv, PlanStarts PROVE VaInv'
  OBVIOUS
<1> DEFINE x == [start |-> nowV, end |-> -1, done |-> FALSE, stopped |-> FALSE]
           n == Len(planRuns)
<1>1. VaTypes
  BY DEF VaInv
<1>2. /\ nowV' = nowV /\ polledV' = FALSE /\ states' = states /\ planRuns' = Append(planRuns, x)
      /\ openV' = openV /\ toldV' = toldV /\ turns' = turns + 1 /\ turns < MaxTurns
  BY DEF PlanStarts, Turn
<1>3. planRuns \in Seq(PlanRun) /\ x \in PlanRun /\ x.start = nowV /\ x.end = -1 /\ nowV \in Nat
  BY <1>1, RecordsAre DEF VaTypes, PlanRun
<1> HIDE DEF x, n
<1>4. /\ planRuns' \in Seq(PlanRun) /\ Len(planRuns') = n + 1 /\ n \in Nat
      /\ \A i \in 1..n : planRuns'[i] = planRuns[i]
      /\ planRuns'[n + 1] = x
  BY <1>2, <1>3, OneMoreRecord DEF n
<1>5. VaTypes'
  <2>1. \A i \in 1..(n + 1) : LET r == planRuns'[i] IN
          r.start <= nowV /\ (r.end # -1 => r.start <= r.end /\ r.end <= nowV)
    <3> SUFFICES ASSUME NEW i \in 1..(n + 1)
                 PROVE  LET r == planRuns'[i] IN r.start <= nowV /\ (r.end # -1 => r.start <= r.end /\ r.end <= nowV)
      OBVIOUS
    <3>1. CASE i \in 1..n
      BY <1>1, <1>4, <3>1 DEF VaTypes, n
    <3>2. CASE i = n + 1
      BY <1>3, <1>4, <3>2
    <3> QED
      BY <1>4, <3>1, <3>2
  <2>2. turns' \in 0..MaxTurns
    BY <1>1, <1>2, VaNats DEF VaTypes
  <2> QED
    BY <1>1, <1>2, <1>4, <2>1, <2>2, Zenon DEF VaTypes
<1>6. FailureIsTold'
  BY <1>3, <1>4 DEF FailureIsTold, LastRun
<1> QED
  BY <1>2, <1>5, <1>6, RobotAlike DEF VaInv

LEMMA PlanStopsStays == ASSUME VaInv, NEW how, PlanStops(how) PROVE VaInv'
<1> DEFINE n == Len(planRuns)
<1>1. VaTypes
  BY DEF VaInv
<1>2. /\ nowV' = nowV /\ polledV' = FALSE /\ states' = states
      /\ openV' = openV /\ toldV' = toldV /\ turns' = turns + 1 /\ turns < MaxTurns /\ planRuns # <<>>
  BY DEF PlanStops, Turn, Running
<1> DEFINE x == [start |-> planRuns[n].start, end |-> nowV, done |-> how = "done", stopped |-> how = "person"]
<1>3. planRuns' = [planRuns EXCEPT ![n] = x]
  BY DEF PlanStops
<1>4. /\ n \in 1..n /\ nowV \in Nat /\ planRuns \in Seq(PlanRun)
      /\ \A i \in 1..n : planRuns[i].start <= nowV /\ planRuns[i].start \in Nat
  BY <1>1, <1>2, RecordsAre DEF VaTypes
<1>5. (how = "done") \in BOOLEAN /\ (how = "person") \in BOOLEAN
  OBVIOUS
<1>6. /\ planRuns' \in Seq(PlanRun) /\ Len(planRuns') = n
      /\ \A i \in 1..n : i # n => planRuns'[i] = planRuns[i]
      /\ planRuns'[n].start = planRuns[n].start /\ planRuns'[n].end = nowV
  <2>1. x \in PlanRun
    BY <1>4, <1>5 DEF PlanRun
  <2>2. x.start = planRuns[n].start /\ x.end = nowV
    OBVIOUS
  <2> HIDE DEF x
  <2>3. planRuns'[n] = x
    BY <1>3, <1>4
  <2>4. planRuns' \in Seq(PlanRun) /\ Len(planRuns') = n /\ \A i \in 1..n : i # n => planRuns'[i] = planRuns[i]
    BY <1>3, <1>4, <2>1
  <2> QED
    BY <2>2, <2>3, <2>4, Zenon
<1> HIDE DEF n
<1>7. VaTypes'
  <2>1. \A i \in 1..n : LET r == planRuns'[i] IN
          r.start <= nowV /\ (r.end # -1 => r.start <= r.end /\ r.end <= nowV)
    <3> SUFFICES ASSUME NEW i \in 1..n
                 PROVE  LET r == planRuns'[i] IN r.start <= nowV /\ (r.end # -1 => r.start <= r.end /\ r.end <= nowV)
      OBVIOUS
    <3>1. CASE i # n
      BY <1>1, <1>6, <3>1 DEF VaTypes, n
    <3>2. CASE i = n
      BY <1>4, <1>6, <3>2
    <3> QED
      BY <3>1, <3>2
  <2>2. turns' \in 0..MaxTurns
    BY <1>1, <1>2, VaNats DEF VaTypes
  <2> QED
    BY <1>1, <1>2, <1>6, <2>1, <2>2, Zenon DEF VaTypes
<1>8. FailureIsTold'
  <2>1. LastRun'.end = nowV
    BY <1>6, Zenon DEF LastRun
  <2> QED
    BY <1>2, <1>4, <2>1 DEF FailureIsTold
<1> QED
  BY <1>2, <1>7, <1>8, RobotAlike DEF VaInv

\* When a recorded state ended, now for the last one.
Until(i) == IF i < Len(states) THEN states[i + 1].at ELSE nowV

\* A stretch of such a state that reaches into the time since, a tick of it at least: one of the periods.
LEMMA PeriodOf ==
  ASSUME VaTypes, NEW since \in Int, NEW S, NEW i \in 1..Len(states), states[i].state \in S,
         Until(i) - states[i].at >= 1, Until(i) - since >= 1
  PROVE  \E p \in Period(since, S) : p.to = Until(i)
<1> DEFINE from == IF states[i].at < since THEN since ELSE states[i].at
           p == [from |-> from, to |-> Until(i)]
<1>1. /\ Len(states) \in Nat /\ nowV \in Nat /\ DOMAIN states = 1..Len(states)
      /\ \A j \in 1..Len(states) : states[j].at \in Nat /\ states[j].at <= nowV
  BY RecordsAre DEF VaTypes
<1>2. Until(i) \in 0..nowV
  BY <1>1 DEF Until
<1>3. states[i].at \in Nat
  BY <1>1
<1>4. from \in 0..nowV /\ Until(i) - from >= 1 /\ Until(i) >= since
  BY <1>1, <1>2, <1>3
<1>5. p \in [from : 0..nowV, to : 0..nowV] /\ p.from = from /\ p.to = Until(i)
  BY <1>2, <1>4
<1> HIDE DEF p
<1>6. \E j \in DOMAIN states :
        LET f == IF states[j].at < since THEN since ELSE states[j].at
            u == IF j < Len(states) THEN states[j + 1].at ELSE nowV
        IN  states[j].state \in S /\ u >= since /\ p.from = f /\ p.to = u /\ u - f >= 1
  BY <1>1, <1>4, <1>5, Zenon DEF Until
<1>7. p \in Period(since, S)
  BY <1>5, <1>6 DEF Period
<1> QED
  BY <1>5, <1>7

\* What a run of ha-alerts finds of a robot that was told as stuck before and does nothing since.
LEMMA StandsIsIncident ==
  ASSUME VaTypes, NEW t \in 0..nowV, StandsSince(t)
  PROVE  /\ t < nowV /\ ~Gone => IsStuck
         /\ Gone => \A since \in Int : since < t => Incidents(since) # {}
         /\ \A r \in PlanRun : r.start < nowV /\ t < nowV => HadIncident(r)
<1> DEFINE n == Len(states)
<1>1. /\ n \in Nat /\ n > 0 /\ nowV \in Nat
      /\ \A j \in 1..n : states[j].at \in Nat /\ states[j].at <= nowV
  BY RecordsAre DEF VaTypes
<1>2. PICK i \in 1..n : /\ states[i].state = "paused" /\ states[i].at < t
                        /\ i = n \/ (i = n - 1 /\ RobotIs = "unavailable" /\ states[n].at >= t)
  BY DEF StandsSince
<1>3. i = n => RobotIs = "paused" /\ ~Gone
  BY <1>2 DEF RobotIs, Gone
<1>4. ~Gone => i = n
  BY <1>2 DEF Gone
<1>5. t < nowV /\ ~Gone => IsStuck
  BY <1>1, <1>2, <1>3, <1>4 DEF IsStuck, StuckStates, Age
<1>6. ASSUME Gone, NEW since \in Int, since < t PROVE Incidents(since) # {}
  <2> DEFINE to == states[n].at
  <2>1. i = n - 1 /\ to \in Nat /\ to >= t /\ Until(i) = to
    BY <1>1, <1>2, <1>3, <1>6 DEF Until
  <2>2. Until(i) - states[i].at >= 1 /\ Until(i) - since >= 1
    BY <1>1, <1>2, <1>6, <2>1, SMT
  <2>3. states[i].state \in StuckStates
    BY <1>2 DEF StuckStates
  <2> HIDE DEF to
  <2> QED
    BY <2>2, <2>3, PeriodOf DEF Incidents
<1>7. ASSUME NEW r \in PlanRun, r.start < nowV, t < nowV PROVE HadIncident(r)
  <2> DEFINE since == r.start - RunHorizon
             S == StuckStates \cup {"unavailable"}
  <2>1. r.start \in Nat /\ since \in Int /\ since <= r.start
    BY VaNats DEF PlanRun
  <2>2. states[i].state \in S
    BY <1>2 DEF StuckStates
  <2> HIDE DEF since, S
  <2>3. ASSUME \E p \in Period(since, S) : p.to = nowV PROVE HadIncident(r)
    BY <1>1, <1>7, <2>1, <2>3 DEF HadIncident, since, S
  <2>4. CASE i = n
    <3>1. Until(i) = nowV /\ Until(i) - states[i].at >= 1 /\ Until(i) - since >= 1
      BY <1>1, <1>2, <1>7, <2>1, <2>4 DEF Until
    <3>2. \E p \in Period(since, S) : p.to = nowV
      BY <2>1, <2>2, <3>1, PeriodOf, Zenon
    <3> QED
      BY <2>3, <3>2
  <2>5. CASE i = n - 1 /\ states[n].at = nowV
    <3>0. Until(i) = nowV
      BY <1>1, <2>5 DEF Until
    <3>1. Until(i) - states[i].at >= 1 /\ Until(i) - since >= 1
      BY <1>1, <1>2, <1>7, <2>1, <3>0
    <3>2. \E p \in Period(since, S) : p.to = nowV
      BY <2>1, <2>2, <3>0, <3>1, PeriodOf, Zenon
    <3> QED
      BY <2>3, <3>2
  <2>6. CASE i = n - 1 /\ states[n].at < nowV /\ RobotIs = "unavailable"
    <3>1. n \in 1..n /\ states[n].state \in S
      BY <1>1, <2>6 DEF RobotIs, S
    <3>2. Until(n) = nowV /\ Until(n) - states[n].at >= 1 /\ Until(n) - since >= 1
      BY <1>1, <1>7, <2>1, <2>6 DEF Until
    <3>3. \E p \in Period(since, S) : p.to = nowV
      BY <2>1, <3>1, <3>2, PeriodOf, Zenon
    <3> QED
      BY <2>3, <3>3
  <2> QED
    BY <1>1, <1>2, <2>4, <2>5, <2>6
<1> QED
  BY <1>5, <1>6, <1>7

\* The alerts of a robot and of its plan, one by one.
LEMMA RaisedIsOf ==
  /\ "stuck" \in RaisedOfRobot <=> IsStuck
  /\ "unavail" \in RaisedOfRobot => Gone /\ Incidents(nowV - Horizon) = {}
  /\ RaisedOfRobot \subseteq {"stuck", "unavailQuiet", "unavail"}
  /\ "stuck" \in ClearedOfRobot <=> ~Gone /\ ~IsStuck
  /\ "failed" \notin ClearedOfRobot
  /\ RaisedOfPlan \subseteq {"hung", "failed", "failedQuiet"} /\ ClearedOfPlan \subseteq {"hung", "failed", "failedQuiet"}
  /\ "hung" \in RaisedOfPlan => RanLately /\ LastRun.end = -1 /\ nowV - LastRun.start > Hung /\ ~HadIncident(LastRun)
  /\ "failed" \in RaisedOfPlan <=> RanLately /\ Ended(LastRun) /\ ~LastRun.stopped /\ ~HadIncident(LastRun)
  /\ RanLately /\ ~Ended(LastRun) => "failed" \in ClearedOfPlan
<1>1. /\ "stuck" \in RaisedOfRobot <=> IsStuck
      /\ "unavail" \in RaisedOfRobot => Gone /\ Incidents(nowV - Horizon) = {}
      /\ RaisedOfRobot \subseteq {"stuck", "unavailQuiet", "unavail"}
  BY DEF RaisedOfRobot
<1>2. /\ "stuck" \in ClearedOfRobot <=> ~Gone /\ ~IsStuck
      /\ "failed" \notin ClearedOfRobot
  BY <1>1 DEF ClearedOfRobot
<1>3. RaisedOfPlan \subseteq {"hung", "failed", "failedQuiet"} /\ ClearedOfPlan \subseteq {"hung", "failed", "failedQuiet"}
  BY DEF RaisedOfPlan, ClearedOfPlan
<1>4. "hung" \in RaisedOfPlan => RanLately /\ LastRun.end = -1 /\ nowV - LastRun.start > Hung /\ ~HadIncident(LastRun)
  BY DEF RaisedOfPlan
<1>5. "failed" \in RaisedOfPlan <=> RanLately /\ Ended(LastRun) /\ ~LastRun.stopped /\ ~HadIncident(LastRun)
  BY DEF RaisedOfPlan
<1>6. RanLately /\ ~Ended(LastRun) => "failed" \in ClearedOfPlan
  BY <1>5 DEF ClearedOfPlan
<1> QED
  BY <1>1, <1>2, <1>3, <1>4, <1>5, <1>6, Zenon

LEMMA JudgesStays == VaInv /\ Judges => VaInv'
<1> SUFFICES ASSUME VaInv, Judges PROVE VaInv'
  OBVIOUS
<1> DEFINE raised == RaisedOfRobot \cup RaisedOfPlan
           n == Len(states)
<1>1. VaTypes /\ StuckKept /\ StuckIsTold /\ FailureIsTold /\ OneMessagePerIncident
  BY DEF VaInv
<1>2. /\ nowV' = nowV /\ ~polledV /\ polledV' = TRUE /\ states' = states /\ planRuns' = planRuns /\ turns' = turns
      /\ openV' = (openV \ (ClearedOfRobot \cup ClearedOfPlan)) \cup raised
      /\ toldV' = toldV \cup {<<k, nowV>> : k \in (raised \cap Loud) \ openV}
  BY DEF Judges
<1>3. /\ n \in Nat /\ n > 0 /\ nowV \in Nat /\ n \in 1..n
      /\ \A i \in 1..n : states[i].at \in Nat /\ states[i].at <= nowV
      /\ \A i \in 1..Len(planRuns) : planRuns[i] \in PlanRun /\ planRuns[i].start \in Nat /\ planRuns[i].end \in Int
      /\ planRuns # <<>> => Len(planRuns) \in 1..Len(planRuns)
  BY <1>1, RecordsAre DEF VaTypes
<1>4. planRuns # <<>> => /\ LastRun \in PlanRun /\ LastRun.start \in Nat /\ LastRun.end \in Int /\ LastRun.start <= nowV
                         /\ LastRun.end # -1 => LastRun.start <= LastRun.end /\ LastRun.end <= nowV
  BY <1>1, <1>3 DEF VaTypes, LastRun
<1> HIDE DEF raised, n
<1>5. raised \subseteq RobotAlerts /\ ("stuck" \in raised <=> IsStuck) /\ ("failed" \in raised <=> "failed" \in RaisedOfPlan)
  BY RaisedIsOf DEF raised, RobotAlerts
<1>6. toldV \subseteq toldV' /\ \A k \in (raised \cap Loud) \ openV : <<k, nowV>> \in toldV'
  BY <1>2
<1>7. \A m \in toldV' : m \in toldV \/ (m[2] = nowV /\ m[1] \in raised /\ m[1] \in Loud /\ m[1] \notin openV)
  BY <1>2
<1>8. \A m \in toldV : m[2] \in 0..nowV
  BY <1>1 DEF VaTypes
<1>9. /\ "stuck" \in openV' <=> IsStuck \/ ("stuck" \in openV /\ Gone)
      /\ "failed" \in openV' => "failed" \in raised \/ "failed" \in openV
      /\ "failed" \in openV' => "failed" \in raised \/ ~(RanLately /\ ~Ended(LastRun))
  <2>1. "stuck" \notin ClearedOfPlan
    BY RaisedIsOf
  <2> QED
    BY <1>2, <1>5, <2>1, RaisedIsOf
<1>10. VaTypes'
  <2>1. openV' \subseteq RobotAlerts
    BY <1>1, <1>2, <1>5 DEF VaTypes
  <2>2. toldV' \subseteq Loud \X (0..nowV)
    BY <1>1, <1>2, <1>3 DEF VaTypes
  <2> QED
    BY <1>1, <1>2, <2>1, <2>2, Zenon DEF VaTypes
<1>11. \A m \in toldV' : m[1] = "stuck" /\ OnlyBecame(m[2], nowV, {"unavailable"}) => "stuck" \in openV' /\ StandsSince(m[2])
  <2> SUFFICES ASSUME NEW m \in toldV', m[1] = "stuck", OnlyBecame(m[2], nowV, {"unavailable"})
               PROVE  "stuck" \in openV' /\ StandsSince(m[2])
    OBVIOUS
  <2>1. CASE m \in toldV
    <3>1. "stuck" \in openV /\ StandsSince(m[2]) /\ m[2] \in 0..nowV
      BY <1>1, <1>8, <2>1, Zenon DEF StuckKept
    <3>2. ~Gone => IsStuck
      <4> SUFFICES ASSUME ~Gone PROVE IsStuck
        OBVIOUS
      <4>1. PICK i \in 1..n : /\ states[i].state = "paused" /\ states[i].at < m[2]
                              /\ i = n \/ (i = n - 1 /\ RobotIs = "unavailable")
        BY <3>1 DEF StandsSince, n
      <4> QED
        BY <1>3, <3>1, <4>1 DEF Gone, IsStuck, StuckStates, RobotIs, Age, n
    <3> QED
      BY <1>9, <3>1, <3>2
  <2>2. CASE m[2] = nowV /\ m[1] \in raised
    <3>1. IsStuck /\ "stuck" \in openV'
      BY <1>5, <1>9, <2>2
    <3>2. RobotIs = "paused" /\ states[n].at < nowV
      BY <1>3, <3>1 DEF IsStuck, StuckStates, Age, n
    <3> QED
      BY <1>3, <2>2, <3>1, <3>2 DEF StandsSince, RobotIs, n
  <2> QED
    BY <1>7, <2>1, <2>2
<1>12. StuckKept'
  BY <1>2, <1>11, Zenon DEF StuckKept, OnlyBecame, StandsSince, RobotIs
<1>13. \A i \in 1..n : states[i].state = "paused" =>
         LET t == states[i].at + 1 IN
         /\ i < n /\ states[i + 1].at > t => <<"stuck", t>> \in toldV'
         /\ i = n =>
              /\ nowV >= t => <<"stuck", t>> \in toldV'
              /\ nowV < t => "stuck" \notin openV'
  <2> SUFFICES ASSUME NEW i \in 1..n, states[i].state = "paused", NEW t, t = states[i].at + 1
               PROVE  /\ i < n /\ states[i + 1].at > t => <<"stuck", t>> \in toldV'
                      /\ i = n => /\ nowV >= t => <<"stuck", t>> \in toldV'
                                  /\ nowV < t => "stuck" \notin openV'
    OBVIOUS
  <2>1. /\ i < n /\ states[i + 1].at > t => <<"stuck", t>> \in toldV
        /\ i = n => /\ nowV > t => <<"stuck", t>> \in toldV
                    /\ nowV = t => <<"stuck", t>> \in toldV \/ "stuck" \notin openV
    BY <1>1, Zenon DEF StuckIsTold, n
  <2>2. ASSUME i = n PROVE (nowV >= t => IsStuck) /\ (nowV < t => ~IsStuck /\ ~Gone)
    <3>1. RobotIs = "paused" /\ Age = nowV - states[i].at /\ states[i].at \in Nat
      BY <1>3, <2>2 DEF RobotIs, Age, n
    <3> QED
      BY <1>3, <3>1 DEF IsStuck, Gone, StuckStates
  <2>3. IsStuck /\ "stuck" \notin openV => <<"stuck", nowV>> \in toldV'
    BY <1>5, <1>6 DEF Loud
  <2>4. t \in Nat
    BY <1>3
  <2> QED
    BY <1>3, <1>6, <1>9, <2>1, <2>2, <2>3, <2>4
<1>14. StuckIsTold'
  <2>1. \A i \in 1..n : states[i].at \in Nat
    BY <1>3
  <2> SUFFICES ASSUME NEW i \in 1..n, states[i].state = "paused"
               PROVE  LET t == states[i].at + 1 IN
                        /\ i < n /\ states[i + 1].at > t => <<"stuck", t>> \in toldV'
                        /\ i = n => /\ nowV > t => <<"stuck", t>> \in toldV'
                                    /\ nowV = t => <<"stuck", t>> \in toldV'
                                    /\ nowV < t => "stuck" \notin openV'
    BY <1>2, Zenon DEF StuckIsTold, n
  <2> QED
    BY <1>3, <1>13, <2>1
<1>15. FailureIsTold'
  <2> SUFFICES ASSUME planRuns # <<>>, LastRun.end # -1, RunHorizon > 0
               PROVE  /\ nowV = LastRun.end => "failed" \notin openV'
                      /\ nowV > LastRun.end /\ "failed" \in openV' =>
                           \E t \in 0..nowV : t > LastRun.end /\ <<"failed", t>> \in toldV'
    BY <1>2, Zenon DEF FailureIsTold, LastRun
  <2>1. ASSUME nowV = LastRun.end PROVE "failed" \notin openV'
    <3>1. RanLately /\ ~Ended(LastRun)
      BY <1>3, <2>1, VaNats DEF RanLately, Recently, Ended
    <3> QED
      BY <1>5, <1>9, <3>1, RaisedIsOf
  <2>2. ASSUME nowV > LastRun.end, "failed" \in openV'
        PROVE  \E t \in 0..nowV : t > LastRun.end /\ <<"failed", t>> \in toldV'
    <3>1. CASE "failed" \in openV
      BY <1>1, <1>6, <2>2, <3>1 DEF FailureIsTold
    <3>2. CASE "failed" \notin openV
      <4>1. <<"failed", nowV>> \in toldV'
        BY <1>6, <1>9, <2>2, <3>2 DEF Loud
      <4> QED
        BY <1>3, <2>2, <4>1, SMT
    <3> QED
      BY <3>1, <3>2
  <2> QED
    BY <2>1, <2>2
<1>16. OneMessagePerIncident'
  <2> SUFFICES ASSUME NEW m \in toldV', NEW k \in toldV', m[1] = "stuck", m[2] < k[2], k[2] < m[2] + Horizon,
                      OnlyBecame(m[2], k[2], {"unavailable"})
               PROVE  FALSE
    BY <1>2, Zenon DEF OneMessagePerIncident, OnlyBecame
  <2>1. m \in toldV
    BY <1>3, <1>7, <1>8
  <2>2. k \notin toldV
    BY <1>1, <2>1 DEF OneMessagePerIncident
  <2>3. k[2] = nowV /\ k[1] \in raised /\ k[1] \in Loud /\ k[1] \notin openV
    BY <1>7, <2>2
  <2>4. "stuck" \in openV /\ StandsSince(m[2]) /\ m[2] \in 0..nowV /\ m[2] < nowV
    BY <1>1, <1>8, <2>1, <2>3, Zenon DEF StuckKept
  <2>5. CASE k[1] = "stuck"
    BY <2>3, <2>4, <2>5
  <2>6. CASE k[1] = "unavail"
    <3>1. Gone /\ Incidents(nowV - Horizon) = {}
      BY <2>3, <2>6, RaisedIsOf DEF raised
    <3>2. nowV - Horizon \in Int /\ nowV - Horizon < m[2]
      BY <1>3, <2>3, <2>4, VaNats
    <3> QED
      BY <2>4, <3>1, <3>2, StandsIsIncident, <1>1
  <2>7. CASE k[1] \in {"hung", "failed"}
    <3>1. RanLately /\ ~HadIncident(LastRun)
          /\ ((LastRun.end = -1 /\ nowV - LastRun.start > Hung) \/ Ended(LastRun))
      BY <2>3, <2>7, RaisedIsOf DEF raised
    <3>2. LastRun \in PlanRun /\ LastRun.start < nowV
      BY <1>3, <1>4, <3>1, VaNats DEF RanLately, Ended
    <3> QED
      BY <2>4, <3>1, <3>2, StandsIsIncident, <1>1
  <2> QED
    BY <2>3, <2>5, <2>6, <2>7 DEF Loud
<1>17. \A i \in 1..Len(planRuns) : Unfinished(planRuns[i]) =>
         LET r == planRuns[i] IN
           \/ \E m \in toldV' : m[2] >= r.start - RunHorizon \/ OnlyBecame(m[2], r.start - 1, StuckStates \cup {"unavailable"})
           \/ Period(r.start - RunHorizon, {"unavailable"}) # {}
           \/ \E p \in Incidents(r.start - RunHorizon) : p.to >= r.start /\ p.to - p.from < 2
  <2> SUFFICES ASSUME NEW i \in 1..Len(planRuns), Unfinished(planRuns[i]), NEW r, r = planRuns[i]
               PROVE  \/ \E m \in toldV' : m[2] >= r.start - RunHorizon \/ OnlyBecame(m[2], r.start - 1, StuckStates \cup {"unavailable"})
                      \/ Period(r.start - RunHorizon, {"unavailable"}) # {}
                      \/ \E p \in Incidents(r.start - RunHorizon) : p.to >= r.start /\ p.to - p.from < 2
    OBVIOUS
  <2> DEFINE since == r.start - RunHorizon
  <2>1. /\ planRuns # <<>> /\ r = LastRun /\ RanLately /\ Ended(r) /\ ~r.stopped /\ r.end # -1
        /\ nowV - r.end < RunHorizon /\ nowV - r.end >= 1
    BY <1>3 DEF Unfinished, FailedRun, Ended, Recently, RanLately, LastRun
  <2>2. r \in PlanRun /\ r.start \in Nat /\ r.end \in Int /\ r.start <= r.end /\ r.end <= nowV /\ since \in Int
    BY <1>4, <2>1, VaNats
  <2>3. CASE ~HadIncident(r)
    <3>1. "failed" \in raised
      BY <1>5, <2>1, <2>3, RaisedIsOf
    <3>2. CASE "failed" \notin openV
      <4>1. <<"failed", nowV>> \in toldV'
        BY <1>6, <3>1, <3>2 DEF Loud
      <4>2. nowV >= since
        BY <1>3, <2>2, VaNats
      <4> QED
        BY <4>1, <4>2
    <3>3. CASE "failed" \in openV
      <4>1. PICK t \in 0..nowV : t > r.end /\ <<"failed", t>> \in toldV
        BY <1>1, <1>3, <2>1, <2>2, <3>3, VaNats, SMT DEF FailureIsTold
      <4>2. t >= since
        BY <1>3, <2>2, <4>1, VaNats, SMT
      <4> QED
        BY <1>6, <4>1, <4>2
    <3> QED
      BY <3>2, <3>3
  <2>4. CASE HadIncident(r)
    <3>1. PICK p \in Period(since, StuckStates \cup {"unavailable"}) : p.to >= r.start
      BY <2>4 DEF HadIncident
    <3>2. PICK j \in 1..n : LET from == IF states[j].at < since THEN since ELSE states[j].at
                                to == IF j < n THEN states[j + 1].at ELSE nowV
                            IN  /\ states[j].state \in StuckStates \cup {"unavailable"}
                                /\ to >= since /\ p.from = from /\ p.to = to /\ to - from >= 1
      BY <1>1, <3>1, RecordsAre DEF Period, n
    <3>3. \A S : states[j].state \in S => p \in Period(since, S)
      BY <1>1, <3>1, <3>2, RecordsAre DEF Period, n
    <3>4. CASE states[j].state = "unavailable"
      BY <3>3, <3>4
    <3>5. CASE states[j].state # "unavailable" /\ p.to - p.from < 2
      BY <3>1, <3>2, <3>3, <3>5 DEF Incidents
    <3>6. CASE states[j].state # "unavailable" /\ ~(p.to - p.from < 2)
      <4> DEFINE t == states[j].at + 1
      <4>1. states[j].state = "paused" /\ states[j].at \in Nat /\ t \in Nat
        BY <1>3, <3>2, <3>6 DEF StuckStates
      <4>2. p.to = (IF j < n THEN states[j + 1].at ELSE nowV) /\ p.to \in Nat /\ p.to > t
        <5>1. p.to = (IF j < n THEN states[j + 1].at ELSE nowV)
          BY <3>2, Zenon
        <5>2. p.from = (IF states[j].at < since THEN since ELSE states[j].at)
          BY <3>2, Zenon
        <5>3. p.to \in Nat
          BY <1>3, <5>1
        <5> QED
          <6>1. p.from \in Int /\ p.from >= states[j].at
            BY <2>2, <4>1, <5>2
          <6>2. p.to > states[j].at + 1
            BY <3>6, <4>1, <5>3, <6>1, SMT
          <6> QED
            BY <5>1, <5>3, <6>2
      <4>3. <<"stuck", t>> \in toldV'
        BY <1>3, <1>13, <4>1, <4>2
      <4>4. CASE t >= since
        BY <4>3, <4>4
      <4>5. CASE t < since
        <5>1. OnlyBecame(t, r.start - 1, StuckStates \cup {"unavailable"})
          <6> SUFFICES ASSUME NEW i2 \in 1..n, states[i2].at \in t..(r.start - 1) PROVE FALSE
            BY <1>1, RecordsAre DEF OnlyBecame, n
          <6>1. states[i2].at \in Nat /\ states[i2].at >= t /\ states[i2].at < r.start
            BY <1>3, <2>2, <4>1, SMT
          <6>4. i2 <= j => states[i2].at <= states[j].at
            BY <1>1 DEF VaTypes, n
          <6>2. i2 > j
            BY <4>1, <6>1, <6>4
          <6>3. j + 1 \in 1..n
            BY <1>3, <6>2
          <6>7. states[j + 1].at <= states[i2].at
            BY <1>1, <1>3, <6>2, <6>3 DEF VaTypes, n
          <6>6. p.to = states[j + 1].at
            BY <1>3, <4>2, <6>3
          <6> QED
            BY <2>2, <3>1, <4>2, <6>1, <6>7, <6>6, SMT
        <5> QED
          BY <4>3, <5>1
      <4>6. t >= since \/ t < since
        BY <2>2, <4>1, SMT
      <4> QED
        BY <4>4, <4>5, <4>6, Zenon
    <3> QED
      BY <3>4, <3>5, <3>6
  <2> QED
    BY <2>3, <2>4
<1>18. UnfinishedIsToldUnlessGone'
  <2>1. DOMAIN planRuns = 1..Len(planRuns)
    BY <1>1, RecordsAre
  <2>2. ASSUME NEW since, NEW S PROVE Period(since, S)' = Period(since, S)
    BY <1>2 DEF Period
  <2>3. ASSUME NEW since PROVE Incidents(since)' = Incidents(since)
    BY <2>2 DEF Incidents
  <2>4. ASSUME NEW r, Unfinished(r)' PROVE Unfinished(r)
    BY <1>2, <2>4, Zenon DEF Unfinished, FailedRun, Ended, Recently
  <2>5. ASSUME NEW r, NEW m \in toldV',
               m[2] >= r.start - RunHorizon \/ OnlyBecame(m[2], r.start - 1, StuckStates \cup {"unavailable"})
        PROVE  ToldOf(r)'
    BY <1>2, <2>5, Zenon DEF ToldOf, OnlyBecame
  <2> SUFFICES ASSUME NEW r \in PlanRun, \E i \in 1..Len(planRuns) : r = planRuns[i], Unfinished(r)'
               PROVE  \/ ToldOf(r)'
                      \/ Period(r.start - RunHorizon, {"unavailable"})' # {}
                      \/ \E p \in Incidents(r.start - RunHorizon)' : p.to >= r.start /\ p.to - p.from < 2
    <3>1. DOMAIN planRuns' = 1..Len(planRuns)
      BY <1>2, <2>1
    <3> QED
      BY <1>2, <1>3, <3>1, Zenon DEF UnfinishedIsToldUnlessGone
  <2> QED
    BY <1>17, <2>2, <2>3, <2>4, <2>5, Zenon
<1> QED
  BY <1>10, <1>12, <1>14, <1>15, <1>16, <1>18 DEF VaInv

LEMMA VaInvStays == VaInv /\ [VaNext]_vaVars => VaInv'
<1> SUFFICES ASSUME VaInv, [VaNext]_vaVars PROVE VaInv'
  OBVIOUS
<1>1. ASSUME NEW s \in RobotStates, RobotTurns(s) PROVE VaInv'
  BY <1>1, RobotTurnsStays
<1>2. CASE PlanStarts
  BY <1>2, PlanStartsStays
<1>3. ASSUME NEW how, PlanStops(how) PROVE VaInv'
  BY <1>3, PlanStopsStays
<1>4. CASE HalfHour
  BY <1>4, HalfHourStays
<1>5. CASE Judges
  BY <1>5, JudgesStays
<1>6. CASE UNCHANGED vaVars
  <2>1. /\ nowV' = nowV /\ states' = states /\ planRuns' = planRuns /\ openV' = openV /\ toldV' = toldV
        /\ polledV' = polledV /\ turns' = turns
    BY <1>6, Zenon DEF vaVars
  <2>2. VaTypes' <=> VaTypes
    BY <2>1, Zenon DEF VaTypes
  <2>3. StuckKept' <=> StuckKept
    BY <2>1, Zenon DEF StuckKept, StandsSince, OnlyBecame, RobotIs
  <2>4. StuckIsTold' <=> StuckIsTold
    BY <2>1, Zenon DEF StuckIsTold
  <2>5. FailureIsTold' <=> FailureIsTold
    BY <2>1, Zenon DEF FailureIsTold, LastRun
  <2>6. OneMessagePerIncident' <=> OneMessagePerIncident
    BY <2>1, Zenon DEF OneMessagePerIncident, OnlyBecame
  <2>7. UnfinishedIsToldUnlessGone' <=> UnfinishedIsToldUnlessGone
    <3>1. \A since, S : Period(since, S)' = Period(since, S)
      BY <2>1 DEF Period
    <3>2. \A since : Incidents(since)' = Incidents(since)
      BY <3>1, Zenon DEF Incidents
    <3>3. \A r : Unfinished(r)' <=> Unfinished(r)
      BY <2>1, Zenon DEF Unfinished, FailedRun, Ended, Recently
    <3>4. \A r : ToldOf(r)' <=> ToldOf(r)
      BY <2>1, Zenon DEF ToldOf, OnlyBecame
    <3> QED
      BY <2>1, <3>1, <3>2, <3>3, <3>4, Zenon DEF UnfinishedIsToldUnlessGone
  <2> QED
    BY <2>2, <2>3, <2>4, <2>5, <2>6, <2>7 DEF VaInv
<1> QED
  BY <1>1, <1>2, <1>3, <1>4, <1>5, <1>6 DEF VaNext, RobotStates

LEMMA VaInvIsEnough == VaInv => VacuumAlertsSafe
<1> SUFFICES ASSUME VaInv PROVE VacuumAlertsSafe
  OBVIOUS
<1>1. VaTypes
  BY DEF VaInv
<1>2. \A i \in 1..Len(states) - 1 : states[i].at <= states[i + 1].at /\ states[i].state # states[i + 1].state
  <2> SUFFICES ASSUME NEW i \in 1..Len(states) - 1
               PROVE  states[i].at <= states[i + 1].at /\ states[i].state # states[i + 1].state
    OBVIOUS
  <2>1. Len(states) \in Nat
    BY <1>1, RecordsAre
  <2>2. i \in 1..Len(states) /\ i + 1 \in 1..Len(states) /\ i <= i + 1
    BY <2>1
  <2> QED
    BY <1>1, <2>2 DEF VaTypes
<1>3. VaTypeOK
  BY <1>1, <1>2, Zenon DEF VaTypes, VaTypeOK, RobotAlerts, Loud
<1> QED
  BY <1>3 DEF VaInv, VacuumAlertsSafe

\* A robot that was told as stuck and has not moved is not told again for a day, nor its plan with it, and of
\* a plan that did not finish something is told, in whatever order states, plans and polls come (ha-alerts).
THEOREM VacuumAlertsStaySafe == HostSpec => []VacuumAlertsHold
<1> DEFINE Inv == part = "vacuumAlerts" => VaInv
<1>1. HostInit => Inv
  BY PartStarts, VaStartsWell
<1>2. Inv /\ [HostNext]_hostVars => Inv'
  BY PartMoves, VaInvStays
<1>3. Inv => VacuumAlertsHold
  BY VaInvIsEnough DEF VacuumAlertsHold
<1> QED
  BY <1>1, <1>2, <1>3, PTL DEF HostSpec

\* HostSteps: no step ends the time of an open breaker early without a command, lists as foreign what the
\* timetable explains, or overwrites a tag that is set.
THEOREM StepsOfTheHost == HostSpec => HostSteps
<1> DEFINE I == /\ part = "relay" => RelayInv
                /\ part = "plugAlerts" => PlugInv
                /\ part = "music" => MtInv
           A == /\ part = "relay" => BreakerStays
                /\ part = "plugAlerts" => EdgesAreNotForeign
                /\ part = "music" => SetIsKept
<1>1. HostInit => I
  BY PartStarts, RelayStarts, PlugStarts, MtStarts, Zenon
<1>2. I /\ [HostNext]_hostVars => I'
  BY PartMoves, RelayStays, PlugStays, MtStays, Zenon
<1>3. I /\ [HostNext]_hostVars => A
  BY PartMoves, BreakersStay, EdgesStayExplained, SetTagsAreKept, Zenon
<1>4. HostSteps <=> [][A]_hostVars
  BY Zenon DEF HostSteps
<1> QED
  BY <1>1, <1>2, <1>3, <1>4, PTL DEF HostSpec

=============================================================================
