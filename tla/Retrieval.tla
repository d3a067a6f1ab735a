----------------------------- MODULE Retrieval -----------------------------
(***************************************************************************)
(* query_knowledge: hybrid retrieval over the index while it is written.   *)
(*                                                                         *)
(* A query ranks chunks in several legs, fuses the rankings, discounts     *)
(* what refers to shelved notes and what repeats a note, and cuts.  Every  *)
(* leg is a statement of its own and sees the index as it is then: notes   *)
(* are rewritten and shelved between them, and every indexing of a note    *)
(* mints new ids for its chunks.  Then the tool asks once more, for how    *)
(* many falsified notes were left out.                                     *)
(*                                                                         *)
(* What the database computes from text is given: how far a chunk is from  *)
(* the query in each provider's space, and how high ts_rank_cd ranks it    *)
(* under the query's conjunction and under the disjunction of its terms.   *)
(* Which edges the index holds is LinkGraph's subject, which embeddings it *)
(* holds Migration's; here an edge is there when both its ends are.        *)
(***************************************************************************)
EXTENDS Integers, Sequences, FiniteSets

CONSTANTS
  Notes,       \* notes, as numbers in the order of their paths
  Project,     \* the project of each; None is global
  Category,    \* the category of each
  Texts,       \* what a note may say
  Chunks,      \* the chunks of a text: [every, any, distance in each provider's space],
               \* every and any the larger the higher a chunk ranks for all of the terms
               \* or for any, 0 when it does not match
  Whole,       \* the texts that match the query as a whole
  Refs,        \* the notes a text refers to
  TextsOf,     \* the texts a note may have
  Heads,       \* the frontmatters a write may bring: [status, created, since]
  Providers,   \* how many providers are registered; distance 0: no embedding
  Pool,        \* bound: candidatePool
  Scale,       \* what makes the weight of every rank a whole number
  Asks,        \* queries: their filters, their bias and how much they want
  Starts,      \* what the index may start with
  None,
  Scenarios    \* bounds: how many writes, ticks and faults may happen together, how
               \* often the vector index strays, and with which queries

Shelf    == {"faded", "archived"}
Statuses == {"active", "falsified"} \cup Shelf

RrfK == 60

Row == [text : Texts, mint : Nat, status : Statuses, created : Nat, since : Nat]

(* since is falsified_at or archived_at, as the status has it; 0: neither. *)
Frontmatter == [status : Statuses, created : Nat, since : Nat]

Ask == [project : {Project[n] : n \in Notes} \cup {None}, falsified : BOOLEAN,
        archived : BOOLEAN, asOf : Nat \cup {None}, bias : [{Category[n] : n \in Notes} -> Nat],
        topK : Nat]

Bounds == [writes : Nat, ticks : Nat, faults : Nat, strays : Nat, asks : SUBSET Asks]

ASSUME RetrievalAssumption ==
  /\ Notes \subseteq Nat /\ IsFiniteSet(Notes)
  /\ Refs \in [Texts -> SUBSET Notes] /\ TextsOf \in [Notes -> SUBSET Texts]
  /\ Heads \subseteq Frontmatter /\ Providers \in Nat /\ Pool \in Nat \ {0}
  /\ Scale \in Nat \ {0} /\ \A rank \in 1..Pool : Scale % (RrfK + rank) = 0
  /\ \A t \in Texts :
       Chunks[t] \in Seq([every : Nat, any : Nat, distance : [1..Providers -> Nat]])
  /\ None \notin Nat \cup Statuses \cup Row /\ Asks \subseteq Ask
  /\ Starts \subseteq [Notes -> Row \cup {None}]
  /\ \A start \in Starts, n \in Notes :
       start[n] # None => start[n].mint = 0 /\ start[n].created <= 1 /\ start[n].since <= 1
  /\ Scenarios \subseteq Bounds

VARIABLES
  row,      \* the notes table and its chunks
  mints,    \* how often chunk ids were minted
  now,
  query,    \* the query that is running, or has run
  past,     \* history variable: the status of every note at the end of each day
  told,     \* history variable: the last day that the frontmatter a note was written with
            \* speaks of or was written on; 0 for what a run or the index dated itself
  offered,  \* history variable: chunks the query's filter has let through
  quiet,    \* history variable: nothing was written since the query began
  budget    \* what is left of the bounds

vars == <<row, mints, now, query, past, told, offered, quiet, budget>>

-----------------------------------------------------------------------------
(* What a statement sees.  A chunk is named by its note, the minting of    *)
(* its id and its ordinal.                                                 *)

Indexed(rows) == {n \in Notes : rows[n] # None}

ChunksOf(rows, n) == {<<n, rows[n].mint, k>> : k \in 1..Len(Chunks[rows[n].text])}

Content(rows, c) == Chunks[rows[c[1]].text][c[3]]

(* Mutant: as of a day, what was archived since is as gone as it is now.   *)
VisibleForgetful(r, ask) ==
  IF ask.asOf = None
  THEN (ask.falsified \/ r.status # "falsified") /\ (ask.archived \/ r.status \notin Shelf)
  ELSE /\ r.created <= ask.asOf
       /\ ask.falsified \/ r.status # "falsified" \/ r.since > ask.asOf
       /\ ask.archived \/ r.status \notin Shelf

(* timeFilterSQL.                                                          *)
Visible(r, ask) ==
  IF ask.asOf = None
  THEN (ask.falsified \/ r.status # "falsified") /\ (ask.archived \/ r.status \notin Shelf)
  ELSE /\ r.created <= ask.asOf
       /\ ask.falsified \/ r.status # "falsified" \/ r.since > ask.asOf
       /\ ask.archived \/ r.status \notin Shelf \/ r.since > ask.asOf

InScope(n, ask) == ask.project = None \/ Project[n] \in {ask.project, None}

Through(rows, ask) ==
  UNION {ChunksOf(rows, n) : n \in {m \in Indexed(rows) : Visible(rows[m], ask)}}

Scoped(rows, ask) == {c \in Through(rows, ask) : InScope(c[1], ask)}

-----------------------------------------------------------------------------
(* The legs.                                                               *)

(* A set by score, the larger first, and ties as told.                     *)
Sorted(S, score, tie) ==
  LET Before(x, y) == score[x] > score[y] \/ (score[x] = score[y] /\ <<x, y>> \in tie)
  IN [k \in 1..Cardinality(S) |->
        CHOOSE x \in S : Cardinality({y \in S : Before(y, x)}) = k - 1]

(* Mutant: no limit.                                                       *)
FirstAll(s, limit) == s

First(s, limit) == SubSeq(s, 1, IF Len(s) < limit THEN Len(s) ELSE limit)

(* The order of paths and ordinals, which survives reindexing.             *)
InPlace(S) ==
  {pair \in S \X S : LET c == pair[1] d == pair[2]
                     IN c[1] < d[1] \/ (c[1] = d[1] /\ c[3] < d[3])}

(* Chunks with an embedding, and what a vector index may return of them:   *)
(* pgvector's is approximate, and in relaxed order (store.go:92-121).      *)
Near(rows, ask, p) == {c \in Scoped(rows, ask) : Content(rows, c).distance[p] > 0}

VectorLegs(rows, ask, p) ==
  {leg \in UNION {[1..len -> Near(rows, ask, p)] : len \in 0..Pool} :
     \A k, l \in DOMAIN leg : leg[k] = leg[l] => k = l}

(* By distance, and ties in any order: the statement has no tie-break.     *)
Nearest(rows, ask, p, leg) ==
  LET Distance(c) == Content(rows, c).distance[p]
      rest        == Near(rows, ask, p) \ {leg[k] : k \in 1..Len(leg)}
  IN /\ Len(leg) < Pool => rest = {}
     /\ \A k \in 1..Len(leg) : /\ \A c \in rest : Distance(leg[k]) <= Distance(c)
                               /\ \A l \in k..Len(leg) : Distance(leg[k]) <= Distance(leg[l])

(* Mutant: ties in the order the rows are stored in.                       *)
FtsLegStored(S, rank) ==
  First(Sorted(S, rank,
               {pair \in S \X S : LET c == pair[1] d == pair[2]
                                  IN c[2] > d[2] \/ (c[2] = d[2] /\ pair \in InPlace(S))}), Pool)

FtsLeg(S, rank) == First(Sorted(S, rank, InPlace(S)), Pool)

(* RankFTSMode: chunks that match the conjunction, or any of its terms.    *)
AllTerms(rows, ask) ==
  LET found == {c \in Scoped(rows, ask) : Content(rows, c).every > 0}
  IN FtsLeg(found, [c \in found |-> Content(rows, c).every])

ByAny(S, rows) == FtsLeg(S, [c \in S |-> Content(rows, c).any])

AnyTerm(rows, ask) == ByAny({c \in Scoped(rows, ask) : Content(rows, c).any > 0}, rows)

(* RankFTSNoteLevel: chunks that match any, of notes that match as a whole.*)
InWhole(rows, c) == Content(rows, c).any > 0 /\ rows[c[1]].text \in Whole

FallbackBelow == 2

(* Mutant: no more than it takes to end the fallbacks.                     *)
NoteLevelShort(rows, ask) ==
  First(ByAny({c \in Scoped(rows, ask) : InWhole(rows, c)}, rows), FallbackBelow)

NoteLevel(rows, ask) == ByAny({c \in Scoped(rows, ask) : InWhole(rows, c)}, rows)

Edges(rows) == {e \in Notes \X Notes : {e[1], e[2]} \subseteq Indexed(rows)
                                       /\ e[2] \in Refs[rows[e[1]].text] /\ e[1] # e[2]}

(* By how many of some notes refer to a chunk's note.                      *)
Linked(rows, S, seeds) ==
  LET Reaching(n) == {s \in seeds : <<s, n>> \in Edges(rows)}
      found       == {c \in S : Reaching(c[1]) # {}}
  IN First(Sorted(found, [c \in found |-> Cardinality(Reaching(c[1]))], InPlace(found)), Pool)

(* Mutant: what is linked to is found whatever became of it.               *)
GraphLegUnfiltered(rows, ask, seeds) ==
  Linked(rows, UNION {ChunksOf(rows, n) : n \in Indexed(rows)}, seeds)

(* RankGraphMulti, one hop.                                                *)
GraphLeg(rows, ask, seeds) == Linked(rows, Through(rows, ask), seeds)

(* ArchivedLinkers: by what the notes referred to are now.                 *)
ArchivedLinkers(rows, notes) ==
  {n \in notes : \E m \in Indexed(rows) : <<n, m>> \in Edges(rows) /\ rows[m].status \in Shelf}

-----------------------------------------------------------------------------
(* Fusion.  Scores are integers: they are multiplied by Scale, and by what *)
(* makes every discount whole.                                             *)

Items(leg) == {leg[k] : k \in 1..Len(leg)}

(* The graph leg comes last and has half the weight of the others.         *)
Weight(legs, l) == IF l = Len(legs) THEN 1 ELSE 2

(* What a leg's rank for a chunk adds to its score.                        *)
Share(legs, l, c) ==
  IF c \notin Items(legs[l]) THEN 0
  ELSE LET rank == CHOOSE k \in 1..Len(legs[l]) : legs[l][k] = c
       IN Weight(legs, l) * (Scale \div (RrfK + rank))

Rrf(legs, c) ==
  LET upTo[l \in 0..Len(legs)] == IF l = 0 THEN 0 ELSE upTo[l - 1] + Share(legs, l, c)
  IN upTo[Len(legs)]

(* Where a chunk appears: by leg, then by rank.                            *)
Appearances(legs, c) ==
  {at \in (1..Len(legs)) \X (1..Pool) : at[2] <= Len(legs[at[1]]) /\ legs[at[1]][at[2]] = c}

(* A chunk appears before another appears at all.                          *)
Sooner(legs, c, d) ==
  \E at \in Appearances(legs, c) : \A other \in Appearances(legs, d) :
    at[1] < other[1] \/ (at[1] = other[1] /\ at[2] < other[2])

(* Ties in the order of first appearance.                                  *)
FuseRRF(legs) ==
  LET found == UNION {Items(legs[l]) : l \in 1..Len(legs)}
      items == Sorted(found, [c \in found |-> Rrf(legs, c)],
                      {pair \in found \X found : Sooner(legs, pair[1], pair[2])})
  IN [k \in 1..Len(items) |-> [item |-> items[k], score |-> Rrf(legs, items[k])]]

(* A stable sort.                                                          *)
Resorted(s) ==
  LET places == 1..Len(s)
      order  == Sorted(places, [k \in places |-> s[k].score],
                       {pair \in places \X places : pair[1] < pair[2]})
  IN [k \in places |-> s[order[k]]]

(* rescore: every item's score times the factor of its place.              *)
Rescored(s, factor) == Resorted([k \in 1..Len(s) |-> [s[k] EXCEPT !.score = @ * factor[k]]])

(* Mutant: half the score.                                                 *)
PenalizedByHalf(s, stale) ==
  Rescored(s, [k \in 1..Len(s) |-> IF s[k].item[1] \in stale THEN 10 ELSE 20])

(* archivedLinkPenalty is 0.15, or 3 of 20.                                *)
Penalized(s, stale) ==
  Rescored(s, [k \in 1..Len(s) |-> IF s[k].item[1] \in stale THEN 3 ELSE 20])

Biased(s, bias) == Rescored(s, [k \in 1..Len(s) |-> bias[Category[s[k].item[1]]]])

(* diversityDecay is 1/2 for every earlier chunk of the same note.         *)
Repeats(s, k) == Cardinality({l \in 1..(k - 1) : s[l].item[1] = s[k].item[1]})

Doubled(n) == LET upTo[k \in 0..n] == IF k = 0 THEN 1 ELSE 2 * upTo[k - 1] IN upTo[n]

Diversified(s) == Rescored(s, [k \in 1..Len(s) |-> Doubled(Len(s) - Repeats(s, k))])

Hits(legs, stale, ask) ==
  LET ranked == Diversified(Biased(Penalized(FuseRRF(legs), stale), ask.bias))
  IN First([k \in 1..Len(ranked) |-> ranked[k].item], ask.topK)

NotesOf(legs) == {c[1] : c \in UNION {Items(legs[l]) : l \in 1..Len(legs)}}

-----------------------------------------------------------------------------
(* The query.                                                              *)

Leg == Seq(Notes \X Nat \X Nat)

Query == [pc : {"idle", "legs", "rank", "hint", "answered", "failed"}, ask : Asks \cup {None},
          vector : [1..Providers -> Leg \cup {None}],
          fts : {"and", "note", "or", "done"}, conjunction : Leg, keyword : Leg, graph : Leg,
          stale : SUBSET Notes, hits : Leg, hint : SUBSET Notes]

NoQuery == [pc |-> "idle", ask |-> None, vector |-> [p \in 1..Providers |-> None], fts |-> "and",
            conjunction |-> <<>>, keyword |-> <<>>, graph |-> <<>>, stale |-> {}, hits |-> <<>>,
            hint |-> {}]

Running == query.pc \in {"legs", "rank", "hint"}

Undisturbed == UNCHANGED <<row, mints, now, past, told, offered, quiet>>

Reads == Undisturbed /\ UNCHANGED budget

Begin ==
  /\ query.pc = "idle"
  /\ \E ask \in budget.asks :
       /\ ask.asOf # None => ask.asOf <= now
       /\ query' = [NoQuery EXCEPT !.pc = "legs", !.ask = ask]
       /\ offered' = Through(row, ask)
  /\ quiet' = TRUE
  /\ UNCHANGED <<row, mints, now, past, told, budget>>

(* The primary legs run at the same time, each into a slot of its own.  A  *)
(* leg that is not the nearest counts against a bound.                     *)
RankVector(p) ==
  /\ query.pc = "legs" /\ query.vector[p] = None
  /\ \E leg \in VectorLegs(row, query.ask, p) :
       /\ query' = [query EXCEPT !.vector[p] = leg]
       /\ \/ Nearest(row, query.ask, p, leg) /\ UNCHANGED budget
          \/ budget.strays > 0 /\ budget' = [budget EXCEPT !.strays = @ - 1]
  /\ Undisturbed

Starved(leg, next) == IF Len(leg) < FallbackBelow THEN next ELSE "done"

Longer(leg, other) == IF Len(other) > Len(leg) THEN other ELSE leg

RankFTS ==
  LET found == AllTerms(row, query.ask)
  IN /\ query.pc = "legs" /\ query.fts = "and"
     /\ query' = [query EXCEPT !.fts = Starved(found, "note"),
                               !.conjunction = found, !.keyword = found]
     /\ Reads

(* The fallbacks, each taken if it found more.                             *)
RankFTSNoteLevel ==
  LET best == Longer(query.keyword, NoteLevel(row, query.ask))
  IN /\ query.pc = "legs" /\ query.fts = "note"
     /\ query' = [query EXCEPT !.fts = Starved(best, "or"), !.keyword = best]
     /\ Reads

RankFTSOr ==
  /\ query.pc = "legs" /\ query.fts = "or"
  /\ query' = [query EXCEPT !.fts = "done", !.keyword = Longer(@, AnyTerm(row, query.ask))]
  /\ Reads

Primary == Append(query.vector, query.keyword)

(* When every primary leg is in: seeded by what they found.                *)
RankGraph ==
  /\ query.pc = "legs"
  /\ query.fts = "done" /\ \A p \in 1..Providers : query.vector[p] # None
  /\ query' = [query EXCEPT !.pc = "rank", !.graph = GraphLeg(row, query.ask, NotesOf(Primary))]
  /\ Reads

Legs == Append(Primary, query.graph)

Answer ==
  LET stale == ArchivedLinkers(row, NotesOf(Legs))
  IN /\ query.pc = "rank"
     /\ query' = [query EXCEPT !.pc = "hint", !.stale = stale,
                               !.hits = Hits(Legs, stale, query.ask)]
     /\ Reads

(* CountSuppressedFalsified: falsified notes with a chunk that matches.    *)
Suppressed(ask) ==
  {n \in Indexed(row) : /\ ~ask.falsified /\ row[n].status = "falsified" /\ InScope(n, ask)
                        /\ \E c \in ChunksOf(row, n) : Content(row, c).every > 0}

Hint ==
  /\ query.pc = "hint"
  /\ query' = [query EXCEPT !.pc = "answered", !.hint = Suppressed(query.ask)]
  /\ Reads

Fault == /\ budget.faults > 0
         /\ budget' = [budget EXCEPT !.faults = @ - 1]

(* An embedding call or a statement fails, and the query with it; the hint *)
(* is left out.                                                            *)
Fail ==
  /\ Running /\ Fault
  /\ query' = [query EXCEPT !.pc = IF @ = "hint" THEN "answered" ELSE "failed"]
  /\ Undisturbed

-----------------------------------------------------------------------------
(* Meanwhile: notes are indexed.                                           *)

Indexes(n, r) ==
  /\ budget.writes > 0
  /\ budget' = [budget EXCEPT !.writes = @ - 1]
  /\ row' = [row EXCEPT ![n] = [r EXCEPT !.mint = mints + 1]]
  /\ mints' = mints + 1
  /\ offered' = IF Running THEN offered \cup Through(row', query.ask) ELSE offered
  /\ quiet' = (quiet /\ ~Running)
  /\ UNCHANGED <<now, query, past>>

(* The text changes under the frontmatter that is there.                   *)
Edit(n) ==
  /\ row[n] # None
  /\ \E t \in TextsOf[n] : Indexes(n, [row[n] EXCEPT !.text = t])
  /\ UNCHANGED told

Today == [status |-> "active", created |-> now, since |-> 0]

LastDay(head) ==
  CHOOSE day \in {now, head.created, head.since} :
    \A other \in {now, head.created, head.since} : other <= day

(* A file comes with frontmatter of its own (a new note, write_note over   *)
(* an old one, restore_note, an edit by hand), and the index takes status  *)
(* and dates from it, whatever they were.                                  *)
Write(n) ==
  \E t \in TextsOf[n], head \in Heads \cup {Today} :
    /\ Indexes(n, [text |-> t, mint |-> 0, status |-> head.status,
                   created |-> head.created, since |-> head.since])
    /\ told' = IF row[n] = None /\ head = Today THEN told
               ELSE [told EXCEPT ![n] = LastDay(head)]

(* A compile run falsifies a note or archives it, and says when.           *)
Shelve(n) ==
  /\ row[n] # None /\ row[n].status = "active"
  /\ \E status \in Statuses \ {"active"} :
       Indexes(n, [row[n] EXCEPT !.status = status, !.since = now])
  /\ UNCHANGED told

StatusNow == [n \in Notes |-> IF row[n] = None THEN None ELSE row[n].status]

Tick ==
  /\ budget.ticks > 0
  /\ budget' = [budget EXCEPT !.ticks = @ - 1]
  /\ now' = now + 1 /\ past' = Append(past, StatusNow)
  /\ UNCHANGED <<row, mints, query, told, offered, quiet>>

Init ==
  /\ row \in Starts
  /\ mints = 0 /\ now = 1 /\ past = <<>> /\ told = [n \in Notes |-> 0]
  /\ query = NoQuery
  /\ offered = {} /\ quiet = FALSE
  /\ budget \in Scenarios

Next ==
  \/ Begin \/ RankFTS \/ RankFTSNoteLevel \/ RankFTSOr \/ RankGraph \/ Answer \/ Hint \/ Fail \/ Tick
  \/ \E p \in 1..Providers : RankVector(p)
  \/ \E n \in Notes : Edit(n) \/ Write(n) \/ Shelve(n)

Spec == Init /\ [][Next]_vars

-----------------------------------------------------------------------------
TypeOK ==
  /\ row \in [Notes -> Row \cup {None}] /\ mints \in Nat /\ now \in Nat
  /\ query \in Query /\ query.hint \subseteq Indexed(row)
  /\ \A l \in 1..Len(Legs) : Legs[l] # None => Len(Legs[l]) <= Pool
  /\ query.ask # None => Len(query.hits) <= query.ask.topK
  /\ past \in Seq([Notes -> Statuses \cup {None}]) /\ Len(past) = now - 1
  /\ told \in [Notes -> Nat]
  /\ quiet \in BOOLEAN /\ budget \in Bounds

(* Whichever leg found it and however the index changed between the legs,  *)
(* a hit is a chunk that the query's filter let through at some moment of  *)
(* the query: what was shelved before it began stays out, the graph        *)
(* included, and no text comes back that was replaced before               *)
(* (query_legs.go:41-56, 340-350).                                         *)
HitsWereOffered ==
  query.pc \in {"hint", "answered"} => Items(query.hits) \subseteq offered

(* As of a day, the filter lets a note through exactly if it was there and *)
(* believed at the end of that day.                                        *)
AsBelieved(n, day) ==
  \A falsified, archived \in BOOLEAN :
    LET ask == [asOf |-> day, falsified |-> falsified, archived |-> archived]
    IN Visible(row[n], ask) <=>
         /\ past[day][n] # None
         /\ falsified \/ past[day][n] # "falsified"
         /\ archived \/ past[day][n] \notin Shelf

(* It does so for every note and every day that the note's frontmatter was *)
(* not written after, whatever was falsified, archived or edited since     *)
(* (query.go:118-120, query_legs.go:50-54).                                *)
AsOfAsBelieved ==
  \A n \in Indexed(row) : \A day \in 1..Len(past) : told[n] <= day => AsBelieved(n, day)

(* A chunk that the keyword leg found first, that was not shelved or       *)
(* replaced since, and whose note matches as a whole, is lost to a         *)
(* fallback only at the limit: the leg that took its place is full         *)
(* (query.go:552-569).                                                     *)
FallbackKeeps ==
  query.ask # None /\ query.fts = "done" =>
    \/ Len(query.keyword) = Pool
    \/ {c \in Items(query.conjunction) \cap Through(row, query.ask) : InWhole(row, c)}
         \subseteq Items(query.keyword)

(* Given what the vector indexes returned, the answer to a query during    *)
(* which nothing is written depends on what the notes say, not on when or  *)
(* in which order they were indexed (query_legs.go:20-28: chunk ids and    *)
(* physical order change with every reindex) or on which leg finished      *)
(* first (query.go:519-524).                                               *)
Alike(rows) == [n \in Notes |-> IF rows[n] = None THEN None ELSE [rows[n] EXCEPT !.mint = 0]]

AlikeLeg(leg) == [k \in 1..Len(leg) |-> <<leg[k][1], 0, leg[k][3]>>]

KeywordLeg(rows, ask) ==
  LET conjunction == AllTerms(rows, ask)
      noteLevel   == Longer(conjunction, NoteLevel(rows, ask))
  IN IF Len(conjunction) >= FallbackBelow THEN conjunction
     ELSE IF Len(noteLevel) >= FallbackBelow THEN noteLevel
     ELSE Longer(noteLevel, AnyTerm(rows, ask))

Reference(rows, vector, ask) ==
  LET primary == Append(vector, KeywordLeg(rows, ask))
      legs    == Append(primary, GraphLeg(rows, ask, NotesOf(primary)))
  IN Hits(legs, ArchivedLinkers(rows, NotesOf(legs)), ask)

Place(c) == <<c[1], c[3]>>

AnswerFromContent ==
  query.pc = "hint" /\ quiet =>
    LET reference == Reference(Alike(row), [p \in 1..Providers |-> AlikeLeg(query.vector[p])],
                               query.ask)
    IN /\ Len(query.hits) = Len(reference)
       /\ \A k \in 1..Len(reference) : Place(query.hits[k]) = Place(reference[k])

(* Without a persona's bias, a note that refers to a shelved note never    *)
(* comes before the best chunk of a note that does not and was found by    *)
(* meaning or by words (query.go:81-85).                                   *)
Unbiased(ask) == \A x, y \in DOMAIN ask.bias : ask.bias[x] = ask.bias[y]

StaleComesLast ==
  query.pc \in {"hint", "answered"} /\ Unbiased(query.ask) =>
    \A k, l \in 1..Len(query.hits) :
      LET best == /\ query.hits[l][1] \notin query.stale
                  /\ \E g \in 1..Len(Primary) : query.hits[l] \in Items(Primary[g])
                  /\ \A m \in 1..(l - 1) : query.hits[m][1] # query.hits[l][1]
      IN k < l /\ best => query.hits[k][1] \notin query.stale

=============================================================================
