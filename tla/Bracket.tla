-------------------------------- MODULE Bracket --------------------------------
(***************************************************************************)
(* The bracket of a tournament: how bracket.ts builds it, how the          *)
(* orchestrator resolves its slots group by group, and how progression.ts  *)
(* reads the ranking off the results.                                      *)
(*                                                                         *)
(* Orders drawn from hashes are arbitrary choices, up to what a renaming   *)
(* of entrants or of the sides of a match makes equal: entrant i is the    *)
(* i-th of the first order, and of two entrants who have not played yet    *)
(* side A wins.                                                            *)
(***************************************************************************)
EXTENDS Integers, Sequences, FiniteSets, Functions, TLC

CONSTANTS Fields,   \* the brackets to build: <<number of entrants, revision>>
          MaxWidth  \* bound: slots of a round whose order is chosen

VARIABLES field, matches, sources, round, results, status, ranking

bracketVars == <<field, matches, sources, round, results, status, ranking>>

Slot(kind, of) == [kind |-> kind, of |-> of]
Match(id, stage, r, a, b) == [id |-> id, stage |-> stage, round |-> r, a |-> a, b |-> b]
size == field[1]
MaxMatches == 2 * 32
Decided == {"A_WIN", "B_WIN"}

BracketTypeOK ==
    /\ field \in Fields
    /\ \A i \in 1..Len(matches) :
          /\ matches[i].id \in 1..MaxMatches
          /\ matches[i].stage \in {"preliminary", "main", "third_place", "fifth_place"}
    /\ \A i \in 1..Len(sources) : sources[i].kind \in {"entrant", "winner"}
    /\ DOMAIN results \subseteq {m.id : m \in Range(matches)}
    /\ status \in {"building", "playing", "COMPLETE", "thrown"}

BracketInit ==
    /\ field \in Fields
    /\ matches = <<>> /\ results = <<>> /\ ranking = <<>>
    /\ sources = [i \in 1..size |-> Slot("entrant", i)]
    /\ round = IF field[2] >= 2 THEN 1 ELSE 0
    /\ status = "building"

-----------------------------------------------------------------------------
(* Building. *)

\* Neighbours play each other from the first slot that has no bye on.
Pairs(s, r, stage, bye) ==
    [i \in 1..((Len(s) - bye) \div 2) |->
        Match(Len(matches) + i, stage, r, s[bye + 2 * i - 1], s[bye + 2 * i])]
Winners(ms) == [i \in 1..Len(ms) |-> Slot("winner", ms[i].id)]

\* The orders of k slots that differ in the bye or in who meets whom.
Orders ==
    [k \in 1..MaxWidth |->
        {p \in [1..k -> 1..k] :
            /\ \A i, j \in 1..k : i # j => p[i] # p[j]
            /\ \A i \in 1..k : (i + k) % 2 = 1 => p[i] < p[i + 1]
            /\ \A i \in 1..k : (i + k) % 2 = 1 /\ i + 2 <= k => p[i] < p[i + 2]}]

\* buildRollingByeBracket, one round: an odd field leaves one bye.
RollingRound ==
    /\ status = "building" /\ field[2] >= 2 /\ Len(sources) > 1
    /\ \E p \in IF round = 1 THEN {[i \in 1..size |-> i]} ELSE Orders[Len(sources)] :
          LET s == [i \in 1..Len(sources) |-> sources[p[i]]]
              bye == Len(s) % 2
              new == Pairs(s, round, "main", bye)
          IN  /\ matches' = matches \o new
              /\ sources' = SubSeq(s, 1, bye) \o Winners(new)
    /\ round' = round + 1
    /\ UNCHANGED <<field, results, status, ranking>>

\* Mutant of RollingOrder: the third place is listed before the match it waits for.
RollingOrderSwapped(fifth, third, final) == <<third, fifth, final>>
RollingOrder(fifth, third, final) == <<fifth, third, final>>

\* The last losers before the final, those of a later round first, play for the
\* places: the first of them meets the winner of the other two.
RollingPlaces ==
    /\ status = "building" /\ field[2] >= 2 /\ Len(sources) = 1
    /\ LET final == matches[Len(matches)]
           rest == SubSeq(matches, 1, Len(matches) - 1)
           k == Len(matches)
       IN  \E c \in [1..3 -> 1..Len(rest)] :
              /\ \A i \in 1..3, m \in 1..Len(rest) :
                    /\ i > 1 => c[i] # c[i - 1] /\ c[i] # c[1]
                    /\ rest[m].round > rest[c[i]].round => \E j \in 1..(i - 1) : c[j] = m
              /\ LET loser(i) == Slot("loser", rest[c[i]].id)
                     fifth == Match(k + 1, "fifth_place", 1, loser(2), loser(3))
                     third == Match(k + 2, "third_place", 1, loser(1), Slot("winner", k + 1))
                 IN  matches' = rest \o RollingOrder(fifth, third, final)
    /\ status' = "playing"
    /\ UNCHANGED <<field, sources, round, results, ranking>>

Power == IF size >= 32 THEN 32 ELSE IF size >= 16 THEN 16 ELSE 8

\* The older revision: a preliminary round fills a main bracket whose size is a
\* power of two; the hash places its winners anywhere.
Preliminary ==
    /\ status = "building" /\ field[2] < 2 /\ round = 0
    /\ LET p == size - Power
           new == Pairs(SubSeq(sources, 1, 2 * p), 0, "preliminary", 0)
           rest == SubSeq(sources, 2 * p + 1, size)
       IN  \E at \in [1..p -> 1..Power] :
              /\ \A i, j \in 1..p : i < j => at[i] < at[j]
              /\ matches' = new
              /\ LET taken == Range(at)
                     below(i, T) == Cardinality({t \in T : t < i})
                 IN  sources' = [i \in 1..Power |->
                        IF i \in taken THEN Slot("winner", new[below(i, taken) + 1].id)
                        ELSE rest[i - below(i, taken)]]
    /\ round' = 1
    /\ UNCHANGED <<field, results, status, ranking>>

MainRound ==
    /\ status = "building" /\ field[2] < 2 /\ round > 0 /\ Len(sources) > 1
    /\ LET new == Pairs(sources, round, "main", 0)
       IN  matches' = matches \o new /\ sources' = Winners(new)
    /\ round' = round + 1
    /\ UNCHANGED <<field, results, status, ranking>>

\* Losers of the semifinals play for third place, those of the quarterfinals for fifth.
LegacyPlaces ==
    /\ status = "building" /\ field[2] < 2 /\ round > 0 /\ Len(sources) = 1
    /\ LET k == Len(matches)
           loser(i) == Slot("loser", matches[i].id)
       IN  matches' = matches \o
              <<Match(k + 1, "third_place", 1, loser(k - 2), loser(k - 1)),
                Match(k + 2, "fifth_place", 1, loser(k - 6), loser(k - 5)),
                Match(k + 3, "fifth_place", 1, loser(k - 4), loser(k - 3)),
                Match(k + 4, "fifth_place", 2, Slot("winner", k + 2), Slot("winner", k + 3))>>
    /\ status' = "playing"
    /\ UNCHANGED <<field, sources, round, results, ranking>>

-----------------------------------------------------------------------------
(* Playing. *)

\* resolveSlot: the entrant of a slot, 0 while its match has no result.  A result
\* is kept as the winner and the loser the code finds by following A_WIN and B_WIN
\* back to the entrants.
Resolve(slot) ==
    IF slot.kind = "entrant" THEN slot.of
    ELSE IF slot.of \notin DOMAIN results THEN 0
    ELSE results[slot.of][slot.kind]

\* The matches of one stage and round start together, on the results so far.
PlayGroup ==
    /\ status = "playing" /\ DOMAIN results # {m.id : m \in Range(matches)}
    /\ LET start == CHOOSE i \in DOMAIN matches :
                       /\ matches[i].id \notin DOMAIN results
                       /\ \A j \in 1..(i - 1) : matches[j].id \in DOMAIN results
           same(i) == matches[i].stage = matches[start].stage /\ matches[i].round = matches[start].round
           group == {matches[i].id : i \in {k \in start..Len(matches) : \A j \in start..k : same(j)}}
           sides == [id \in group |-> LET m == CHOOSE m \in Range(matches) : m.id = id
                                      IN  [A_WIN |-> Resolve(m.a), B_WIN |-> Resolve(m.b)]]
           fresh == {m.id : m \in {m \in Range(matches) : m.a.kind = "entrant" /\ m.b.kind = "entrant"}}
       IN  IF \A id \in group : 0 \notin Range(sides[id])
           THEN /\ \E r \in [group -> Decided] :
                   /\ \A id \in group \cap fresh : r[id] = "A_WIN"
                   /\ results' = results @@ [id \in group |->
                          [winner |-> sides[id][r[id]],
                           loser |-> sides[id][CHOOSE o \in Decided \ {r[id]} : TRUE]]]
                /\ UNCHANGED status
           ELSE status' = "thrown" /\ UNCHANGED results
    /\ UNCHANGED <<field, matches, sources, round, ranking>>

RankSources ==
    LET k == Len(matches)
        w(i) == Slot("winner", matches[i].id)
        l(i) == Slot("loser", matches[i].id)
    IN  IF field[2] >= 2 THEN <<w(k), l(k), w(k - 1), l(k - 1), l(k - 2)>>
        ELSE <<w(k - 4), l(k - 4), w(k - 3), l(k - 3), w(k)>>

\* advanceBracket: five different entrants, or an error.
AdvanceBracket ==
    /\ status = "playing" /\ DOMAIN results = {m.id : m \in Range(matches)}
    /\ ranking' = [i \in 1..5 |-> Resolve(RankSources[i])]
    /\ status' = IF 0 \notin Range(ranking') /\ Cardinality(Range(ranking')) = 5
                 THEN "COMPLETE" ELSE "thrown"
    /\ UNCHANGED <<field, matches, sources, round, results>>

BracketNext ==
    \/ RollingRound \/ RollingPlaces
    \/ Preliminary \/ MainRound \/ LegacyPlaces
    \/ PlayGroup \/ AdvanceBracket

-----------------------------------------------------------------------------
(* Properties. *)

Lost(e) == {m \in Range(matches) : results[m.id].loser = e}
Won(e) == {m \in Range(matches) : results[m.id].winner = e}

\* Whatever the draw and the results, every match finds its two players when its
\* group starts, and the ranking is earned: the first lost to nobody, the second
\* only to the first, each of the others lost on the way to the final, the third
\* beat the fourth, and no two of the five are the same.
RankingEarned ==
    /\ status # "thrown"
    /\ status = "COMPLETE" =>
          /\ Lost(ranking[1]) = {}
          /\ Lost(ranking[2]) \subseteq Won(ranking[1]) /\ Cardinality(Lost(ranking[2])) = 1
          /\ \A e \in 1..size \ {ranking[1], ranking[2]} :
                \E m \in Lost(e) : m.stage \in {"preliminary", "main"}
          /\ \E m \in Lost(ranking[4]) \cap Won(ranking[3]) : m.stage = "third_place"
=============================================================================
