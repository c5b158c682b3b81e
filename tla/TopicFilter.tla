------------------------------ MODULE TopicFilter ------------------------------
(***************************************************************************)
(* How the client decides which handlers an incoming message is for.  A    *)
(* topic name and a topic filter are sequences of characters here, as they *)
(* are in the code; the reference definition works on their levels.        *)
(***************************************************************************)
EXTENDS Naturals, Sequences, SequencesExt

\* Mutant: '+' ends at the end of the name instead of the end of the level.
PlusSkipsAll(name, n) == Len(name)

\* The inner loop for '+': from n to the last character of its level.
PlusSkips(name, n) ==
  CHOOSE m \in n..Len(name) :
    /\ m = Len(name) \/ name[m + 1] = "/"
    /\ \A k \in n..(m - 1) : name[k + 1] # "/"

\* _aws_iot_mqtt_internal_is_topic_matched: f and n are curf and curn.
IsTopicMatched(filter, name) ==
  LET fEnd == Len(filter) + 1
      nEnd == Len(name) + 1
      Breaks(f, n) ==
        \/ name[n] = "/" /\ filter[f] # "/"
        \/ filter[f] \notin {"+", "#", name[n]}
      Skip(f, n) == CASE filter[f] = "+" -> PlusSkips(name, n)
                      [] filter[f] = "#" -> Len(name)
                      [] OTHER           -> n
      walk[f \in 1..fEnd, n \in 1..nEnd] ==
        IF f = fEnd \/ n = nEnd \/ Breaks(f, n)
        THEN f = fEnd /\ n = nEnd
        ELSE walk[f + 1, Skip(f, n) + 1]
  IN walk[1, 1]

\* The handlers that deliver_message calls, in a table without free places.
Matching(table, name) ==
  {i \in DOMAIN table : table[i] = name \/ IsTopicMatched(table[i], name)}

-----------------------------------------------------------------------------
(* The reference: filters and names as sequences of levels.                *)

\* The characters of a sequence of levels, separated by '/'.
Text(levels) ==
  FoldLeft(LAMBDA text, level : text \o <<"/">> \o level, levels[1], Tail(levels))

Plus == <<"+">>
Hash == <<"#">>

\* A '#' stands for one level or more.  (In MQTT 3.1.1 it also matches the
\* parent level, and levels may be empty; the code does neither.)
LevelsMatch(filter, name) ==
  LET fixed == IF Last(filter) = Hash THEN Len(filter) - 1 ELSE Len(filter) IN
  /\ IF Last(filter) = Hash THEN Len(name) > fixed ELSE Len(name) = fixed
  /\ \A i \in 1..fixed : filter[i] \in {Plus, name[i]}

\* The names and the valid filters of at most n levels.
LevelNames(Levels, n) == BoundedSeq(Levels, n) \ {<<>>}
LevelFilters(Levels, n) ==
  {f \in BoundedSeq(Levels \cup {Plus, Hash}, n) \ {<<>>} :
     \A i \in 1..(Len(f) - 1) : f[i] # Hash}
=============================================================================
