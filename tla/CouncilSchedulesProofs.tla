------------------------ MODULE CouncilSchedulesProofs ------------------------
(***************************************************************************)
(* What a response shows of a page is what the page says: the days, the    *)
(* materials and the ids of its entries, for pages of any length, any days *)
(* and a year of any length.  The first part is about words in labels, the *)
(* second reads the patterns of each council, the third its entries.       *)
(***************************************************************************)
EXTENDS CouncilSchedules, TLAPS

-----------------------------------------------------------------------------
(* Words in labels. *)

LEMMA WordInWord == \A a, x : Contains(<<a>>, <<x>>) <=> a = x
<1> TAKE a, x
<1>1. 0..(Len(<<a>>) - Len(<<x>>)) = {0} /\ DOMAIN <<x>> = {1}
  OBVIOUS
<1> QED
  BY <1>1 DEF Contains

LEMMA WordsInWord == \A a, x, y : ~Contains(<<a>>, <<x, y>>)
<1> TAKE a, x, y
<1>1. 0..(Len(<<a>>) - Len(<<x, y>>)) = {}
  OBVIOUS
<1> QED
  BY <1>1 DEF Contains

LEMMA WordInWords == \A a, b, x : Contains(<<a, b>>, <<x>>) <=> a = x \/ b = x
<1> TAKE a, b, x
<1>1. 0..(Len(<<a, b>>) - Len(<<x>>)) = {0, 1} /\ DOMAIN <<x>> = {1}
  OBVIOUS
<1> QED
  BY <1>1 DEF Contains

LEMMA WordsInWords == \A a, b, x, y : Contains(<<a, b>>, <<x, y>>) <=> a = x /\ b = y
<1> TAKE a, b, x, y
<1>1. 0..(Len(<<a, b>>) - Len(<<x, y>>)) = {0} /\ DOMAIN <<x, y>> = {1, 2}
  OBVIOUS
<1> QED
  BY <1>1 DEF Contains

LEMMA First ==
  ASSUME NEW S, NEW k \in S, S \subseteq Int, \A j \in S : k <= j
  PROVE  Min(S) = k
<1>1. Min(S) \in S /\ \A j \in S : Min(S) <= j
  BY DEF Min
<1>2. k \in Int /\ Min(S) \in Int
  BY <1>1
<1>3. k <= Min(S) /\ Min(S) <= k
  BY <1>1
<1> QED
  BY <1>2, <1>3

(* What the search of the portals cuts out of a label. *)
LEMMA CutOne ==
  \A a, words, after :
    /\ a \in words => Cut(<<a>>, words, after) = <<a>>
    /\ a \notin words => Cut(<<a>>, words, after) = <<>>
<1> TAKE a, words, after
<1> DEFINE label == <<a>>
           found == {i \in DOMAIN label : label[i] \in words}
<1>1. found \subseteq {1} /\ (1 \in found <=> a \in words)
  OBVIOUS
<1>2. 1 \in found => Min(found) = 1
  BY <1>1, First
<1>3. Cut(label, words, after) =
        IF found = {} THEN <<>>
        ELSE IF Min(found) < Len(label) /\ label[Min(found) + 1] \in after
             THEN <<label[Min(found)], label[Min(found) + 1]>> ELSE <<label[Min(found)]>>
  BY DEF Cut
<1>4. Len(label) = 1 /\ label[1] = a
  OBVIOUS
<1> HIDE DEF found, label
<1>5. CASE 1 \in found
  <2>1. Cut(label, words, after) = <<label[1]>>
    BY <1>2, <1>3, <1>4, <1>5
  <2> QED
    BY <1>1, <1>4, <1>5, <2>1 DEF label
<1>6. CASE found = {}
  <2>1. Cut(label, words, after) = <<>>
    BY <1>3, <1>6
  <2> QED
    BY <1>1, <1>6, <2>1 DEF label
<1> QED
  BY <1>1, <1>5, <1>6

LEMMA CutTwo ==
  \A a, b, words, after :
    /\ a \in words /\ b \in after => Cut(<<a, b>>, words, after) = <<a, b>>
    /\ a \in words /\ b \notin after => Cut(<<a, b>>, words, after) = <<a>>
    /\ a \notin words /\ b \in words => Cut(<<a, b>>, words, after) = <<b>>
    /\ a \notin words /\ b \notin words => Cut(<<a, b>>, words, after) = <<>>
<1> TAKE a, b, words, after
<1> DEFINE label == <<a, b>>
           found == {i \in DOMAIN label : label[i] \in words}
<1>1. found \subseteq {1, 2} /\ (1 \in found <=> a \in words) /\ (2 \in found <=> b \in words)
  OBVIOUS
<1>2. 1 \in found => Min(found) = 1
  BY <1>1, First
<1>3. 1 \notin found /\ 2 \in found => Min(found) = 2
  BY <1>1, First
<1>4. Cut(label, words, after) =
        IF found = {} THEN <<>>
        ELSE IF Min(found) < Len(label) /\ label[Min(found) + 1] \in after
             THEN <<label[Min(found)], label[Min(found) + 1]>> ELSE <<label[Min(found)]>>
  BY DEF Cut
<1>5. Len(label) = 2 /\ label[1] = a /\ label[2] = b
  OBVIOUS
<1> HIDE DEF found, label
<1>6. CASE 1 \in found
  <2>1. Cut(label, words, after) =
          IF 1 < Len(label) /\ label[1 + 1] \in after
          THEN <<label[1], label[1 + 1]>> ELSE <<label[1]>>
    BY <1>2, <1>4, <1>6
  <2> QED
    BY <1>1, <1>5, <1>6, <2>1 DEF label
<1>7. CASE 1 \notin found /\ 2 \in found
  <2>1. Cut(label, words, after) = <<label[2]>>
    BY <1>3, <1>4, <1>5, <1>7
  <2> QED
    BY <1>1, <1>5, <1>7, <2>1 DEF label
<1>8. CASE found = {}
  <2>1. Cut(label, words, after) = <<>>
    BY <1>4, <1>8
  <2> QED
    BY <1>1, <1>8, <2>1 DEF label
<1> QED
  BY <1>1, <1>6, <1>7, <1>8

-----------------------------------------------------------------------------
(* Materials.  The first pattern that hits decides. *)

Hits(pattern, label) == \E text \in pattern.texts : Contains(label, text)

LEMMA FiveTypes ==
  ASSUME NEW p, NEW q, NEW r, NEW s, NEW t, NEW label
  PROVE  MapServiceType(<<p, q, r, s, t>>, label) =
           IF Hits(p, label) THEN p.type
           ELSE IF Hits(q, label) THEN q.type
           ELSE IF Hits(r, label) THEN r.type
           ELSE IF Hits(s, label) THEN s.type
           ELSE IF Hits(t, label) THEN t.type ELSE "OTHER"
<1> DEFINE patterns == <<p, q, r, s, t>>
           hits == {i \in DOMAIN patterns : Hits(patterns[i], label)}
<1>1. MapServiceType(patterns, label) = IF hits = {} THEN "OTHER" ELSE patterns[Min(hits)].type
  BY DEF MapServiceType, Hits
<1>2. DOMAIN patterns = 1..5 /\ hits \subseteq Int
  OBVIOUS
<1>3. /\ 1 \in hits <=> Hits(p, label)
      /\ 2 \in hits <=> Hits(q, label)
      /\ 3 \in hits <=> Hits(r, label)
      /\ 4 \in hits <=> Hits(s, label)
      /\ 5 \in hits <=> Hits(t, label)
  BY <1>2
<1>4. patterns[1] = p /\ patterns[2] = q /\ patterns[3] = r /\ patterns[4] = s /\ patterns[5] = t
  OBVIOUS
<1>5. \A i \in hits : i \in 1..5
  BY <1>2
<1> HIDE DEF hits, patterns
<1>6. \A i \in hits : (\A j \in hits : i <= j) => Min(hits) = i
  BY <1>2, First
<1> QED
  BY <1>1, <1>3, <1>4, <1>5, <1>6 DEF patterns

LEMMA FourTypes ==
  ASSUME NEW p, NEW q, NEW r, NEW s, NEW label
  PROVE  MapServiceType(<<p, q, r, s>>, label) =
           IF Hits(p, label) THEN p.type
           ELSE IF Hits(q, label) THEN q.type
           ELSE IF Hits(r, label) THEN r.type
           ELSE IF Hits(s, label) THEN s.type ELSE "OTHER"
<1> DEFINE patterns == <<p, q, r, s>>
           hits == {i \in DOMAIN patterns : Hits(patterns[i], label)}
<1>1. MapServiceType(patterns, label) = IF hits = {} THEN "OTHER" ELSE patterns[Min(hits)].type
  BY DEF MapServiceType, Hits
<1>2. DOMAIN patterns = 1..4 /\ hits \subseteq Int
  OBVIOUS
<1>3. /\ 1 \in hits <=> Hits(p, label)
      /\ 2 \in hits <=> Hits(q, label)
      /\ 3 \in hits <=> Hits(r, label)
      /\ 4 \in hits <=> Hits(s, label)
  BY <1>2
<1>4. patterns[1] = p /\ patterns[2] = q /\ patterns[3] = r /\ patterns[4] = s
  OBVIOUS
<1>5. \A i \in hits : i \in 1..4
  BY <1>2
<1> HIDE DEF hits, patterns
<1>6. \A i \in hits : (\A j \in hits : i <= j) => Min(hits) = i
  BY <1>2, First
<1> QED
  BY <1>1, <1>3, <1>4, <1>5, <1>6 DEF patterns

LEMMA MeantFacts ==
  /\ \A label \in Label : Meant[label] # "garden-waste"
  /\ Meant[<<"refuse">>] = "GENERAL_WASTE"
  /\ \A label \in {<<"recycling">>, <<"mixed", "recycling">>} : Meant[label] = "RECYCLING"
BY DEF Meant, Label

(* A material told of a label, at the council c. *)
Told(c, label, type) ==
  \/ type \in {Meant[label], "OTHER"}
  \/ c = "portsmouth" /\ Contains(label, <<"waste">>) /\ type = "GENERAL_WASTE"

LEMMA HartMaterials ==
  ASSUME NEW label \in Label
  PROVE  Told("hart", label, MapServiceType(HartPatterns, label))
BY FiveTypes, WordInWord, WordsInWord, WordInWords, WordsInWords
DEF Told, HartPatterns, Label, Meant, General, Recycling, Food, Glass, Pattern, Hits

LEMMA BasingstokeMaterials ==
  ASSUME NEW label \in Label
  PROVE  Told("basingstoke-deane", label, MapServiceType(BasingstokePatterns, label))
BY FiveTypes, WordInWord, WordsInWord, WordInWords, WordsInWords
DEF Told, BasingstokePatterns, Label, Meant, General, Recycling, Food, Glass, Pattern, Hits

LEMMA EastleighMaterials ==
  ASSUME NEW label \in Label
  PROVE  Told("eastleigh", label, MapServiceType(EastleighPatterns, label))
BY FiveTypes, WordInWord, WordsInWord, WordInWords, WordsInWords
DEF Told, EastleighPatterns, Label, Meant, General, Recycling, Food, Glass, Pattern, Hits

LEMMA HavantMaterials ==
  ASSUME NEW label \in Label
  PROVE  HavantLabel(label) # <<>> =>
           Told("havant", label, MapServiceType(HavantPatterns, HavantLabel(label)))
BY CutOne, CutTwo, FiveTypes, WordInWord, WordsInWord, WordInWords, WordsInWords
DEF Told, HavantLabel, HavantPatterns, Label, Meant, General, Recycling, Food, Glass, Pattern, Hits

LEMMA PortsmouthMaterials ==
  ASSUME NEW label \in Label
  PROVE  PortsmouthLabel(label) # <<>> =>
           Told("portsmouth", label, MapServiceType(PortsmouthPatterns, PortsmouthLabel(label)))
BY CutOne, CutTwo, FiveTypes, WordInWord, WordsInWord, WordInWords, WordsInWords
DEF Told, PortsmouthLabel, PortsmouthPatterns, Label, Meant, General, Recycling, Food, Glass,
    Pattern, Hits

LEMMA WinchesterMaterials ==
  ASSUME NEW label \in Label
  PROVE  WinchesterLabel(label) # <<>> =>
           Told("winchester", label, MapServiceType(WinchesterPatterns, WinchesterLabel(label)))
BY CutOne, CutTwo, FiveTypes, WordInWord, WordsInWord, WordInWords, WordsInWords
DEF Told, WinchesterLabel, WinchesterPatterns, Label, Meant, General, Recycling, Food, Glass,
    Pattern, Hits

LEMMA TestValleyMaterials ==
  ASSUME NEW label \in Label
  PROVE  TestValleyLabel(label) # <<>> =>
           Told("test-valley", label, MapServiceType(TestValleyPatterns, TestValleyLabel(label)))
BY CutOne, CutTwo, FourTypes, WordInWord, WordsInWord, WordInWords, WordsInWords
DEF Told, TestValleyLabel, TestValleyPatterns, Label, Meant, General, Recycling, Food, Glass,
    Pattern, Hits

(* Fareham's parser is given single words.                                 *)
LEMMA FarehamLabels ==
  ASSUME NEW label \in Label
  PROVE  /\ FarehamLabel(label) # <<>> =>
              /\ FarehamLabel(label) = label
              /\ label \in {<<"refuse">>, <<"domestic">>, <<"recycling">>, <<"garden">>,
                  <<"glass">>}
         /\ Contains(label, <<"refuse">>) <=> label = <<"refuse">>
         /\ Contains(label, <<"recycling">>) <=>
              label \in {<<"recycling">>, <<"mixed", "recycling">>}
BY WordInWord, WordInWords DEF FarehamLabel, Label

LEMMA FarehamMaterials ==
  ASSUME NEW label \in {<<"refuse">>, <<"domestic">>, <<"recycling">>, <<"garden">>, <<"glass">>}
  PROVE  /\ Told("fareham", label, MapServiceType(FarehamPatterns, label))
         /\ label = <<"refuse">> => MapServiceType(FarehamPatterns, label) = "GENERAL_WASTE"
         /\ label = <<"recycling">> => MapServiceType(FarehamPatterns, label) = "RECYCLING"
BY FiveTypes, WordInWord
DEF Told, FarehamPatterns, Label, Meant, Glass, Pattern, Hits

LEMMA GosportMaterials ==
  ASSUME NEW label \in Label
  PROVE  Told("gosport", label, MapServiceType(GosportPatterns, label))
BY FiveTypes, WordInWord, WordsInWord, WordInWords, WordsInWords
DEF Told, GosportPatterns, Label, Meant, General, Recycling, Food, Glass, Pattern, Hits

LEMMA SouthamptonMaterials ==
  ASSUME NEW label \in LabelsOf("southampton")
  PROVE  Told("southampton", label, MapServiceType(SouthamptonPatterns, label))
<1> DEFINE recycling == Pattern("RECYCLING", {<<"recycling">>})
           gardens == Pattern("GARDEN_WASTE", {<<"garden">>})
           general == Pattern("GENERAL_WASTE", {<<"general">>, <<"waste">>})
<1>1. label \in {<<"glass">>, <<"recycling">>, <<"general", "waste">>, <<"garden", "waste">>}
  BY DEF LabelsOf
<1>2. /\ Hits(Glass, label) <=> Contains(label, <<"glass">>)
      /\ Hits(recycling, label) <=> Contains(label, <<"recycling">>)
      /\ Hits(gardens, label) <=> Contains(label, <<"garden">>)
      /\ Hits(general, label) <=> Contains(label, <<"general">>) \/ Contains(label, <<"waste">>)
  BY DEF Hits, Pattern, Glass
<1>3. /\ Glass.type = "GLASS" /\ recycling.type = "RECYCLING"
      /\ gardens.type = "GARDEN_WASTE" /\ general.type = "GENERAL_WASTE"
  BY DEF Pattern, Glass
<1>4. SouthamptonPatterns = <<Glass, recycling, gardens, general>>
  BY DEF SouthamptonPatterns
<1> HIDE DEF recycling, gardens, general
<1> QED
  BY <1>1, <1>2, <1>3, <1>4, FourTypes, WordInWord, WordInWords DEF Told, Label, Meant

(* Two panels of Basingstoke, and two fields of Rushmoor, are two          *)
(* materials.                                                              *)
LEMMA BasingstokePanels ==
  ASSUME NEW k \in LabelsOf("basingstoke-deane"), NEW l \in LabelsOf("basingstoke-deane"),
         MapServiceType(BasingstokePatterns, k) = MapServiceType(BasingstokePatterns, l)
  PROVE  k = l
<1> DEFINE general == Pattern("GENERAL_WASTE", General)
           gardens == Pattern("GARDEN_WASTE", {<<"garden">>})
<1>1. \A label : Hits(general, label) <=>
        \/ Contains(label, <<"refuse">>) \/ Contains(label, <<"rubbish">>)
        \/ Contains(label, <<"general", "waste">>) \/ Contains(label, <<"black", "bin">>)
  BY Zenon DEF Hits, Pattern, General
<1>2. \A label : Hits(Recycling, label) <=>
        Contains(label, <<"recycling">>) \/ Contains(label, <<"blue", "bin">>)
  BY Zenon DEF Hits, Pattern, Recycling
<1>3. \A label : /\ Hits(Food, label) <=> Contains(label, <<"food">>)
                 /\ Hits(gardens, label) <=> Contains(label, <<"garden">>)
                 /\ Hits(Glass, label) <=> Contains(label, <<"glass">>)
  BY DEF Hits, Pattern, Food, Glass
<1>4. /\ general.type = "GENERAL_WASTE" /\ Recycling.type = "RECYCLING" /\ Food.type = "FOOD_WASTE"
      /\ gardens.type = "GARDEN_WASTE" /\ Glass.type = "GLASS"
  BY DEF Pattern, Recycling, Food, Glass
<1>5. BasingstokePatterns = <<general, Recycling, Food, gardens, Glass>>
  BY DEF BasingstokePatterns
<1>6. {k, l} \subseteq {<<"refuse">>, <<"recycling">>, <<"glass">>, <<"garden", "waste">>,
                        <<"food", "waste">>}
  BY DEF LabelsOf
<1> HIDE DEF general, gardens
<1> QED
  BY <1>1, <1>2, <1>3, <1>4, <1>5, <1>6, FiveTypes, WordInWord, WordsInWord, WordInWords,
     WordsInWords

LEMMA RushmoorFields ==
  ASSUME NEW k \in LabelsOf("rushmoor"), NEW l \in LabelsOf("rushmoor"), Meant[k] = Meant[l]
  PROVE  k = l
<1>1. {k, l} \subseteq {<<"refuse">>, <<"recycling">>, <<"garden", "waste">>, <<"food", "waste">>}
  BY DEF LabelsOf
<1> QED
  BY <1>1 DEF Meant, Label

-----------------------------------------------------------------------------
(* The page. *)

PageFits ==
  /\ council \in Council
  /\ form \in FormsOf(council)
  /\ rows \in Pages(council)
  /\ \/ garden = <<>>
     \/ council = "fareham" /\ \E d \in PrintedDay \cup {NoDay} : garden = <<d>>
  /\ today \in Int

LEMMA Labels == ASSUME NEW c \in Council PROVE LabelsOf(c) \subseteq Label
<1>1. CASE c = "basingstoke-deane"
  BY <1>1 DEF LabelsOf, Label
<1>2. CASE c = "rushmoor"
  BY <1>2 DEF LabelsOf, Label
<1>3. CASE c = "southampton"
  BY <1>3 DEF LabelsOf, Label
<1>4. CASE c \in Council \ {"basingstoke-deane", "rushmoor", "southampton"}
  <2>1. LabelsOf(c) = Label
    BY <1>4 DEF LabelsOf
  <2> QED
    BY <2>1
<1> QED
  BY <1>1, <1>2, <1>3, <1>4

(* The forms of the councils whose dates are told apart. *)
LEMMA Forms ==
  /\ \A c \in Council \ {"fareham", "gosport", "rushmoor", "southampton", "east-hampshire"} :
       FormsOf(c) \subseteq {"iso", "numbers", "named", "yearless", "text"}
  /\ \A c \in {"gosport", "rushmoor", "southampton"} :
       FormsOf(c) \subseteq {"iso", "numbers", "text"}
  /\ FormsOf("southampton") = {"numbers"}
  /\ FormsOf("fareham") = {"numbers"}
  /\ FormsOf("east-hampshire") = {"numbers", "named"}
  /\ \A c \in Portals \cup {"basingstoke-deane"} :
       FormsOf(c) \subseteq {"numbers", "named", "yearless"}
BY DEF FormsOf, Council, Numbered, Portals

(* Only Gosport's pages have null for a date. *)
LEMMA Days ==
  ASSUME NEW c \in Council, NEW d \in DaysOf(c)
  PROVE  /\ d \in PrintedDay \cup {NoDay, NullDay}
         /\ c # "gosport" => d # NullDay
<1>1. CASE c \in {"basingstoke-deane", "southampton"}
  <2>1. DaysOf(c) = PrintedDay
    BY <1>1 DEF DaysOf
  <2> QED
    BY <1>1, <2>1, ScheduleAssumption
<1>2. CASE c = "gosport"
  <2>1. DaysOf(c) = PrintedDay \cup {NoDay, NullDay}
    BY <1>2 DEF DaysOf
  <2> QED
    BY <1>2, <2>1
<1>3. CASE c \in Council \ {"basingstoke-deane", "southampton", "gosport"}
  <2>1. DaysOf(c) = PrintedDay \cup {NoDay}
    BY <1>3 DEF DaysOf
  <2> QED
    BY <1>3, <2>1, ScheduleAssumption
<1> QED
  BY <1>1, <1>2, <1>3

(* A slot that is not the garden field is a label and a day of a line. *)
OnALine(s) ==
  /\ s = <<s[1], s[2], s[3]>>
  /\ s[1] \in DOMAIN rows /\ s[1] \in Nat \ {0}
  /\ s[2] \in DOMAIN rows[s[1]].labels /\ s[3] \in DOMAIN rows[s[1]].days
  /\ rows[s[1]].labels[s[2]] \in LabelsOf(council)
  /\ DayAt(s) \in PrintedDay \cup {NoDay, NullDay}
  /\ council # "gosport" => DayAt(s) # NullDay
  /\ council # "hart" => s[2] = 1 /\ rows[s[1]].labels \in [1..1 -> LabelsOf(council)]
  /\ council # "basingstoke-deane" => s[3] = 1

LEMMA SlotLabels ==
  ASSUME PageFits, NEW s \in SlotsOf(rows)
  PROVE  rows[s[1]].labels[s[2]] \in LabelsOf(council)
<1>1. PICK r \in DOMAIN rows :
        s[1] = r /\ \E l \in DOMAIN rows[r].labels, d \in DOMAIN rows[r].days : s = <<r, l, d>>
  BY DEF SlotsOf
<1>2. PICK m \in 1..MaxSlots : rows \in [1..m -> LinesOf(council)]
  BY DEF PageFits, Pages, UpTo
<1>3. rows[r].labels \in UpTo(IF council = "hart" THEN MaxSlots ELSE 1, LabelsOf(council))
  BY <1>1, <1>2 DEF LinesOf
<1>4. s[2] \in DOMAIN rows[r].labels
  BY <1>1
<1> QED
  BY <1>1, <1>3, <1>4 DEF UpTo

LEMMA Slots ==
  ASSUME PageFits, NEW s \in Slot
  PROVE  \/ /\ s = <<0, 1, 1>> /\ council = "fareham"
            /\ DayAt(s) \in PrintedDay \cup {NoDay} /\ garden = <<DayAt(s)>>
         \/ OnALine(s)
<1>1. CASE s \in SlotsOf(rows)
  <2>1. PICK r \in DOMAIN rows : \E l \in DOMAIN rows[r].labels, d \in DOMAIN rows[r].days :
          s = <<r, l, d>>
    BY <1>1 DEF SlotsOf
  <2>2. PICK l \in DOMAIN rows[r].labels, d \in DOMAIN rows[r].days : s = <<r, l, d>>
    BY <2>1
  <2>3. s[1] = r /\ s[2] = l /\ s[3] = d
    BY <2>2
  <2>4. PICK m \in 1..MaxSlots : rows \in [1..m -> LinesOf(council)]
    BY DEF PageFits, Pages, UpTo
  <2>5. r \in 1..m /\ rows[r] \in LinesOf(council)
    BY <2>4
  <2>6. /\ rows[r].labels \in UpTo(IF council = "hart" THEN MaxSlots ELSE 1, LabelsOf(council))
        /\ rows[r].days \in
             UpTo(IF council = "basingstoke-deane" THEN MaxSlots ELSE 1, DaysOf(council))
    BY <2>5 DEF LinesOf
  <2>7. PICK k \in 1..(IF council = "hart" THEN MaxSlots ELSE 1) :
          rows[r].labels \in [1..k -> LabelsOf(council)]
    BY <2>6 DEF UpTo
  <2>8. PICK n \in 1..(IF council = "basingstoke-deane" THEN MaxSlots ELSE 1) :
          rows[r].days \in [1..n -> DaysOf(council)]
    BY <2>6 DEF UpTo
  <2>9. rows[r].labels[l] \in LabelsOf(council) /\ rows[r].days[d] \in DaysOf(council)
    BY <2>7, <2>8
  <2>10. /\ rows[r].days[d] \in PrintedDay \cup {NoDay, NullDay}
         /\ council # "gosport" => rows[r].days[d] # NullDay
    BY <2>9, Days DEF PageFits
  <2>11. r \in Nat \ {0}
    BY <2>4, <2>5, ScheduleAssumption
  <2>12. DayAt(s) = rows[r].days[d]
    BY <2>3, <2>11 DEF DayAt
  <2>13. council # "hart" => k = 1
    BY <2>7
  <2>14. council # "basingstoke-deane" => n = 1
    BY <2>8
  <2>15. council # "hart" => l = 1 /\ rows[r].labels \in [1..1 -> LabelsOf(council)]
    BY <2>7, <2>13
  <2>16. council # "basingstoke-deane" => d = 1
    BY <2>8, <2>14
  <2> QED
    BY <2>2, <2>3, <2>9, <2>10, <2>11, <2>12, <2>15, <2>16 DEF OnALine
<1>2. CASE s \notin SlotsOf(rows)
  <2>1. garden # <<>> /\ s = <<0, 1, 1>>
    BY <1>2 DEF Slot
  <2>2. PICK d \in PrintedDay \cup {NoDay} : garden = <<d>>
    BY <2>1 DEF PageFits
  <2>3. DayAt(s) = d
    BY <2>1, <2>2 DEF DayAt
  <2> QED
    BY <2>1, <2>2, <2>3 DEF PageFits
<1> QED
  BY <1>1, <1>2

LEMMA ReadableDays ==
  ASSUME PageFits, NEW s \in Readable
  PROVE  /\ s \in Slot
         /\ DayAt(s) \in Int \/ (council = "gosport" /\ DayAt(s) = NullDay)
         /\ Dated(s) \in Int
         /\ council # "gosport" => Dated(s) = DayAt(s)
<1>1. s \in Slot /\ DayAt(s) # NoDay
  BY DEF Readable
<1>2. /\ DayAt(s) \in PrintedDay \cup {NoDay, NullDay}
      /\ council # "gosport" => DayAt(s) # NullDay
  BY <1>1, Slots, ScheduleAssumption DEF OnALine
<1> QED
  BY <1>1, <1>2, ScheduleAssumption DEF Dated

-----------------------------------------------------------------------------
(* The entries: of what kind each slot is told to be, by which number, and *)
(* on what day.                                                            *)

PatternsOf(c) ==
  CASE c = "hart" -> HartPatterns
    [] c = "basingstoke-deane" -> BasingstokePatterns
    [] c = "eastleigh" -> EastleighPatterns
    [] c = "havant" -> HavantPatterns
    [] c = "portsmouth" -> PortsmouthPatterns
    [] c = "winchester" -> WinchesterPatterns
    [] c = "test-valley" -> TestValleyPatterns
    [] c = "fareham" -> FarehamPatterns
    [] c = "gosport" -> GosportPatterns
    [] c = "southampton" -> SouthamptonPatterns

KindOf(s) ==
  IF s[1] = 0 THEN "GARDEN_WASTE"
  ELSE IF council = "rushmoor" THEN Meant[LabelAt(s)]
  ELSE MapServiceType(PatternsOf(council), LabelAt(s))

NumberOf(s) ==
  IF council = "hart" THEN <<s[1], s[2]>>
  ELSE IF council = "basingstoke-deane" THEN s[3]
  ELSE IF council \in Numbered THEN s[1] ELSE 0

NameOf(s) == IF s[1] = 0 THEN "garden-waste" ELSE KindOf(s)

Faithful(s, e, on) ==
  /\ e.type = KindOf(s)
  /\ e.id = <<e.day, NameOf(s), NumberOf(s)>>
  /\ DayIsTold(s, e, on)

(* The slots that become entries: of East Hampshire's PDF, none.           *)
Shown == IF council = "east-hampshire" THEN {} ELSE Readable
Kinds == {KindOf(s) : s \in Shown}

LEMMA EventFits ==
  ASSUME PageFits, NEW s \in Readable, NEW day, council \notin Timed, s[1] # 0,
         DayIsSure(s, today) => day = DayAt(s)
  PROVE  Faithful(s, Event(KindOf(s), day, NumberOf(s)), today)
<1> DEFINE e == Event(KindOf(s), day, NumberOf(s))
<1>1. e.type = KindOf(s) /\ e.day = day /\ e.id = <<day, KindOf(s), NumberOf(s)>>
      /\ (e.past <=> day < today)
  BY DEF Event
<1> HIDE DEF e
<1>2. DayIsTold(s, e, today)
  <2> SUFFICES ASSUME DayIsSure(s, today)
               PROVE  /\ e.day = Dated(s)
                      /\ e.past <=> (e.day < today \/ (council \in Timed /\ e.day = today))
    BY DEF DayIsTold
  <2> QED
    BY <1>1, ReadableDays DEF Timed
<1>3. Faithful(s, e, today)
  BY <1>1, <1>2 DEF Faithful, NameOf
<1> QED
  BY <1>3 DEF e

LEMMA BegunFits ==
  ASSUME PageFits, NEW s \in Readable, NEW day, council \in Timed, s[1] # 0,
         DayIsSure(s, today) => day = Dated(s)
  PROVE  Faithful(s, Begun(Event(KindOf(s), day, NumberOf(s)), Dated(s)), today)
<1> DEFINE e == Begun(Event(KindOf(s), day, NumberOf(s)), Dated(s))
<1>1. e.type = KindOf(s) /\ e.day = day /\ e.id = <<day, KindOf(s), NumberOf(s)>>
      /\ (e.past <=> Dated(s) <= today)
  BY DEF Event, Begun
<1>2. Dated(s) \in Int /\ today \in Int
  BY ReadableDays DEF PageFits
<1> HIDE DEF e
<1>4. DayIsTold(s, e, today)
  <2> SUFFICES ASSUME DayIsSure(s, today)
               PROVE  /\ e.day = Dated(s)
                      /\ e.past <=> (e.day < today \/ (council \in Timed /\ e.day = today))
    BY DEF DayIsTold
  <2>1. e.day = Dated(s)
    BY <1>1
  <2>2. e.past <=> (Dated(s) < today \/ Dated(s) = today)
    BY <1>1, <1>2
  <2> QED
    BY <2>1, <2>2
<1>5. Faithful(s, e, today)
  BY <1>1, <1>4 DEF Faithful, NameOf
<1> QED
  BY <1>5 DEF e

(* A date that nothing is missing from, or whose year is this one, is      *)
(* taken over.                                                             *)
LEMMA PlainDay ==
  ASSUME PageFits, NEW day \in Int, NEW written \in {"iso", "numbers", "named", "yearless", "text"},
         written = "yearless" => Year(day) = Year(today),
         written = "text" => zone # "ahead"
  PROVE  Plainly(written, day) = day
<1>1. Plainly("yearless", day) = day + YearLength * (Year(today) - Year(day))
  BY Zenon DEF Plainly
<1>2. CASE written = "yearless"
  <2>1. Year(day) \in Int /\ YearLength \in Int
    BY ScheduleAssumption DEF Year
  <2>2. Year(today) - Year(day) = 0
    BY <1>2, <2>1
  <2> QED
    BY <1>1, <1>2, <2>1, <2>2
<1>3. Plainly("text", day) = LocalMidnight(day)
  BY Zenon DEF Plainly
<1>4. CASE written = "text"
  BY <1>3, <1>4 DEF LocalMidnight
<1>5. CASE written \in {"iso", "numbers", "named"}
  BY <1>5 DEF Plainly
<1> QED
  BY <1>2, <1>4, <1>5

LEMMA SureDay ==
  ASSUME PageFits, NEW s \in Readable, DayIsSure(s, today),
         council \notin {"fareham", "gosport", "rushmoor", "southampton", "east-hampshire"}
  PROVE  /\ Plainly(form, DayAt(s)) = DayAt(s)
         /\ council = "havant" => HavantDate(DayAt(s)) = DayAt(s)
         /\ council = "eastleigh" => form # "yearless"
<1>1. form \in {"iso", "numbers", "named", "yearless", "text"}
  BY Forms DEF PageFits
<1>2. DayAt(s) \in Int
  BY ReadableDays
<1>3. /\ form = "yearless" => Year(DayAt(s)) = Year(today) /\ council # "eastleigh"
      /\ council = "havant" /\ form = "named" => Year(DayAt(s)) = Year(today)
      /\ form = "text" => zone # "ahead"
  BY DEF DayIsSure, YearLost
<1>4. Plainly(form, DayAt(s)) = DayAt(s)
  BY <1>1, <1>2, <1>3, PlainDay
<1>5. ASSUME council = "havant" PROVE HavantDate(DayAt(s)) = DayAt(s)
  <2>1. CASE form = "named"
    BY <1>2, <1>3, <1>5, <2>1, PlainDay DEF HavantDate
  <2>2. CASE form # "named"
    BY <1>4, <2>2 DEF HavantDate
  <2> QED
    BY <2>1, <2>2
<1> QED
  BY <1>1, <1>3, <1>4, <1>5

LEMMA OnLines ==
  ASSUME PageFits, council # "fareham", NEW s \in Slot
  PROVE  OnALine(s) /\ s[1] # 0
BY Slots DEF OnALine

LEMMA HartEntries ==
  ASSUME PageFits, council = "hart", NEW s \in Readable
  PROVE  Faithful(s, HartEvents[s], today)
<1>1. PatternsOf(council) = HartPatterns
  BY Zenon DEF PatternsOf
<1>2. s[1] # 0
  BY OnLines DEF Readable
<1>3. HartEvents[s] = Event(KindOf(s), HartDate(DayAt(s)), NumberOf(s))
  BY <1>1, <1>2 DEF HartEvents, KindOf, NumberOf, Numbered, Portals
<1>4. DayIsSure(s, today) => HartDate(DayAt(s)) = DayAt(s)
  BY SureDay DEF HartDate
<1> QED
  BY <1>2, <1>3, <1>4, EventFits DEF Timed

LEMMA BasingstokeEntries ==
  ASSUME PageFits, council = "basingstoke-deane", NEW s \in Readable
  PROVE  Faithful(s, BasingstokeEvents[s], today)
<1>1. PatternsOf(council) = BasingstokePatterns
  BY Zenon DEF PatternsOf
<1>2. s[1] # 0
  BY OnLines DEF Readable
<1>3. BasingstokeEvents[s] = Event(KindOf(s), BasingstokeDate(DayAt(s)), NumberOf(s))
  BY <1>1, <1>2 DEF BasingstokeEvents, KindOf, NumberOf, Numbered, Portals
<1>4. DayIsSure(s, today) => BasingstokeDate(DayAt(s)) = DayAt(s)
  BY SureDay DEF BasingstokeDate
<1> QED
  BY <1>2, <1>3, <1>4, EventFits DEF Timed

LEMMA EastleighEntries ==
  ASSUME PageFits, council = "eastleigh", NEW s \in Readable
  PROVE  Faithful(s, EastleighEvents[s], today)
<1>1. PatternsOf(council) = EastleighPatterns
  BY Zenon DEF PatternsOf
<1>2. s[1] # 0
  BY OnLines DEF Readable
<1>3. EastleighEvents[s] = Event(KindOf(s), EastleighDate(DayAt(s)), NumberOf(s))
  BY <1>1, <1>2 DEF EastleighEvents, KindOf, NumberOf, Numbered, Portals
<1>4. DayIsSure(s, today) => EastleighDate(DayAt(s)) = DayAt(s)
  BY SureDay DEF EastleighDate
<1> QED
  BY <1>2, <1>3, <1>4, EventFits DEF Timed

LEMMA HavantEntries ==
  ASSUME PageFits, council = "havant", NEW s \in Readable
  PROVE  Faithful(s, HavantEvents[s], today)
<1>1. PatternsOf(council) = HavantPatterns
  BY Zenon DEF PatternsOf
<1>2. s[1] # 0
  BY OnLines DEF Readable
<1>3. HavantEvents[s] = Event(KindOf(s), HavantDate(DayAt(s)), NumberOf(s))
  BY <1>1, <1>2 DEF HavantEvents, KindOf, NumberOf, Numbered, Portals
<1>4. DayIsSure(s, today) => HavantDate(DayAt(s)) = DayAt(s)
  BY SureDay
<1> QED
  BY <1>2, <1>3, <1>4, EventFits DEF Timed

LEMMA PortsmouthEntries ==
  ASSUME PageFits, council = "portsmouth", NEW s \in Readable
  PROVE  Faithful(s, PortsmouthEvents[s], today)
<1>1. PatternsOf(council) = PortsmouthPatterns
  BY Zenon DEF PatternsOf
<1>2. s[1] # 0
  BY OnLines DEF Readable
<1>3. PortsmouthEvents[s] = Event(KindOf(s), PortsmouthDate(DayAt(s)), NumberOf(s))
  BY <1>1, <1>2 DEF PortsmouthEvents, KindOf, NumberOf, Numbered, Portals
<1>4. DayIsSure(s, today) => PortsmouthDate(DayAt(s)) = DayAt(s)
  BY SureDay DEF PortsmouthDate
<1> QED
  BY <1>2, <1>3, <1>4, EventFits DEF Timed

LEMMA WinchesterEntries ==
  ASSUME PageFits, council = "winchester", NEW s \in Readable
  PROVE  Faithful(s, WinchesterEvents[s], today)
<1>1. PatternsOf(council) = WinchesterPatterns
  BY Zenon DEF PatternsOf
<1>2. s[1] # 0
  BY OnLines DEF Readable
<1>3. WinchesterEvents[s] = Event(KindOf(s), WinchesterDate(DayAt(s)), NumberOf(s))
  BY <1>1, <1>2 DEF WinchesterEvents, KindOf, NumberOf, Numbered, Portals
<1>4. DayIsSure(s, today) => WinchesterDate(DayAt(s)) = DayAt(s)
  BY SureDay DEF WinchesterDate
<1> QED
  BY <1>2, <1>3, <1>4, EventFits DEF Timed

LEMMA TestValleyEntries ==
  ASSUME PageFits, council = "test-valley", NEW s \in Readable
  PROVE  Faithful(s, TestValleyEvents[s], today)
<1>1. PatternsOf(council) = TestValleyPatterns
  BY Zenon DEF PatternsOf
<1>2. s[1] # 0
  BY OnLines DEF Readable
<1>3. TestValleyEvents[s] = Event(KindOf(s), TestValleyDate(DayAt(s)), NumberOf(s))
  BY <1>1, <1>2 DEF TestValleyEvents, KindOf, NumberOf, Numbered, Portals
<1>4. DayIsSure(s, today) => TestValleyDate(DayAt(s)) = DayAt(s)
  BY SureDay DEF TestValleyDate
<1> QED
  BY <1>2, <1>3, <1>4, EventFits DEF Timed

LEMMA FarehamEntries ==
  ASSUME PageFits, council = "fareham", NEW s \in Readable
  PROVE  Faithful(s, FarehamEvents[s], today)
<1>1. PatternsOf(council) = FarehamPatterns
  BY Zenon DEF PatternsOf
<1>2. CASE s[1] # 0
  <2>1. FarehamEvents[s] = Event(KindOf(s), DayAt(s), NumberOf(s))
    BY <1>1, <1>2 DEF FarehamEvents, KindOf, NumberOf, Numbered, Portals
  <2> QED
    BY <1>2, <2>1, EventFits DEF Timed
<1>3. CASE s[1] = 0
  <2> DEFINE e == FarehamEvents[s]
  <2>1. e = [Event("GARDEN_WASTE", DayAt(s), 0) EXCEPT !.id = <<DayAt(s), "garden-waste", 0>>]
    BY <1>3 DEF FarehamEvents
  <2>2. /\ e.type = "GARDEN_WASTE" /\ e.day = DayAt(s) /\ (e.past <=> DayAt(s) < today)
        /\ e.id = <<DayAt(s), "garden-waste", 0>>
    BY <2>1 DEF Event
  <2> HIDE DEF e
  <2>3. NumberOf(s) = 0 /\ KindOf(s) = "GARDEN_WASTE" /\ NameOf(s) = "garden-waste"
    BY <1>3 DEF NumberOf, KindOf, NameOf, Numbered, Portals
  <2>4. DayIsTold(s, e, today)
    BY <2>2, ReadableDays DEF DayIsTold, Timed
  <2>5. Faithful(s, e, today)
    BY <2>2, <2>3, <2>4 DEF Faithful
  <2> QED
    BY <2>5 DEF e
<1> QED
  BY <1>2, <1>3

LEMMA GosportEntries ==
  ASSUME PageFits, council = "gosport", NEW s \in Readable
  PROVE  Faithful(s, GosportEvents[s], today)
<1>1. PatternsOf(council) = GosportPatterns
  BY Zenon DEF PatternsOf
<1>2. s[1] # 0
  BY OnLines DEF Readable
<1>3. GosportEvents[s] = Begun(Event(KindOf(s), GosportDate(DayAt(s)), NumberOf(s)), Dated(s))
  BY <1>1, <1>2 DEF GosportEvents, KindOf, NumberOf, Numbered, Portals, Dated
<1>4. DayIsSure(s, today) => GosportDate(DayAt(s)) = Dated(s)
  BY DEF DayIsSure, GosportDate, LocalMidnight, Dated
<1> QED
  BY <1>2, <1>3, <1>4, BegunFits DEF Timed

LEMMA RushmoorEntries ==
  ASSUME PageFits, council = "rushmoor", NEW s \in Readable
  PROVE  Faithful(s, RushmoorEvents[s], today)
<1>1. s[1] # 0
  BY OnLines DEF Readable
<1>2. RushmoorEvents[s] = Begun(Event(KindOf(s), RushmoorDate(DayAt(s)), NumberOf(s)), Dated(s))
  BY <1>1, ReadableDays DEF RushmoorEvents, KindOf, NumberOf, Numbered, Portals
<1>3. DayIsSure(s, today) => RushmoorDate(DayAt(s)) = Dated(s)
  BY ReadableDays DEF DayIsSure, RushmoorDate, LocalMidnight
<1> QED
  BY <1>1, <1>2, <1>3, BegunFits DEF Timed

LEMMA SouthamptonEntries ==
  ASSUME PageFits, council = "southampton", NEW s \in Readable
  PROVE  Faithful(s, SouthamptonEvents[s], today)
<1>1. PatternsOf(council) = SouthamptonPatterns
  BY Zenon DEF PatternsOf
<1>2. s[1] # 0
  BY OnLines DEF Readable
<1>3. SouthamptonEvents[s] =
        Begun(Event(KindOf(s), LocalMidnight(DayAt(s)), NumberOf(s)), Dated(s))
  BY <1>1, <1>2, ReadableDays DEF SouthamptonEvents, KindOf, NumberOf, Numbered, Portals
<1>4. DayIsSure(s, today) => LocalMidnight(DayAt(s)) = Dated(s)
  BY ReadableDays DEF DayIsSure, LocalMidnight
<1> QED
  BY <1>2, <1>3, <1>4, BegunFits DEF Timed

LEMMA Entries ==
  ASSUME PageFits
  PROVE  /\ DOMAIN EventsOf(council) = Shown
         /\ \A s \in Shown : Faithful(s, EventsOf(council)[s], today)
<1>1. CASE council = "hart"
  <2>1. EventsOf(council) = HartEvents
    BY <1>1, Zenon DEF EventsOf
  <2>2. DOMAIN HartEvents = Readable /\ Shown = Readable
    BY <1>1 DEF HartEvents, Shown
  <2> QED
    BY <1>1, <2>1, <2>2, HartEntries
<1>2. CASE council = "basingstoke-deane"
  <2>1. EventsOf(council) = BasingstokeEvents
    BY <1>2, Zenon DEF EventsOf
  <2>2. DOMAIN BasingstokeEvents = Readable /\ Shown = Readable
    BY <1>2 DEF BasingstokeEvents, Shown
  <2> QED
    BY <1>2, <2>1, <2>2, BasingstokeEntries
<1>3. CASE council = "eastleigh"
  <2>1. EventsOf(council) = EastleighEvents
    BY <1>3, Zenon DEF EventsOf
  <2>2. DOMAIN EastleighEvents = Readable /\ Shown = Readable
    BY <1>3 DEF EastleighEvents, Shown
  <2> QED
    BY <1>3, <2>1, <2>2, EastleighEntries
<1>4. CASE council = "havant"
  <2>1. EventsOf(council) = HavantEvents
    BY <1>4, Zenon DEF EventsOf
  <2>2. DOMAIN HavantEvents = Readable /\ Shown = Readable
    BY <1>4 DEF HavantEvents, Shown
  <2> QED
    BY <1>4, <2>1, <2>2, HavantEntries
<1>5. CASE council = "portsmouth"
  <2>1. EventsOf(council) = PortsmouthEvents
    BY <1>5, Zenon DEF EventsOf
  <2>2. DOMAIN PortsmouthEvents = Readable /\ Shown = Readable
    BY <1>5 DEF PortsmouthEvents, Shown
  <2> QED
    BY <1>5, <2>1, <2>2, PortsmouthEntries
<1>6. CASE council = "winchester"
  <2>1. EventsOf(council) = WinchesterEvents
    BY <1>6, Zenon DEF EventsOf
  <2>2. DOMAIN WinchesterEvents = Readable /\ Shown = Readable
    BY <1>6 DEF WinchesterEvents, Shown
  <2> QED
    BY <1>6, <2>1, <2>2, WinchesterEntries
<1>7. CASE council = "test-valley"
  <2>1. EventsOf(council) = TestValleyEvents
    BY <1>7, Zenon DEF EventsOf
  <2>2. DOMAIN TestValleyEvents = Readable /\ Shown = Readable
    BY <1>7 DEF TestValleyEvents, Shown
  <2> QED
    BY <1>7, <2>1, <2>2, TestValleyEntries
<1>8. CASE council = "fareham"
  <2>1. EventsOf(council) = FarehamEvents
    BY <1>8, Zenon DEF EventsOf
  <2>2. DOMAIN FarehamEvents = Readable /\ Shown = Readable
    BY <1>8 DEF FarehamEvents, Shown
  <2> QED
    BY <1>8, <2>1, <2>2, FarehamEntries
<1>9. CASE council = "gosport"
  <2>1. EventsOf(council) = GosportEvents
    BY <1>9, Zenon DEF EventsOf
  <2>2. DOMAIN GosportEvents = Readable /\ Shown = Readable
    BY <1>9 DEF GosportEvents, Shown
  <2> QED
    BY <1>9, <2>1, <2>2, GosportEntries
<1>10. CASE council = "southampton"
  <2>1. EventsOf(council) = SouthamptonEvents
    BY <1>10, Zenon DEF EventsOf
  <2>2. DOMAIN SouthamptonEvents = Readable /\ Shown = Readable
    BY <1>10 DEF SouthamptonEvents, Shown
  <2> QED
    BY <1>10, <2>1, <2>2, SouthamptonEntries
<1>11. CASE council = "rushmoor"
  <2>1. EventsOf(council) = RushmoorEvents
    BY <1>11, Zenon DEF EventsOf
  <2>2. DOMAIN RushmoorEvents = Readable /\ Shown = Readable
    BY <1>11 DEF RushmoorEvents, Shown
  <2> QED
    BY <1>11, <2>1, <2>2, RushmoorEntries
<1>12. CASE council = "east-hampshire"
  <2>1. EventsOf(council) = EastHampshireEvents
    BY <1>12, Zenon DEF EventsOf
  <2>2. form # "iso"
    BY <1>12, Forms DEF PageFits
  <2>3. DOMAIN EastHampshireEvents = {} /\ Shown = {}
    BY <1>12, <2>2 DEF EastHampshireEvents, EastHampshireCollections, Shown
  <2> QED
    BY <2>1, <2>3
<1> QED
  BY <1>1, <1>2, <1>3, <1>4, <1>5, <1>6, <1>7, <1>8, <1>9, <1>10, <1>11, <1>12 DEF PageFits,
      Council, Numbered, Portals

(* A line is shown to be of the material it names, or of none.             *)
LEMMA Materials ==
  ASSUME PageFits, NEW s \in Shown, s[1] # 0
  PROVE  MaterialIsTold(s, KindOf(s))
<1> DEFINE label == rows[s[1]].labels[s[2]]
<1>1. s \in Readable /\ s \in Slot /\ council # "east-hampshire" /\ LabelAt(s) # <<>>
  BY DEF Shown, Readable
<1>2. OnALine(s)
  BY <1>1, Slots
<1>3. label \in LabelsOf(council) /\ label \in Label
  BY <1>2, Labels DEF OnALine, PageFits
<1>4. LabelAt(s) = Extracted(label)
  BY DEF LabelAt
<1> HIDE DEF label
<1>5. SUFFICES Told(council, label, KindOf(s))
  BY DEF MaterialIsTold, Told, label
<1>6. CASE council = "hart"
  <2>1. PatternsOf(council) = HartPatterns
    BY <1>6, Zenon DEF PatternsOf
  <2>2. Extracted(label) = label
    BY <1>6 DEF Extracted, Portals
  <2>3. KindOf(s) = MapServiceType(HartPatterns, label)
    BY <1>4, <1>6, <2>1, <2>2 DEF KindOf
  <2> QED
    BY <1>1, <1>3, <1>4, <1>6, <2>2, <2>3, HartMaterials
<1>7. CASE council = "basingstoke-deane"
  <2>1. PatternsOf(council) = BasingstokePatterns
    BY <1>7, Zenon DEF PatternsOf
  <2>2. Extracted(label) = label
    BY <1>7 DEF Extracted, Portals
  <2>3. KindOf(s) = MapServiceType(BasingstokePatterns, label)
    BY <1>4, <1>7, <2>1, <2>2 DEF KindOf
  <2> QED
    BY <1>1, <1>3, <1>4, <1>7, <2>2, <2>3, BasingstokeMaterials
<1>8. CASE council = "eastleigh"
  <2>1. PatternsOf(council) = EastleighPatterns
    BY <1>8, Zenon DEF PatternsOf
  <2>2. Extracted(label) = label
    BY <1>8 DEF Extracted, Portals
  <2>3. KindOf(s) = MapServiceType(EastleighPatterns, label)
    BY <1>4, <1>8, <2>1, <2>2 DEF KindOf
  <2> QED
    BY <1>1, <1>3, <1>4, <1>8, <2>2, <2>3, EastleighMaterials
<1>9. CASE council = "fareham"
  <2>1. PatternsOf(council) = FarehamPatterns
    BY <1>9, Zenon DEF PatternsOf
  <2>2. Extracted(label) = FarehamLabel(label)
    BY <1>9 DEF Extracted, Portals
  <2>3. FarehamLabel(label) = label
    BY <1>1, <1>3, <1>4, <2>2, FarehamLabels
  <2>4. KindOf(s) = MapServiceType(FarehamPatterns, label)
    BY <1>4, <1>9, <2>1, <2>2, <2>3 DEF KindOf
  <2> QED
    BY <1>1, <1>3, <1>4, <1>9, <2>2, <2>4, FarehamLabels, FarehamMaterials
<1>10. CASE council = "gosport"
  <2>1. PatternsOf(council) = GosportPatterns
    BY <1>10, Zenon DEF PatternsOf
  <2>2. Extracted(label) = label
    BY <1>10 DEF Extracted, Portals
  <2>3. KindOf(s) = MapServiceType(GosportPatterns, label)
    BY <1>4, <1>10, <2>1, <2>2 DEF KindOf
  <2> QED
    BY <1>1, <1>3, <1>4, <1>10, <2>2, <2>3, GosportMaterials
<1>11. CASE council = "southampton"
  <2>1. PatternsOf(council) = SouthamptonPatterns
    BY <1>11, Zenon DEF PatternsOf
  <2>2. Extracted(label) = label
    BY <1>11 DEF Extracted, Portals
  <2>3. KindOf(s) = MapServiceType(SouthamptonPatterns, label)
    BY <1>4, <1>11, <2>1, <2>2 DEF KindOf
  <2> QED
    BY <1>1, <1>3, <1>4, <1>11, <2>2, <2>3, SouthamptonMaterials
<1>12. CASE council = "havant"
  <2>1. PatternsOf(council) = HavantPatterns
    BY <1>12, Zenon DEF PatternsOf
  <2>2. Extracted(label) = HavantLabel(label)
    BY <1>12 DEF Extracted, Portals
  <2>3. KindOf(s) = MapServiceType(HavantPatterns, HavantLabel(label))
    BY <1>4, <1>12, <2>1, <2>2 DEF KindOf
  <2> QED
    BY <1>1, <1>3, <1>4, <1>12, <2>2, <2>3, HavantMaterials
<1>13. CASE council = "portsmouth"
  <2>1. PatternsOf(council) = PortsmouthPatterns
    BY <1>13, Zenon DEF PatternsOf
  <2>2. Extracted(label) = PortsmouthLabel(label)
    BY <1>13 DEF Extracted, Portals
  <2>3. KindOf(s) = MapServiceType(PortsmouthPatterns, PortsmouthLabel(label))
    BY <1>4, <1>13, <2>1, <2>2 DEF KindOf
  <2> QED
    BY <1>1, <1>3, <1>4, <1>13, <2>2, <2>3, PortsmouthMaterials
<1>14. CASE council = "winchester"
  <2>1. PatternsOf(council) = WinchesterPatterns
    BY <1>14, Zenon DEF PatternsOf
  <2>2. Extracted(label) = WinchesterLabel(label)
    BY <1>14 DEF Extracted, Portals
  <2>3. KindOf(s) = MapServiceType(WinchesterPatterns, WinchesterLabel(label))
    BY <1>4, <1>14, <2>1, <2>2 DEF KindOf
  <2> QED
    BY <1>1, <1>3, <1>4, <1>14, <2>2, <2>3, WinchesterMaterials
<1>15. CASE council = "test-valley"
  <2>1. PatternsOf(council) = TestValleyPatterns
    BY <1>15, Zenon DEF PatternsOf
  <2>2. Extracted(label) = TestValleyLabel(label)
    BY <1>15 DEF Extracted, Portals
  <2>3. KindOf(s) = MapServiceType(TestValleyPatterns, TestValleyLabel(label))
    BY <1>4, <1>15, <2>1, <2>2 DEF KindOf
  <2> QED
    BY <1>1, <1>3, <1>4, <1>15, <2>2, <2>3, TestValleyMaterials
<1>16. CASE council = "rushmoor"
  <2>1. Extracted(label) = label
    BY <1>16 DEF Extracted, Portals
  <2>2. KindOf(s) = Meant[label]
    BY <1>4, <1>16, <2>1 DEF KindOf
  <2> QED
    BY <2>2 DEF Told
<1> QED
  BY <1>1, <1>6, <1>7, <1>8, <1>9, <1>10, <1>11, <1>12, <1>13, <1>14, <1>15, <1>16 DEF PageFits,
      Council, Numbered, Portals

-----------------------------------------------------------------------------
(* The invariant: the page is as it was, and the entries and services read *)
(* of it are those of its slots, on the day they were read.                *)

EventsFit ==
  /\ DOMAIN events.entries \subseteq Shown
  /\ \A s \in DOMAIN events.entries : Faithful(s, events.entries[s], events.on)
  /\ events.ok => /\ DOMAIN events.entries = Shown
                  /\ council = "rushmoor" => Readable = Slot

(* Three adapters list a service whatever its date; at Rushmoor one        *)
(* without a date fails the call for entries.                              *)
Lists(types) ==
  /\ council \notin {"fareham", "gosport", "rushmoor"} => types = Kinds
  /\ council = "gosport" => Kinds \subseteq types
  /\ council = "fareham" => \A s \in Shown : Listed(s) => KindOf(s) \in types
  /\ council \in {"fareham", "gosport"} => types \subseteq Named \cup {"OTHER"}
  /\ council = "rushmoor" /\ Readable = Slot => types = Kinds

ServicesFit == services.ok => Lists(services.types)

SchedulesInv == PageFits /\ EventsFit /\ ServicesFit

(* What is said of a page stays true while it is up. *)
LEMMA PageStays ==
  ASSUME UNCHANGED page
  PROVE  /\ Slot' = Slot /\ Readable' = Readable /\ Shown' = Shown /\ Kinds' = Kinds
         /\ \A s, e, on : Faithful(s, e, on)' <=> Faithful(s, e, on)
         /\ \A types : Lists(types)' <=> Lists(types)
BY DEF page, Slot, Readable, Shown, Kinds, Lists, LabelAt, DayAt, Extracted, KindOf, NumberOf,
       NameOf, Faithful, DayIsTold, Dated, DayIsSure, YearLost, Named, Listed

LEMMA TypesAreKinds == ASSUME PageFits PROVE TypesOf(EventsOf(council)) = Kinds
BY Entries DEF TypesOf, Kinds, Faithful

LEMMA ServicesAreKinds ==
  ASSUME PageFits, council # "southampton"
  PROVE  Lists(ServicesOf(council))
<1>1. CASE council = "hart"
  <2>1. EventsOf(council) = HartEvents /\ ServicesOf(council) = HartServices
    BY <1>1, Zenon DEF EventsOf, ServicesOf
  <2> QED
    BY <1>1, <2>1, TypesAreKinds DEF HartServices, Lists
<1>2. CASE council = "basingstoke-deane"
  <2>1. EventsOf(council) = BasingstokeEvents /\ ServicesOf(council) = BasingstokeServices
    BY <1>2, Zenon DEF EventsOf, ServicesOf
  <2> QED
    BY <1>2, <2>1, TypesAreKinds DEF BasingstokeServices, Lists
<1>3. CASE council = "eastleigh"
  <2>1. EventsOf(council) = EastleighEvents /\ ServicesOf(council) = EastleighServices
    BY <1>3, Zenon DEF EventsOf, ServicesOf
  <2> QED
    BY <1>3, <2>1, TypesAreKinds DEF EastleighServices, Lists
<1>4. CASE council = "havant"
  <2>1. EventsOf(council) = HavantEvents /\ ServicesOf(council) = HavantServices
    BY <1>4, Zenon DEF EventsOf, ServicesOf
  <2> QED
    BY <1>4, <2>1, TypesAreKinds DEF HavantServices, Lists
<1>5. CASE council = "portsmouth"
  <2>1. EventsOf(council) = PortsmouthEvents /\ ServicesOf(council) = PortsmouthServices
    BY <1>5, Zenon DEF EventsOf, ServicesOf
  <2> QED
    BY <1>5, <2>1, TypesAreKinds DEF PortsmouthServices, Lists
<1>6. CASE council = "winchester"
  <2>1. EventsOf(council) = WinchesterEvents /\ ServicesOf(council) = WinchesterServices
    BY <1>6, Zenon DEF EventsOf, ServicesOf
  <2> QED
    BY <1>6, <2>1, TypesAreKinds DEF WinchesterServices, Lists
<1>7. CASE council = "test-valley"
  <2>1. EventsOf(council) = TestValleyEvents /\ ServicesOf(council) = TestValleyServices
    BY <1>7, Zenon DEF EventsOf, ServicesOf
  <2> QED
    BY <1>7, <2>1, TypesAreKinds DEF TestValleyServices, Lists
<1>8. CASE council = "east-hampshire"
  <2>1. EventsOf(council) = EastHampshireEvents /\ ServicesOf(council) = EastHampshireServices
    BY <1>8, Zenon DEF EventsOf, ServicesOf
  <2> QED
    BY <1>8, <2>1, TypesAreKinds DEF EastHampshireServices, Lists
<1>9. CASE council = "fareham"
  <2>1. ServicesOf(council) = FarehamServices /\ PatternsOf(council) = FarehamPatterns
    BY <1>9, Zenon DEF ServicesOf, PatternsOf
  <2>2. /\ "GENERAL_WASTE" \in FarehamServices <=> Speaking("refuse") # {}
        /\ "RECYCLING" \in FarehamServices <=> Speaking("recycling") # {}
        /\ "GARDEN_WASTE" \in FarehamServices <=> DOMAIN garden # {}
        /\ FarehamServices \subseteq {"GENERAL_WASTE", "RECYCLING", "GARDEN_WASTE"}
    BY DEF FarehamServices
  <2>3. ASSUME NEW s \in Shown, Listed(s) PROVE KindOf(s) \in FarehamServices
    <3>1. s \in Readable /\ s \in Slot
      BY DEF Shown, Readable
    <3>2. CASE s[1] = 0
      <4>1. KindOf(s) = "GARDEN_WASTE"
        BY <3>2 DEF KindOf
      <4>2. garden = <<DayAt(s)>>
        BY <3>1, <3>2, Slots DEF OnALine
      <4> QED
        BY <2>2, <4>1, <4>2
    <3>3. CASE s[1] # 0
      <4> DEFINE label == rows[s[1]].labels[s[2]]
      <4>1. label \in {<<"refuse">>, <<"recycling">>}
        BY <1>9, <2>3, <3>3 DEF Listed
      <4>2. LabelAt(s) = FarehamLabel(label)
        BY <1>9 DEF LabelAt, Extracted, Portals
      <4>3. s \in SlotsOf(rows)
        BY <3>1, <3>3 DEF Slot
      <4>4. /\ label = <<"refuse">> => s \in Speaking("refuse")
            /\ label = <<"recycling">> => s \in Speaking("recycling")
        BY <4>3, WordInWord DEF Speaking
      <4> HIDE DEF label
      <4>5. FarehamLabel(label) = label
        BY <4>1 DEF FarehamLabel
      <4>6. KindOf(s) = MapServiceType(FarehamPatterns, label)
        BY <1>9, <2>1, <3>3, <4>2, <4>5 DEF KindOf
      <4>7. /\ label = <<"refuse">> => KindOf(s) = "GENERAL_WASTE"
            /\ label = <<"recycling">> => KindOf(s) = "RECYCLING"
        BY <4>1, <4>6, FarehamMaterials
      <4> QED
        BY <2>2, <4>1, <4>4, <4>7
    <3> QED
      BY <3>2, <3>3
  <2>4. FarehamServices \subseteq Named
    <3>1. DOMAIN garden # {} => "GARDEN_WASTE" \in Named
      BY DEF Named
    <3>2. ASSUME NEW s \in SlotsOf(rows)
          PROVE  LET label == rows[s[1]].labels[s[2]]
                 IN  label \in Label /\ Meant[label] \in Named
      <4>1. rows[s[1]].labels[s[2]] \in LabelsOf(council)
        BY SlotLabels
      <4> QED
        BY <4>1, Labels DEF PageFits, Named
    <3>3. Speaking("refuse") # {} => "GENERAL_WASTE" \in Named
      <4> SUFFICES ASSUME NEW s \in Speaking("refuse") PROVE "GENERAL_WASTE" \in Named
        OBVIOUS
      <4>1. rows[s[1]].labels[s[2]] = <<"refuse">>
        BY <3>2, FarehamLabels DEF Speaking
      <4>2. Meant[rows[s[1]].labels[s[2]]] \in Named
        BY <3>2 DEF Speaking
      <4> QED
        BY <4>1, <4>2, MeantFacts
    <3>4. Speaking("recycling") # {} => "RECYCLING" \in Named
      <4> SUFFICES ASSUME NEW s \in Speaking("recycling") PROVE "RECYCLING" \in Named
        OBVIOUS
      <4>1. rows[s[1]].labels[s[2]] \in {<<"recycling">>, <<"mixed", "recycling">>}
        BY <3>2, FarehamLabels DEF Speaking
      <4>2. Meant[rows[s[1]].labels[s[2]]] \in Named
        BY <3>2 DEF Speaking
      <4> QED
        BY <4>1, <4>2, MeantFacts
    <3> QED
      BY <2>2, <3>1, <3>3, <3>4
  <2> QED
    BY <1>9, <2>1, <2>3, <2>4 DEF Lists
<1>10. CASE council = "gosport"
  <2>1. ServicesOf(council) = GosportServices /\ PatternsOf(council) = GosportPatterns
    BY <1>10, Zenon DEF ServicesOf, PatternsOf
  <2>2. ASSUME NEW s \in Shown PROVE KindOf(s) \in GosportServices
    <3>1. s \in Slot /\ s[1] # 0
      BY <1>10, OnLines DEF Shown, Readable
    <3> QED
      BY <1>10, <2>1, <3>1 DEF KindOf, GosportServices
  <2>3. ASSUME NEW s \in Slot
        PROVE  MapServiceType(GosportPatterns, LabelAt(s)) \in Named \cup {"OTHER"}
    <3> DEFINE label == rows[s[1]].labels[s[2]]
    <3>1. OnALine(s) /\ s[1] # 0
      BY <1>10, OnLines
    <3>2. s \in SlotsOf(rows)
      BY <3>1 DEF Slot
    <3>3. label \in Label /\ Meant[label] \in Named
      BY <3>1, <3>2, Labels DEF OnALine, PageFits, Named
    <3>4. LabelAt(s) = label
      BY <1>10 DEF LabelAt, Extracted, Portals
    <3> HIDE DEF label
    <3> QED
      BY <3>3, <3>4, GosportMaterials DEF Told
  <2> QED
    BY <1>10, <2>1, <2>2, <2>3 DEF Lists, Kinds, GosportServices
<1>11. CASE council = "rushmoor"
  <2>1. ServicesOf(council) = RushmoorServices
    BY <1>11, Zenon DEF ServicesOf
  <2>2. \A s \in Slot : KindOf(s) = Meant[LabelAt(s)]
    BY <1>11, OnLines DEF KindOf
  <2>3. Shown = Readable
    BY <1>11 DEF Shown
  <2>4. Readable = Slot => RushmoorServices = Kinds
    BY <2>2, <2>3 DEF RushmoorServices, Kinds
  <2> QED
    BY <1>11, <2>1, <2>4 DEF Lists
<1> QED
  BY <1>1, <1>2, <1>3, <1>4, <1>5, <1>6, <1>7, <1>8, <1>9, <1>10, <1>11
  DEF PageFits, Council, Numbered, Portals

-----------------------------------------------------------------------------
(* The invariant holds and is kept. *)

LEMMA InitInv == Init => SchedulesInv
<1> SUFFICES ASSUME Init PROVE SchedulesInv
  OBVIOUS
<1>1. \/ garden = <<>>
      \/ council = "fareham" /\ \E d \in PrintedDay \cup {NoDay} : garden = <<d>>
  BY DEF Init
<1>2. PageFits
  BY <1>1, ScheduleAssumption DEF PageFits, Init
<1>3. EventsFit
  BY DEF EventsFit, Init, Unread
<1>4. ServicesFit
  BY DEF ServicesFit, Init, Unlisted
<1> QED
  BY <1>2, <1>3, <1>4 DEF SchedulesInv

LEMMA PageKept == ASSUME PageFits, UNCHANGED page, today' \in Int PROVE PageFits'
BY DEF PageFits, page

LEMMA EventsKept ==
  ASSUME EventsFit, UNCHANGED <<page, events>>
  PROVE  EventsFit'
<1>1. UNCHANGED page /\ UNCHANGED events
  OBVIOUS
<1>2. /\ DOMAIN events'.entries \subseteq Shown
      /\ \A s \in DOMAIN events'.entries : Faithful(s, events'.entries[s], events'.on)
      /\ events'.ok => /\ DOMAIN events'.entries = Shown
                       /\ council = "rushmoor" => Readable = Slot
  BY <1>1 DEF EventsFit
<1>3. council' = council
  BY <1>1 DEF page
<1> QED
  BY <1>1, <1>2, <1>3, PageStays DEF EventsFit

LEMMA ServicesKept ==
  ASSUME ServicesFit, UNCHANGED <<page, services>>
  PROVE  ServicesFit'
<1>1. UNCHANGED page /\ UNCHANGED services
  OBVIOUS
<1> QED
  BY <1>1, PageStays DEF ServicesFit

LEMMA EventsStep ==
  ASSUME SchedulesInv, GetCollectionEvents
  PROVE  SchedulesInv'
<1>1. UNCHANGED page /\ UNCHANGED today /\ UNCHANGED services /\ council' = council
  BY DEF GetCollectionEvents, page
<1>2. PageFits'
  BY <1>1, PageKept DEF SchedulesInv, PageFits
<1>3. ServicesFit'
  BY <1>1, ServicesKept DEF SchedulesInv
<1>4. EventsFit'
  <2>1. CASE council = "rushmoor" /\ Readable # Slot
    <3>1. events'.entries = <<>> /\ ~events'.ok
      BY <2>1 DEF GetCollectionEvents, Unread
    <3>2. DOMAIN events'.entries = {}
      BY <3>1
    <3> QED
      BY <3>1, <3>2 DEF EventsFit
  <2>2. CASE ~(council = "rushmoor" /\ Readable # Slot)
    <3>1. events'.entries = EventsOf(council) /\ events'.on = today
      BY <2>2 DEF GetCollectionEvents
    <3>2. /\ DOMAIN events'.entries = Shown
          /\ \A s \in Shown : Faithful(s, events'.entries[s], events'.on)
      BY <3>1, Entries DEF SchedulesInv
    <3> QED
      BY <1>1, <2>2, <3>2, PageStays DEF EventsFit
  <2> QED
    BY <2>1, <2>2
<1> QED
  BY <1>2, <1>3, <1>4 DEF SchedulesInv

LEMMA ServicesStep ==
  ASSUME SchedulesInv, GetCollectionServices
  PROVE  SchedulesInv'
<1>1. UNCHANGED page /\ UNCHANGED today /\ UNCHANGED events
  BY DEF GetCollectionServices, page
<1>2. PageFits'
  BY <1>1, PageKept DEF SchedulesInv, PageFits
<1>3. EventsFit'
  BY <1>1, EventsKept DEF SchedulesInv
<1>4. ServicesFit'
  <2>1. CASE council = "southampton"
    <3>1. ~services'.ok
      BY <2>1 DEF GetCollectionServices, Unlisted
    <3> QED
      BY <3>1 DEF ServicesFit
  <2>2. CASE council # "southampton"
    <3>1. services'.types = ServicesOf(council)
      BY <2>2 DEF GetCollectionServices
    <3>2. Lists(services'.types)
      BY <2>2, <3>1, ServicesAreKinds DEF SchedulesInv
    <3> QED
      BY <1>1, <3>2, PageStays DEF ServicesFit
  <2> QED
    BY <2>1, <2>2
<1> QED
  BY <1>2, <1>3, <1>4 DEF SchedulesInv

LEMMA DayStep ==
  ASSUME SchedulesInv, NextDay
  PROVE  SchedulesInv'
<1>1. UNCHANGED page /\ today' \in Int /\ UNCHANGED events /\ UNCHANGED services
  BY DEF NextDay, page, SchedulesInv, PageFits
<1>2. PageFits'
  BY <1>1, PageKept DEF SchedulesInv
<1> QED
  BY <1>1, <1>2, EventsKept, ServicesKept DEF SchedulesInv

LEMMA NextInv == SchedulesInv /\ [Next]_vars => SchedulesInv'
<1> SUFFICES ASSUME SchedulesInv, [Next]_vars PROVE SchedulesInv'
  OBVIOUS
<1>1. CASE GetCollectionEvents
  BY <1>1, EventsStep
<1>2. CASE GetCollectionServices
  BY <1>2, ServicesStep
<1>3. CASE NextDay
  BY <1>3, DayStep
<1>4. CASE UNCHANGED vars
  <2>1. UNCHANGED page /\ UNCHANGED today /\ UNCHANGED events /\ UNCHANGED services
    BY <1>4 DEF vars
  <2>2. PageFits'
    BY <2>1, PageKept DEF SchedulesInv, PageFits
  <2> QED
    BY <2>1, <2>2, EventsKept, ServicesKept DEF SchedulesInv
<1> QED
  BY <1>1, <1>2, <1>3, <1>4 DEF Next

(* A response is never of another page than the one it was asked of: its   *)
(* entries are the readable slots, faithfully told.                        *)
THEOREM SchedulesAreFaithful == Spec => []SchedulesInv
<1> QED
  BY InitInv, NextInv, PTL DEF Spec

(* Dates.  Every entry that getCollectionEvents of an adapter returns tells *)
(* the day its council printed, and has passed if that day has, whatever   *)
(* the day it is read on - but for dates without a year read in another    *)
(* year, for those at Eastleigh, for local midnights ahead of UTC, and for *)
(* null, which new Date(item.NextCollection) makes 1 January 1970.         *)
THEOREM TheDayPrintedIsTold == Spec => []DaysAreTold
<1>1. SchedulesInv => DaysAreTold
  BY DEF SchedulesInv, EventsFit, Faithful, DaysAreTold
<1> QED
  BY <1>1, SchedulesAreFaithful, PTL

(* Materials.  The services an adapter lists of a page are those of the    *)
(* entries it makes of it, though the code works each out on its own; and  *)
(* the pattern lists, in the order in which each parser tries them, never  *)
(* take a label for another material than it names.  At Gosport and Fareham*)
(* no more is said than that a service is named on the page, and that      *)
(* entries have theirs: at Fareham only those of refuse, recycling and the *)
(* garden field, as getCollectionServices looks for no other.              *)
THEOREM ServicesAreThoseOfTheEntries == Spec => []ServicesMatchEntries
<1>1. SchedulesInv => ServicesMatchEntries
  <2> SUFFICES ASSUME SchedulesInv PROVE ServicesMatchEntries
    OBVIOUS
  <2>1. ASSUME NEW s \in DOMAIN events.entries, s[1] # 0
        PROVE  MaterialIsTold(s, events.entries[s].type)
    <3>1. s \in Shown /\ events.entries[s].type = KindOf(s)
      BY DEF SchedulesInv, EventsFit, Faithful
    <3> QED
      BY <2>1, <3>1, Materials DEF SchedulesInv
  <2>2. ASSUME services.ok, events.ok
        PROVE  /\ \A s \in DOMAIN events.entries :
                    Listed(s) => events.entries[s].type \in services.types
               /\ services.types \subseteq
                    IF council \in {"fareham", "gosport"} THEN Named \cup {"OTHER"}
                    ELSE TypesOf(events.entries)
    <3>1. DOMAIN events.entries = Shown /\ (council = "rushmoor" => Readable = Slot)
      BY <2>2 DEF SchedulesInv, EventsFit
    <3>2. TypesOf(events.entries) = Kinds
      BY <3>1 DEF SchedulesInv, EventsFit, Faithful, TypesOf, Kinds
    <3>3. Lists(services.types)
      BY <2>2 DEF SchedulesInv, ServicesFit
    <3>4. \A s \in Shown : events.entries[s].type = KindOf(s) /\ KindOf(s) \in Kinds
      BY <3>1 DEF SchedulesInv, EventsFit, Faithful, Kinds
    <3>5. ASSUME NEW s \in Shown, Listed(s) PROVE KindOf(s) \in services.types
      BY <3>1, <3>3, <3>4, <3>5 DEF Lists
    <3> QED
      BY <3>1, <3>2, <3>3, <3>4, <3>5 DEF Lists
  <2> QED
    BY <2>1, <2>2 DEF ServicesMatchEntries
<1> QED
  BY <1>1, SchedulesAreFaithful, PTL

(* Ids.  Where entries are numbered by their line (and by their place on   *)
(* it), or no two fields name one material, an id stands for one entry of a*)
(* response; and Fareham's garden field never shares the id of an entry in *)
(* brackets.                                                               *)
THEOREM AnIdNamesOneEntry == Spec => []IdsTellEntriesApart
<1>1. SchedulesInv => IdsTellEntriesApart
  <2> SUFFICES ASSUME SchedulesInv, NEW s \in DOMAIN events.entries,
                      NEW t \in DOMAIN events.entries,
                      events.entries[s].id = events.entries[t].id,
                      council \notin {"gosport", "southampton"},
                      council = "fareham" => 0 \in {s[1], t[1]}
               PROVE  s = t
    BY DEF IdsTellEntriesApart
  <2>1. s \in Shown /\ t \in Shown /\ NameOf(s) = NameOf(t) /\ NumberOf(s) = NumberOf(t)
    BY DEF SchedulesInv, EventsFit, Faithful
  <2>2. CASE council = "fareham"
    <3>1. ASSUME NEW u \in Shown, u[1] # 0 PROVE NameOf(u) # "garden-waste"
      <4>1. MaterialIsTold(u, KindOf(u)) /\ OnALine(u)
        BY <3>1, Materials, Slots DEF SchedulesInv, Shown, Readable
      <4>2. rows[u[1]].labels[u[2]] \in Label
        BY <4>1, Labels DEF OnALine, SchedulesInv, PageFits
      <4>3. KindOf(u) \in {Meant[rows[u[1]].labels[u[2]]], "OTHER"}
        BY <2>2, <4>1 DEF MaterialIsTold
      <4> QED
        BY <3>1, <4>2, <4>3, MeantFacts DEF NameOf
    <3>2. s[1] = 0 /\ t[1] = 0
      BY <2>1, <2>2, <3>1 DEF NameOf
    <3>3. s = <<0, 1, 1>> /\ t = <<0, 1, 1>>
      BY <2>1, <3>2, Slots DEF SchedulesInv, Shown, Readable, OnALine
    <3> QED
      BY <3>3
  <2>3. SUFFICES ASSUME council # "fareham" PROVE s = t
    BY <2>2
  <2>4. OnALine(s) /\ OnALine(t) /\ s[1] # 0 /\ t[1] # 0 /\ council # "east-hampshire"
    BY <2>1, <2>3, OnLines DEF SchedulesInv, Shown, Readable
  <2>5. s \in Shown /\ t \in Shown /\ KindOf(s) = KindOf(t) /\ NumberOf(s) = NumberOf(t)
    BY <2>1, <2>4 DEF NameOf
  <2>6. s = <<s[1], s[2], s[3]>> /\ t = <<t[1], t[2], t[3]>>
    BY <2>4 DEF OnALine
  <2> DEFINE k == rows[s[1]].labels
             l == rows[t[1]].labels
  <2>7. council # "hart" => /\ s[2] = 1 /\ t[2] = 1 /\ k[1] \in LabelsOf(council)
                            /\ l[1] \in LabelsOf(council) /\ (k[1] = l[1] => k = l)
    BY <2>4 DEF OnALine
  <2>8. council # "basingstoke-deane" => s[3] = 1 /\ t[3] = 1
    BY <2>4 DEF OnALine
  <2>9. council \in {"basingstoke-deane", "rushmoor"} /\ k = l => s[1] = t[1]
    BY <2>4 DEF OnALine, SchedulesInv, PageFits, Pages
  <2>10. council \notin Portals \cup {"fareham"} => LabelAt(s) = k[s[2]] /\ LabelAt(t) = l[t[2]]
    BY DEF LabelAt, Extracted
  <2> HIDE DEF k, l
  <2>11. CASE council = "hart"
    BY <2>5, <2>6, <2>8, <2>11 DEF NumberOf
  <2>12. CASE council \in Numbered
    BY <2>5, <2>6, <2>7, <2>8, <2>12 DEF NumberOf, Numbered, Portals
  <2>13. CASE council = "basingstoke-deane"
    <3>1. PatternsOf(council) = BasingstokePatterns
      BY <2>13, Zenon DEF PatternsOf
    <3>2. /\ KindOf(s) = MapServiceType(BasingstokePatterns, k[1])
          /\ KindOf(t) = MapServiceType(BasingstokePatterns, l[1])
      BY <2>4, <2>7, <2>10, <2>13, <3>1 DEF KindOf, Portals
    <3>3. s[1] = t[1]
      BY <2>5, <2>7, <2>9, <2>13, <3>2, BasingstokePanels
    <3> QED
      BY <2>5, <2>6, <2>7, <2>13, <3>3 DEF NumberOf
  <2>14. CASE council = "rushmoor"
    <3>1. KindOf(s) = Meant[k[1]] /\ KindOf(t) = Meant[l[1]]
      BY <2>4, <2>7, <2>10, <2>14 DEF KindOf, Portals
    <3>2. s[1] = t[1]
      BY <2>5, <2>7, <2>9, <2>14, <3>1, RushmoorFields
    <3> QED
      BY <2>6, <2>7, <2>8, <2>14, <3>2
  <2> QED
    BY <2>3, <2>4, <2>11, <2>12, <2>13, <2>14 DEF SchedulesInv, PageFits, Council, Numbered
<1> QED
  BY <1>1, SchedulesAreFaithful, PTL
=============================================================================
