-------------------------- MODULE EffectSyncProofs --------------------------
(***************************************************************************)
(* An edit of an unlinked ticket, or of a pull request and its one issue,  *)
(* holds, for any tickets, any edits and any runs: whatever surfaces the   *)
(* runs have written and whatever they have read, the tickets stay on      *)
(* their way to the class the edit asked for.                              *)
(***************************************************************************)
EXTENDS EffectSync, TLAPS

(* Classes and labels in the order of PRECEDENCE.                          *)

Rank ==
    [c \in Classes |->
       CASE c = "CR-Major" -> 1 [] c = "New Interface" -> 2 [] c = "Major" -> 3
         [] c = "Minor" -> 4 [] c = "BugFix" -> 5 [] c = "Documentation" -> 6
         [] c = "Infrastructure" -> 7 [] c = "Query" -> 8 [] OTHER -> 9]

\* The rank of the class a label stands for.
LabelRank ==
    [l \in OWNED_LABELS |->
       CASE l = "CR" -> 1 [] l = "New Interface" -> 2
         [] l \in {"Major Change", "Breaking Change"} -> 3 [] l = "Minor Change" -> 4
         [] l = "bug" -> 5 [] l = "documentation" -> 6
         [] l = "scope:infrastructure" -> 7 [] OTHER -> 8]

LEMMA PrecedenceIs ==
    /\ PRECEDENCE[1] = "CR-Major" /\ PRECEDENCE[2] = "New Interface"
    /\ PRECEDENCE[3] = "Major" /\ PRECEDENCE[4] = "Minor" /\ PRECEDENCE[5] = "BugFix"
    /\ PRECEDENCE[6] = "Documentation" /\ PRECEDENCE[7] = "Infrastructure"
    /\ PRECEDENCE[8] = "Query"
  BY DEF PRECEDENCE

LEMMA OptionsAre ==
    Options = {"CR-Major", "New Interface", "Major", "Minor", "BugFix",
               "Documentation", "Infrastructure", "Query"}
<1>1. 1..8 = {1, 2, 3, 4, 5, 6, 7, 8}
  OBVIOUS
<1>2. Options = {PRECEDENCE[n] : n \in {1, 2, 3, 4, 5, 6, 7, 8}}
  BY <1>1 DEF Options
<1>3. Options = {PRECEDENCE[1], PRECEDENCE[2], PRECEDENCE[3], PRECEDENCE[4],
                 PRECEDENCE[5], PRECEDENCE[6], PRECEDENCE[7], PRECEDENCE[8]}
  BY <1>2
<1> QED
  BY <1>3, PrecedenceIs

LEMMA RankIs ==
    /\ Rank["CR-Major"] = 1 /\ Rank["New Interface"] = 2 /\ Rank["Major"] = 3
    /\ Rank["Minor"] = 4 /\ Rank["BugFix"] = 5 /\ Rank["Documentation"] = 6
    /\ Rank["Infrastructure"] = 7 /\ Rank["Query"] = 8 /\ Rank[None] = 9
<1>1. Classes = {"CR-Major", "New Interface", "Major", "Minor", "BugFix",
                 "Documentation", "Infrastructure", "Query", "none"}
  BY OptionsAre DEF Classes, None
<1> QED
  BY <1>1 DEF Rank, None

LEMMA RankOrder ==
    /\ \A c \in Classes : Rank[c] \in 1..9
    /\ \A c \in Options : Rank[c] \in 1..8 /\ PRECEDENCE[Rank[c]] = c
    /\ \A n \in 1..8 : PRECEDENCE[n] \in Options /\ Rank[PRECEDENCE[n]] = n
    /\ Rank[None] = 9 /\ None \notin Options
    /\ \A a, b \in Classes : Rank[a] = Rank[b] => a = b
<1>1. Classes = Options \union {None}
  BY DEF Classes
<1>2. /\ Rank[PRECEDENCE[1]] = 1 /\ Rank[PRECEDENCE[2]] = 2 /\ Rank[PRECEDENCE[3]] = 3
      /\ Rank[PRECEDENCE[4]] = 4 /\ Rank[PRECEDENCE[5]] = 5 /\ Rank[PRECEDENCE[6]] = 6
      /\ Rank[PRECEDENCE[7]] = 7 /\ Rank[PRECEDENCE[8]] = 8
  BY RankIs, PrecedenceIs, Zenon
<1>3. Rank[None] = 9
  BY RankIs
<1>4. \A n \in 1..8 : PRECEDENCE[n] \in Options /\ Rank[PRECEDENCE[n]] = n
  <2> TAKE n \in 1..8
  <2>1. PRECEDENCE[n] \in Options
    BY DEF Options
  <2>2. n = 1 \/ n = 2 \/ n = 3 \/ n = 4 \/ n = 5 \/ n = 6 \/ n = 7 \/ n = 8
    OBVIOUS
  <2> QED
    BY <2>1, <2>2, <1>2
<1>5. \A c \in Options : \E n \in 1..8 : c = PRECEDENCE[n]
  BY DEF Options
<1>6. \A c \in Options : Rank[c] \in 1..8 /\ PRECEDENCE[Rank[c]] = c
  BY <1>4, <1>5
<1>7. None \notin Options
  BY <1>3, <1>6
<1>8. \A c \in Classes : Rank[c] \in 1..9
  BY <1>1, <1>3, <1>6
<1>9. \A a, b \in Classes : Rank[a] = Rank[b] => a = b
  <2> TAKE a, b \in Classes
  <2>1. CASE a \in Options /\ b \in Options
    BY <2>1, <1>6
  <2>2. CASE a = None \/ b = None
    BY <2>2, <1>1, <1>3, <1>6
  <2> QED
    BY <2>1, <2>2, <1>1
<1> QED
  BY <1>3, <1>4, <1>6, <1>7, <1>8, <1>9

\* Strongest picks the least rank.
LEMMA StrongestIs ==
    ASSUME NEW os \in SUBSET Options
    PROVE  /\ Strongest(os) \in Classes
           /\ \A o \in os : Rank[Strongest(os)] <= Rank[o]
           /\ IF os = {} THEN Strongest(os) = None ELSE Strongest(os) \in os
<1>1. CASE os = {}
  BY <1>1 DEF Strongest, Classes
<1>2. CASE os # {}
  <2> DEFINE Least(n) ==
        PRECEDENCE[n] \in os /\ \A k \in 1..(n - 1) : PRECEDENCE[k] \notin os
  <2>1. PICK o \in os : \A q \in os : Rank[o] <= Rank[q]
    <3> DEFINE Has(n) == n \in {Rank[o] : o \in os}
    <3>1. PICK o0 \in os : TRUE
      BY <1>2
    <3>2. \A o \in os : Rank[o] \in 1..8
      BY RankOrder
    <3>3. ASSUME \A o \in os : \E q \in os : Rank[q] < Rank[o] PROVE FALSE
      <4>1. \A o \in os : Rank[o] # 1
        BY <3>2, <3>3
      <4>2. \A o \in os : Rank[o] # 2
        BY <3>2, <3>3, <4>1
      <4>3. \A o \in os : Rank[o] # 3
        BY <3>2, <3>3, <4>1, <4>2
      <4>4. \A o \in os : Rank[o] # 4
        BY <3>2, <3>3, <4>1, <4>2, <4>3
      <4>5. \A o \in os : Rank[o] # 5
        BY <3>2, <3>3, <4>1, <4>2, <4>3, <4>4
      <4>6. \A o \in os : Rank[o] # 6
        BY <3>2, <3>3, <4>1, <4>2, <4>3, <4>4, <4>5
      <4>7. \A o \in os : Rank[o] # 7
        BY <3>2, <3>3, <4>1, <4>2, <4>3, <4>4, <4>5, <4>6
      <4>8. \A o \in os : Rank[o] # 8
        BY <3>2, <3>3, <4>1, <4>2, <4>3, <4>4, <4>5, <4>6, <4>7
      <4> QED
        BY <3>1, <3>2, <4>1, <4>2, <4>3, <4>4, <4>5, <4>6, <4>7, <4>8
    <3> QED
      BY <3>2, <3>3
  <2>2. Rank[o] \in 1..8 /\ PRECEDENCE[Rank[o]] = o
    BY RankOrder
  <2>3. \A k \in 1..(Rank[o] - 1) : PRECEDENCE[k] \notin os
    <3> TAKE k \in 1..(Rank[o] - 1)
    <3>1. k \in 1..8 /\ k < Rank[o]
      BY <2>2
    <3>2. Rank[PRECEDENCE[k]] = k
      BY <3>1, RankOrder
    <3> QED
      BY <2>1, <2>2, <3>1, <3>2
  <2>4. \E n \in 1..8 : Least(n)
    BY <2>1, <2>2, <2>3
  <2>5. PICK n \in 1..8 : Least(n) /\ Strongest(os) = PRECEDENCE[n]
    BY <2>4, <1>2 DEF Strongest
  <2>6. n = Rank[o]
    <3>1. n <= Rank[o]
      <4>1. CASE Rank[o] < n
        <5>1. Rank[o] \in 1..(n - 1)
          BY <2>2, <4>1
        <5> QED
          BY <5>1, <2>5, <2>2, <2>1
      <4> QED
        BY <4>1, <2>2
    <3>2. Rank[o] <= n
      <4>1. Rank[PRECEDENCE[n]] = n
        BY RankOrder
      <4> QED
        BY <4>1, <2>5, <2>1
    <3> QED
      BY <3>1, <3>2, <2>2
  <2> QED
    BY <2>1, <2>2, <2>5, <2>6, <1>2 DEF Classes
<1> QED
  BY <1>1, <1>2

(* The labels of a class.                                                  *)

LEMMA LabelsOfAre ==
    /\ LABELS_OF["CR-Major"] = {"CR"}
    /\ LABELS_OF["New Interface"] = {"New Interface"}
    /\ LABELS_OF["Major"] = {"Major Change", "Breaking Change"}
    /\ LABELS_OF["Minor"] = {"Minor Change"}
    /\ LABELS_OF["BugFix"] = {"bug"}
    /\ LABELS_OF["Documentation"] = {"documentation"}
    /\ LABELS_OF["Infrastructure"] = {"scope:infrastructure"}
    /\ LABELS_OF["Query"] = {"Query"}
  BY OptionsAre, Zenon DEF LABELS_OF

LEMMA OwnedAre ==
    OWNED_LABELS = {"CR", "New Interface", "Major Change", "Breaking Change",
                    "Minor Change", "bug", "documentation", "scope:infrastructure", "Query"}
<1>1. ASSUME NEW l PROVE l \in OWNED_LABELS <=> \E o \in Options : l \in LABELS_OF[o]
  BY DEF OWNED_LABELS
<1>2. ASSUME NEW l \in OWNED_LABELS
      PROVE  l \in {"CR", "New Interface", "Major Change", "Breaking Change",
                    "Minor Change", "bug", "documentation", "scope:infrastructure", "Query"}
  <2>0. PICK o \in Options : l \in LABELS_OF[o]
    BY <1>1
  <2>1. CASE o = "CR-Major"
    BY <2>0, <2>1, LabelsOfAre, Zenon
  <2>2. CASE o = "New Interface"
    BY <2>0, <2>2, LabelsOfAre, Zenon
  <2>3. CASE o = "Major"
    BY <2>0, <2>3, LabelsOfAre, Zenon
  <2>4. CASE o = "Minor"
    BY <2>0, <2>4, LabelsOfAre, Zenon
  <2>5. CASE o = "BugFix"
    BY <2>0, <2>5, LabelsOfAre, Zenon
  <2>6. CASE o = "Documentation"
    BY <2>0, <2>6, LabelsOfAre, Zenon
  <2>7. CASE o = "Infrastructure"
    BY <2>0, <2>7, LabelsOfAre, Zenon
  <2>8. CASE o = "Query"
    BY <2>0, <2>8, LabelsOfAre, Zenon
  <2> QED
    BY OptionsAre, <2>1, <2>2, <2>3, <2>4, <2>5, <2>6, <2>7, <2>8, Zenon
<1>3. ASSUME NEW l \in {"CR", "New Interface", "Major Change", "Breaking Change",
                    "Minor Change", "bug", "documentation", "scope:infrastructure", "Query"}
      PROVE  l \in OWNED_LABELS
  <2>1. \A o \in Options : \A k \in LABELS_OF[o] : k \in OWNED_LABELS
    BY DEF OWNED_LABELS
  <2>2. \A k \in LABELS_OF["CR-Major"] : k \in OWNED_LABELS
    BY <2>1, OptionsAre, Zenon
  <2>3. \A k \in LABELS_OF["New Interface"] : k \in OWNED_LABELS
    BY <2>1, OptionsAre, Zenon
  <2>4. \A k \in LABELS_OF["Major"] : k \in OWNED_LABELS
    BY <2>1, OptionsAre, Zenon
  <2>5. \A k \in LABELS_OF["Minor"] : k \in OWNED_LABELS
    BY <2>1, OptionsAre, Zenon
  <2>6. \A k \in LABELS_OF["BugFix"] : k \in OWNED_LABELS
    BY <2>1, OptionsAre, Zenon
  <2>7. \A k \in LABELS_OF["Documentation"] : k \in OWNED_LABELS
    BY <2>1, OptionsAre, Zenon
  <2>8. \A k \in LABELS_OF["Infrastructure"] : k \in OWNED_LABELS
    BY <2>1, OptionsAre, Zenon
  <2>9. \A k \in LABELS_OF["Query"] : k \in OWNED_LABELS
    BY <2>1, OptionsAre, Zenon
  <2> QED
    BY <1>3, <2>2, <2>3, <2>4, <2>5, <2>6, <2>7, <2>8, <2>9, LabelsOfAre, Zenon
<1> QED
  BY <1>2, <1>3, Zenon

LEMMA LabelRankIs ==
    /\ LabelRank["CR"] = 1 /\ LabelRank["New Interface"] = 2
    /\ LabelRank["Major Change"] = 3 /\ LabelRank["Breaking Change"] = 3
    /\ LabelRank["Minor Change"] = 4 /\ LabelRank["bug"] = 5
    /\ LabelRank["documentation"] = 6 /\ LabelRank["scope:infrastructure"] = 7
    /\ LabelRank["Query"] = 8
  BY OwnedAre, Zenon DEF LabelRank

LEMMA LabelRankOfOption ==
    \A o \in Options : \A l \in LABELS_OF[o] : l \in OWNED_LABELS /\ LabelRank[l] = Rank[o]
<1>1. \A o \in Options : \A l \in LABELS_OF[o] : l \in OWNED_LABELS
  BY DEF OWNED_LABELS
<1>2. \A o \in Options : \A l \in LABELS_OF[o] : LabelRank[l] = Rank[o]
  <2>1. \A l \in LABELS_OF["CR-Major"] : LabelRank[l] = Rank["CR-Major"]
    BY LabelsOfAre, LabelRankIs, RankIs, Zenon
  <2>2. \A l \in LABELS_OF["New Interface"] : LabelRank[l] = Rank["New Interface"]
    BY LabelsOfAre, LabelRankIs, RankIs, Zenon
  <2>3. \A l \in LABELS_OF["Major"] : LabelRank[l] = Rank["Major"]
    BY LabelsOfAre, LabelRankIs, RankIs, Zenon
  <2>4. \A l \in LABELS_OF["Minor"] : LabelRank[l] = Rank["Minor"]
    BY LabelsOfAre, LabelRankIs, RankIs, Zenon
  <2>5. \A l \in LABELS_OF["BugFix"] : LabelRank[l] = Rank["BugFix"]
    BY LabelsOfAre, LabelRankIs, RankIs, Zenon
  <2>6. \A l \in LABELS_OF["Documentation"] : LabelRank[l] = Rank["Documentation"]
    BY LabelsOfAre, LabelRankIs, RankIs, Zenon
  <2>7. \A l \in LABELS_OF["Infrastructure"] : LabelRank[l] = Rank["Infrastructure"]
    BY LabelsOfAre, LabelRankIs, RankIs, Zenon
  <2>8. \A l \in LABELS_OF["Query"] : LabelRank[l] = Rank["Query"]
    BY LabelsOfAre, LabelRankIs, RankIs, Zenon
  <2> QED
    BY OptionsAre, <2>1, <2>2, <2>3, <2>4, <2>5, <2>6, <2>7, <2>8, Zenon
<1> QED
  BY <1>1, <1>2

LEMMA WritebackIs ==
    /\ WRITEBACK_LABELS["CR-Major"] = {"CR", "Major Change"}
    /\ WRITEBACK_LABELS["New Interface"] = {"New Interface", "Major Change"}
    /\ WRITEBACK_LABELS["Major"] = {"Major Change"}
    /\ WRITEBACK_LABELS["Minor"] = {"Minor Change"}
    /\ WRITEBACK_LABELS["BugFix"] = {"bug"}
    /\ WRITEBACK_LABELS["Documentation"] = {"documentation"}
    /\ WRITEBACK_LABELS["Infrastructure"] = {"scope:infrastructure"}
    /\ WRITEBACK_LABELS["Query"] = {"Query"}
    /\ WRITEBACK_LABELS[None] = {}
<1>1. Classes = {"CR-Major", "New Interface", "Major", "Minor", "BugFix",
                 "Documentation", "Infrastructure", "Query", "none"}
  BY OptionsAre, Zenon DEF Classes, None
<1>2. \A c \in Classes :
        WRITEBACK_LABELS[c] =
          IF c = "none" THEN {}
          ELSE IF c \in {"CR-Major", "New Interface"} THEN LABELS_OF[c] \union {"Major Change"}
          ELSE LABELS_OF[c] \ {"Breaking Change"}
  BY Zenon DEF WRITEBACK_LABELS, None
<1>3. WRITEBACK_LABELS["CR-Major"] = {"CR", "Major Change"}
  BY <1>1, <1>2, LabelsOfAre, Zenon
<1>4. WRITEBACK_LABELS["New Interface"] = {"New Interface", "Major Change"}
  BY <1>1, <1>2, LabelsOfAre, Zenon
<1>5. WRITEBACK_LABELS["Major"] = {"Major Change"}
  BY <1>1, <1>2, LabelsOfAre, Zenon
<1>6. WRITEBACK_LABELS["Minor"] = {"Minor Change"}
  BY <1>1, <1>2, LabelsOfAre, Zenon
<1>7. WRITEBACK_LABELS["BugFix"] = {"bug"}
  BY <1>1, <1>2, LabelsOfAre, Zenon
<1>8. WRITEBACK_LABELS["Documentation"] = {"documentation"}
  BY <1>1, <1>2, LabelsOfAre, Zenon
<1>9. WRITEBACK_LABELS["Infrastructure"] = {"scope:infrastructure"}
  BY <1>1, <1>2, LabelsOfAre, Zenon
<1>10. WRITEBACK_LABELS["Query"] = {"Query"}
  BY <1>1, <1>2, LabelsOfAre, Zenon
<1>11. WRITEBACK_LABELS[None] = {}
  BY <1>1, <1>2, Zenon DEF None
<1> QED
  BY <1>3, <1>4, <1>5, <1>6, <1>7, <1>8, <1>9, <1>10, <1>11

LEMMA WritebackRank ==
    \A c \in Classes :
        /\ WRITEBACK_LABELS[c] \subseteq OWNED_LABELS
        /\ \A l \in WRITEBACK_LABELS[c] : Rank[c] <= LabelRank[l]
        /\ c # None => \E l \in WRITEBACK_LABELS[c] : LabelRank[l] = Rank[c]
        /\ c # None => LABELS_OF[c] \subseteq OWNED_LABELS
        /\ c # None => \A l \in LABELS_OF[c] : LabelRank[l] = Rank[c]
        /\ Rank[c] >= 7 => WRITEBACK_LABELS[c] \subseteq KEEP_ALWAYS
        /\ c # None /\ Rank[c] < 7 => WRITEBACK_LABELS[c] \intersect KEEP_ALWAYS = {}
<1>0. Classes = {"CR-Major", "New Interface", "Major", "Minor", "BugFix",
                 "Documentation", "Infrastructure", "Query", "none"}
  BY OptionsAre, Zenon DEF Classes, None
<1>1. \A c \in Classes : WRITEBACK_LABELS[c] \subseteq OWNED_LABELS
  BY <1>0, WritebackIs, OwnedAre, Zenon DEF None
<1>2. \A c \in Classes : c # None => c \in Options
  BY Zenon DEF Classes
<1>3. \A c \in Classes \ {None} :
        LABELS_OF[c] \subseteq OWNED_LABELS /\ \A l \in LABELS_OF[c] : LabelRank[l] = Rank[c]
  BY <1>2, LabelRankOfOption, Zenon
<1>4. \A c \in Classes : \A l \in WRITEBACK_LABELS[c] :
        LabelRank[l] = Rank[c] \/ (LabelRank[l] = 3 /\ (Rank[c] = 1 \/ Rank[c] = 2))
  <2> TAKE c \in Classes
  <2> TAKE l \in WRITEBACK_LABELS[c]
  <2>1. CASE c = "CR-Major"
    BY <2>1, WritebackIs, LabelRankIs, RankIs, Zenon
  <2>2. CASE c = "New Interface"
    BY <2>2, WritebackIs, LabelRankIs, RankIs, Zenon
  <2>3. CASE c = "Major"
    BY <2>3, WritebackIs, LabelRankIs, RankIs, Zenon
  <2>4. CASE c = "Minor"
    BY <2>4, WritebackIs, LabelRankIs, RankIs, Zenon
  <2>5. CASE c = "BugFix"
    BY <2>5, WritebackIs, LabelRankIs, RankIs, Zenon
  <2>6. CASE c = "Documentation"
    BY <2>6, WritebackIs, LabelRankIs, RankIs, Zenon
  <2>7. CASE c = "Infrastructure"
    BY <2>7, WritebackIs, LabelRankIs, RankIs, Zenon
  <2>8. CASE c = "Query"
    BY <2>8, WritebackIs, LabelRankIs, RankIs, Zenon
  <2>9. CASE c = "none"
    BY <2>9, WritebackIs, Zenon DEF None
  <2> QED
    BY <1>0, <2>1, <2>2, <2>3, <2>4, <2>5, <2>6, <2>7, <2>8, <2>9, Zenon
<1>5. \A c \in Classes : c # None => \E l \in WRITEBACK_LABELS[c] : LabelRank[l] = Rank[c]
  <2> TAKE c \in Classes
  <2>1. CASE c = "CR-Major"
    <3>1. "CR" \in WRITEBACK_LABELS[c] /\ LabelRank["CR"] = Rank[c]
      BY <2>1, WritebackIs, LabelRankIs, RankIs, Zenon
    <3> QED
      BY <3>1, Zenon
  <2>2. CASE c = "New Interface"
    <3>1. "New Interface" \in WRITEBACK_LABELS[c] /\ LabelRank["New Interface"] = Rank[c]
      BY <2>2, WritebackIs, LabelRankIs, RankIs, Zenon
    <3> QED
      BY <3>1, Zenon
  <2>3. CASE c = "Major"
    <3>1. "Major Change" \in WRITEBACK_LABELS[c] /\ LabelRank["Major Change"] = Rank[c]
      BY <2>3, WritebackIs, LabelRankIs, RankIs, Zenon
    <3> QED
      BY <3>1, Zenon
  <2>4. CASE c = "Minor"
    <3>1. "Minor Change" \in WRITEBACK_LABELS[c] /\ LabelRank["Minor Change"] = Rank[c]
      BY <2>4, WritebackIs, LabelRankIs, RankIs, Zenon
    <3> QED
      BY <3>1, Zenon
  <2>5. CASE c = "BugFix"
    <3>1. "bug" \in WRITEBACK_LABELS[c] /\ LabelRank["bug"] = Rank[c]
      BY <2>5, WritebackIs, LabelRankIs, RankIs, Zenon
    <3> QED
      BY <3>1, Zenon
  <2>6. CASE c = "Documentation"
    <3>1. "documentation" \in WRITEBACK_LABELS[c] /\ LabelRank["documentation"] = Rank[c]
      BY <2>6, WritebackIs, LabelRankIs, RankIs, Zenon
    <3> QED
      BY <3>1, Zenon
  <2>7. CASE c = "Infrastructure"
    <3>1. /\ "scope:infrastructure" \in WRITEBACK_LABELS[c]
          /\ LabelRank["scope:infrastructure"] = Rank[c]
      BY <2>7, WritebackIs, LabelRankIs, RankIs, Zenon
    <3> QED
      BY <3>1, Zenon
  <2>8. CASE c = "Query"
    <3>1. "Query" \in WRITEBACK_LABELS[c] /\ LabelRank["Query"] = Rank[c]
      BY <2>8, WritebackIs, LabelRankIs, RankIs, Zenon
    <3> QED
      BY <3>1, Zenon
  <2> QED
    BY <1>0, <2>1, <2>2, <2>3, <2>4, <2>5, <2>6, <2>7, <2>8, Zenon DEF None
<1>6. \A c \in Classes : \/ WRITEBACK_LABELS[c] \subseteq KEEP_ALWAYS
                        \/ Rank[c] \in {1, 2, 3, 4, 5, 6}
  BY <1>0, WritebackIs, RankIs, Zenon DEF None, KEEP_ALWAYS
<1>7. \A c \in Classes : \/ WRITEBACK_LABELS[c] \intersect KEEP_ALWAYS = {}
                        \/ Rank[c] \in {7, 8, 9}
  BY <1>0, WritebackIs, RankIs, Zenon DEF None, KEEP_ALWAYS
<1>8. \A c \in Classes : \A l \in WRITEBACK_LABELS[c] : Rank[c] <= LabelRank[l]
  BY <1>4, RankOrder
<1> QED
  BY <1>1, <1>3, <1>5, <1>6, <1>7, <1>8, RankOrder

LEMMA KeptRank ==
    /\ KEEP_ALWAYS \subseteq OWNED_LABELS
    /\ \A l \in KEEP_ALWAYS : LabelRank[l] \in 7..8
    /\ \A l \in OWNED_LABELS : LabelRank[l] \in 1..8
    /\ \A l \in OWNED_LABELS : LabelRank[l] >= 7 => l \in KEEP_ALWAYS
<1>1. KEEP_ALWAYS \subseteq OWNED_LABELS
  BY OwnedAre, Zenon DEF KEEP_ALWAYS
<1>2. \A l \in KEEP_ALWAYS : LabelRank[l] = 7 \/ LabelRank[l] = 8
  BY LabelRankIs, Zenon DEF KEEP_ALWAYS
<1>3. \A l \in OWNED_LABELS :
        \/ LabelRank[l] = 1 \/ LabelRank[l] = 2 \/ LabelRank[l] = 3 \/ LabelRank[l] = 4
        \/ LabelRank[l] = 5 \/ LabelRank[l] = 6
        \/ (LabelRank[l] = 7 /\ l \in KEEP_ALWAYS) \/ (LabelRank[l] = 8 /\ l \in KEEP_ALWAYS)
  BY OwnedAre, LabelRankIs, Zenon DEF KEEP_ALWAYS
<1> QED
  BY <1>1, <1>2, <1>3

\* The class of a set of labels is that of the strongest of them.
LEMMA ClassIs ==
    ASSUME NEW L \in SUBSET OWNED_LABELS
    PROVE  /\ ClassOf(L) \in Classes
           /\ \A l \in L : Rank[ClassOf(L)] <= LabelRank[l]
           /\ ClassOf(L) = None \/ \E l \in L : LabelRank[l] = Rank[ClassOf(L)]
<1> DEFINE os == {o \in Options : LABELS_OF[o] \cap L # {}}
<1>1. ClassOf(L) = Strongest(os)
  BY DEF ClassOf, class_of
<1>2. os \in SUBSET Options
  OBVIOUS
<1> HIDE DEF os
<1>3. /\ Strongest(os) \in Classes
      /\ \A o \in os : Rank[Strongest(os)] <= Rank[o]
      /\ IF os = {} THEN Strongest(os) = None ELSE Strongest(os) \in os
  BY <1>2, StrongestIs
<1>4. \A l \in L : \E o \in os : LabelRank[l] = Rank[o]
  <2> TAKE l \in L
  <2>1. PICK o \in Options : l \in LABELS_OF[o]
    BY DEF OWNED_LABELS
  <2>2. o \in os
    BY <2>1 DEF os
  <2> QED
    BY <2>1, <2>2, LabelRankOfOption
<1>5. \A o \in os : \E l \in L : LabelRank[l] = Rank[o]
  BY LabelRankOfOption DEF os
<1> QED
  BY <1>1, <1>3, <1>4, <1>5

LEMMA ClassByRank ==
    ASSUME NEW L \in SUBSET OWNED_LABELS, NEW c \in Classes,
           \A l \in L : Rank[c] <= LabelRank[l],
           c = None \/ \E l \in L : LabelRank[l] = Rank[c]
    PROVE  ClassOf(L) = c
<1>1. Rank[c] \in 1..9 /\ Rank[ClassOf(L)] \in 1..9 /\ Rank[None] = 9
  BY RankOrder, ClassIs
<1>2. Rank[c] <= Rank[ClassOf(L)]
  BY <1>1, ClassIs
<1>3. Rank[ClassOf(L)] <= Rank[c]
  BY <1>1, ClassIs
<1> QED
  BY <1>1, <1>2, <1>3, RankOrder, ClassIs

-----------------------------------------------------------------------------
(* What a ticket with labels L, field F and last written class S leads to. *)

\* Of the labels KEEP_ALWAYS names, the class.
KeptClass(L) == ClassOf(L \intersect KEEP_ALWAYS)

\* The runs make the ticket a d if nobody edits it.
Heads(d, L, F, S) == Lasting(Resolve(ClassOf(L), F, S), L) = d

\* Run r has read m of the ticket and is about to look again.
Checked(d, L, F, r, m) ==
    /\ Lasting(r.winner, L) = d \/ ClassOf(m.labels) \notin {d, ClassOf(L)}
    /\ F = m.effect \/ Lasting(F, L) = d

\* It has looked: of the labels it has read, those it is to keep are there.
Writes(d, L, r, m) ==
    /\ Lasting(r.winner, L) = d
    /\ L \subseteq m.labels \union WRITEBACK_LABELS[r.winner] \union KEEP_ALWAYS
    /\ KeptClass(L) = d \/ m.labels \intersect WRITEBACK_LABELS[r.winner] \subseteq L

Sound(d, L, F, r, m) ==
    /\ r.step = "labels" => Checked(d, L, F, r, m)
    /\ r.step \in {"field", "add", "remove", "state"} => Writes(d, L, r, m)
    /\ r.step \in {"add", "remove", "state"} => Lasting(F, L) = d
    /\ r.step = "field" => LabelsDiffer(r.winner, m.labels) \/ ClassOf(L) = d
    /\ r.step \in {"add", "remove"} => LabelsDiffer(r.winner, m.labels)
    /\ r.step = "remove" => KeptClass(L) = d \/ WRITEBACK_LABELS[r.winner] \subseteq L
    /\ r.step = "state" => ClassOf(L) = d

\* Labels change from L to L2 on the way to d.
Toward(d, L, L2) ==
    /\ ClassOf(L2) \in {ClassOf(L), d}
    /\ KeptClass(L2) \in {KeptClass(L), d}
    /\ L2 \subseteq L \union WRITEBACK_LABELS[d] \union KEEP_ALWAYS
    /\ KeptClass(L) = d \/ L \intersect WRITEBACK_LABELS[d] \subseteq L2

LEMMA KeptIs ==
    ASSUME NEW L \in SUBSET OWNED_LABELS
    PROVE  /\ KeptClass(L) \in Classes
           /\ Rank[ClassOf(L)] <= Rank[KeptClass(L)]
           /\ Rank[KeptClass(L)] >= 7
           /\ WRITEBACK_LABELS[KeptClass(L)] \subseteq KEEP_ALWAYS
           /\ \A l \in L : l \in KEEP_ALWAYS => Rank[KeptClass(L)] <= LabelRank[l]
           /\ \/ KeptClass(L) = None
              \/ \E l \in L \intersect KEEP_ALWAYS : LabelRank[l] = Rank[KeptClass(L)]
<1> DEFINE K == L \intersect KEEP_ALWAYS
<1>1. K \in SUBSET OWNED_LABELS /\ KeptClass(L) = ClassOf(K)
  BY DEF KeptClass
<1>2. /\ ClassOf(K) \in Classes
      /\ \A l \in K : Rank[ClassOf(K)] <= LabelRank[l]
      /\ ClassOf(K) = None \/ \E l \in K : LabelRank[l] = Rank[ClassOf(K)]
  BY <1>1, ClassIs
<1>3. Rank[ClassOf(K)] >= 7
  BY <1>2, KeptRank, RankOrder
<1>4. ClassOf(L) \in Classes /\ Rank[ClassOf(L)] \in 1..9
  BY ClassIs, RankOrder
<1>5. Rank[ClassOf(L)] <= Rank[ClassOf(K)]
  <2>1. CASE ClassOf(K) = None
    BY <2>1, <1>4, RankOrder
  <2>2. CASE \E l \in K : LabelRank[l] = Rank[ClassOf(K)]
    BY <2>2, ClassIs
  <2> QED
    BY <2>1, <2>2, <1>2
<1>6. WRITEBACK_LABELS[ClassOf(K)] \subseteq KEEP_ALWAYS
  BY <1>2, <1>3, WritebackRank
<1> QED
  BY <1>1, <1>2, <1>3, <1>5, <1>6

LEMMA LastingIs ==
    ASSUME NEW L \in SUBSET OWNED_LABELS, NEW c \in Classes
    PROVE  /\ Lasting(c, L) \in Classes
           /\ \A d \in Classes :
                Lasting(c, L) = d <=>
                  /\ Rank[d] <= Rank[c] /\ Rank[d] <= Rank[KeptClass(L)]
                  /\ d = c \/ d = KeptClass(L)
<1> DEFINE os == {c, KeptClass(L)} \ {None}
           s == Lasting(c, L)
<1>1. s = Strongest(os) /\ KeptClass(L) \in Classes
  BY KeptIs DEF Lasting, KeptClass
<1>2. os \in SUBSET Options
  BY <1>1 DEF Classes
<1> HIDE DEF os, s
<1>3. /\ s \in Classes
      /\ \A o \in os : Rank[s] <= Rank[o]
      /\ IF os = {} THEN s = None ELSE s \in os
  BY <1>1, <1>2, StrongestIs
<1>4. Rank[c] \in 1..9 /\ Rank[KeptClass(L)] \in 1..9 /\ Rank[s] \in 1..9 /\ Rank[None] = 9
  BY <1>1, <1>3, RankOrder
<1>5. s = c \/ s = KeptClass(L)
  BY <1>3 DEF os
<1>6. Rank[s] <= Rank[c]
  <2>1. CASE c = None
    BY <2>1, <1>4
  <2>2. CASE c # None
    BY <2>2, <1>3 DEF os
  <2> QED
    BY <2>1, <2>2
<1>7. Rank[s] <= Rank[KeptClass(L)]
  <2>1. CASE KeptClass(L) = None
    BY <2>1, <1>4
  <2>2. CASE KeptClass(L) # None
    BY <2>2, <1>3 DEF os
  <2> QED
    BY <2>1, <2>2
<1>8. ASSUME NEW d \in Classes, Rank[d] <= Rank[c], Rank[d] <= Rank[KeptClass(L)],
             d = c \/ d = KeptClass(L)
      PROVE  s = d
  <2>1. Rank[d] = Rank[s]
    BY <1>4, <1>5, <1>6, <1>7, <1>8, RankOrder
  <2> QED
    BY <2>1, <1>3, RankOrder
<1> QED
  BY <1>3, <1>5, <1>6, <1>7, <1>8 DEF s

LEMMA LastingTowards ==
    ASSUME NEW L \in SUBSET OWNED_LABELS, NEW L2 \in SUBSET OWNED_LABELS,
           NEW d \in Classes, NEW c \in Classes,
           Toward(d, L, L2), Lasting(c, L) = d
    PROVE  Lasting(c, L2) = d
<1>1. /\ Rank[d] <= Rank[c] /\ Rank[d] <= Rank[KeptClass(L)]
      /\ d = c \/ d = KeptClass(L)
  BY LastingIs
<1>2. KeptClass(L2) \in {KeptClass(L), d} /\ Rank[d] \in 1..9
  BY RankOrder DEF Toward
<1>3. /\ Rank[d] <= Rank[KeptClass(L2)]
      /\ d = c \/ d = KeptClass(L2)
  BY <1>1, <1>2
<1> QED
  BY <1>1, <1>3, LastingIs

\* A class of the ticket, or the class Resolve picks, is not above a kept one.
LEMMA LastingOfClass ==
    ASSUME NEW L \in SUBSET OWNED_LABELS
    PROVE  Lasting(ClassOf(L), L) = ClassOf(L)
<1>1. /\ ClassOf(L) \in Classes /\ KeptClass(L) \in Classes
      /\ Rank[ClassOf(L)] <= Rank[KeptClass(L)]
  BY ClassIs, KeptIs
<1>2. Rank[ClassOf(L)] <= Rank[ClassOf(L)]
  BY <1>1, RankOrder
<1> QED
  BY <1>1, <1>2, LastingIs

\* What an edit asks for is kept again.
LEMMA LastingOfLasting ==
    ASSUME NEW L \in SUBSET OWNED_LABELS, NEW c \in Classes, NEW d \in Classes,
           Lasting(c, L) = d
    PROVE  Lasting(d, L) = d
<1>1. Rank[d] <= Rank[KeptClass(L)] /\ Rank[d] <= Rank[d]
  BY LastingIs, RankOrder
<1> QED
  BY <1>1, LastingIs

LEMMA ResolveIn ==
    ASSUME NEW l \in Classes, NEW F \in Classes, NEW S \in Classes
    PROVE  Resolve(l, F, S) \in Classes
  BY DEF Resolve

LEMMA HeadsTowards ==
    ASSUME NEW L \in SUBSET OWNED_LABELS, NEW L2 \in SUBSET OWNED_LABELS,
           NEW d \in Classes, NEW F \in Classes, NEW S \in Classes,
           Toward(d, L, L2), Heads(d, L, F, S)
    PROVE  Heads(d, L2, F, S)
<1> DEFINE c == Resolve(ClassOf(L), F, S)
<1>1. ClassOf(L) \in Classes /\ ClassOf(L2) \in Classes /\ c \in Classes
  BY ClassIs, ResolveIn
<1>2. Lasting(c, L) = d
  BY DEF Heads
<1>3. Lasting(c, L2) = d
  BY <1>1, <1>2, LastingTowards
<1>4. CASE ClassOf(L2) = ClassOf(L)
  BY <1>3, <1>4 DEF Heads
<1>5. CASE ClassOf(L2) = d /\ ClassOf(L) # d
  <2>1. c # ClassOf(L)
    BY <1>2, <1>5, LastingOfClass
  <2>2. F # S /\ ClassOf(L) = S /\ c = F
    BY <2>1 DEF Resolve
  <2>3. Resolve(ClassOf(L2), F, S) = d
    BY <1>5, <2>2 DEF Resolve
  <2>4. Lasting(d, L2) = d
    BY <1>3, <1>1, LastingOfLasting
  <2> QED
    BY <2>3, <2>4 DEF Heads
<1> QED
  BY <1>4, <1>5 DEF Toward

LEMMA HeadsField ==
    ASSUME NEW L \in SUBSET OWNED_LABELS, NEW d \in Classes, NEW c \in Classes,
           NEW F \in Classes, NEW S \in Classes,
           Heads(d, L, F, S), Lasting(c, L) = d
    PROVE  Heads(d, L, c, S)
<1>1. ClassOf(L) \in Classes /\ Lasting(ClassOf(L), L) = ClassOf(L)
  BY ClassIs, LastingOfClass
<1>2. CASE c # S /\ ClassOf(L) = S
  BY <1>2 DEF Heads, Resolve
<1>3. CASE c = S /\ ClassOf(L) = S
  BY <1>3 DEF Heads, Resolve
<1>4. CASE ClassOf(L) # S
  BY <1>4 DEF Heads, Resolve
<1> QED
  BY <1>2, <1>3, <1>4

LEMMA HeadsState ==
    ASSUME NEW L \in SUBSET OWNED_LABELS, NEW d \in Classes, NEW c \in Classes,
           NEW F \in Classes, ClassOf(L) = d, Lasting(F, L) = d
    PROVE  Heads(d, L, F, c)
<1>1. Lasting(d, L) = d
  BY LastingOfClass
<1>2. Resolve(d, F, c) = d \/ Resolve(d, F, c) = F
  BY DEF Resolve
<1> QED
  BY <1>1, <1>2 DEF Heads

\* A run that decides from what the board holds now, whatever labels it read,
\* decides rightly or does not find those labels again.
LEMMA DecideSound ==
    ASSUME NEW L \in SUBSET OWNED_LABELS, NEW d \in Classes, NEW F \in Classes,
           NEW S \in Classes, NEW m \in Images, m.effect = F, m.synced = S,
           NEW r, r.winner = Winner(m), Heads(d, L, F, S)
    PROVE  Checked(d, L, F, r, m)
<1> DEFINE l == ClassOf(L)
           l0 == ClassOf(m.labels)
<1>1. l \in Classes /\ l0 \in Classes /\ Lasting(l, L) = l
  BY ClassIs, LastingOfClass DEF Images
<1>2. r.winner = Resolve(l0, F, S)
  BY DEF Winner
<1>3. Lasting(Resolve(l, F, S), L) = d
  BY DEF Heads
<1>4. Lasting(d, L) = d
  BY <1>1, <1>3, ResolveIn, LastingOfLasting
<1>5. CASE l0 = l
  BY <1>5, <1>2, <1>3 DEF Checked
<1>6. CASE l0 = d /\ l # d
  <2>1. Resolve(l, F, S) # l
    BY <1>1, <1>3, <1>6
  <2>2. l = S
    BY <2>1 DEF Resolve
  <2>3. Resolve(l0, F, S) = d
    BY <2>2, <1>6 DEF Resolve
  <2> QED
    BY <2>3, <1>2, <1>4 DEF Checked
<1>7. CASE l0 \notin {d, l}
  BY <1>7 DEF Checked
<1> QED
  BY <1>5, <1>6, <1>7

\* Labels of rank 7 and 8 are kept, and are all that is written then.
LEMMA KeptWriteback ==
    ASSUME NEW L \in SUBSET OWNED_LABELS, NEW d \in Classes, NEW c \in Classes,
           Lasting(c, L) = d
    PROVE  /\ WRITEBACK_LABELS[c] \subseteq WRITEBACK_LABELS[d] \union KEEP_ALWAYS
           /\ WRITEBACK_LABELS[d] \subseteq WRITEBACK_LABELS[c] \union KEEP_ALWAYS
           /\ KeptClass(L) # d => c = d
<1>1. d = c \/ d = KeptClass(L)
  BY LastingIs
<1>2. Rank[KeptClass(L)] >= 7 /\ Rank[d] \in 1..9 /\ Rank[c] \in 1..9
  BY KeptIs, RankOrder
<1>3. CASE d = c
  BY <1>3
<1>4. CASE d = KeptClass(L)
  <2>1. Rank[d] <= Rank[c]
    BY LastingIs
  <2>2. Rank[d] >= 7 /\ Rank[c] >= 7
    BY <1>2, <1>4, <2>1
  <2> QED
    BY <2>2, <1>4, WritebackRank
<1> QED
  BY <1>1, <1>3, <1>4, LastingIs

LEMMA WritesTowards ==
    ASSUME NEW L \in SUBSET OWNED_LABELS, NEW L2 \in SUBSET OWNED_LABELS,
           NEW d \in Classes, NEW r, r.winner \in Classes, NEW m \in Images,
           Toward(d, L, L2), Writes(d, L, r, m)
    PROVE  /\ Writes(d, L2, r, m)
           /\ KeptClass(L) = d \/ WRITEBACK_LABELS[r.winner] \subseteq L
                => KeptClass(L2) = d \/ WRITEBACK_LABELS[r.winner] \subseteq L2
<1> DEFINE c == r.winner
<1>1. KeptClass(L) = d => KeptClass(L2) = d
  BY DEF Toward
<1>2. Lasting(c, L) = d
  BY DEF Writes
<1>3. Lasting(c, L2) = d
  BY <1>2, LastingTowards
<1>4. /\ WRITEBACK_LABELS[d] \subseteq WRITEBACK_LABELS[c] \union KEEP_ALWAYS
      /\ KeptClass(L) # d => c = d
  BY <1>2, KeptWriteback
<1>5. L2 \subseteq m.labels \union WRITEBACK_LABELS[c] \union KEEP_ALWAYS
  BY <1>4 DEF Toward, Writes
<1>6. KeptClass(L2) = d \/ m.labels \intersect WRITEBACK_LABELS[c] \subseteq L2
  BY <1>1, <1>4 DEF Toward, Writes
<1>7. Writes(d, L2, r, m)
  BY <1>3, <1>5, <1>6 DEF Writes
<1>8. ASSUME KeptClass(L) = d \/ WRITEBACK_LABELS[c] \subseteq L
      PROVE  KeptClass(L2) = d \/ WRITEBACK_LABELS[c] \subseteq L2
  BY <1>1, <1>4, <1>8 DEF Toward
<1> QED
  BY <1>7, <1>8

LEMMA SoundTowards ==
    ASSUME NEW L \in SUBSET OWNED_LABELS, NEW L2 \in SUBSET OWNED_LABELS,
           NEW d \in Classes, NEW F \in Classes, NEW F2 \in Classes,
           NEW r, r.winner \in Classes, NEW m \in Images,
           Toward(d, L, L2), F2 = F \/ Lasting(F2, L2) = d,
           Sound(d, L, F, r, m)
    PROVE  Sound(d, L2, F2, r, m)
<1> DEFINE c == r.winner
<1>1. Lasting(c, L) = d => Lasting(c, L2) = d
  BY LastingTowards
<1>2. Lasting(F, L) = d => Lasting(F2, L2) = d
  BY LastingTowards
<1>3. Writes(d, L, r, m) => Writes(d, L2, r, m)
  BY WritesTowards
<1>4. Checked(d, L, F, r, m) => Checked(d, L2, F2, r, m)
  BY <1>1, <1>2 DEF Checked, Toward
<1>5. ASSUME Writes(d, L, r, m), KeptClass(L) = d \/ WRITEBACK_LABELS[c] \subseteq L
      PROVE  KeptClass(L2) = d \/ WRITEBACK_LABELS[c] \subseteq L2
  BY <1>5, WritesTowards
<1>6. ClassOf(L) = d => ClassOf(L2) = d
  BY DEF Toward
<1> QED
  BY <1>2, <1>3, <1>4, <1>5, <1>6 DEF Sound

LEMMA TowardItself ==
    ASSUME NEW L \in SUBSET OWNED_LABELS, NEW d \in Classes
    PROVE  Toward(d, L, L)
  BY DEF Toward

\* Of a class that is written, its own labels and the kept ones stay.
Staying(c) ==
    WRITEBACK_LABELS[c] \union KEEP_ALWAYS \union (IF c = None THEN {} ELSE LABELS_OF[c])

LEMMA StayingRank ==
    ASSUME NEW c \in Classes
    PROVE  /\ Staying(c) \subseteq OWNED_LABELS
           /\ \A l \in Staying(c) : Rank[c] <= LabelRank[l] \/ l \in KEEP_ALWAYS
  BY WritebackRank, KeptRank, RankOrder DEF Staying

\* Once only those are left, and the class's own are all there, it is done.
LEMMA Clean ==
    ASSUME NEW L \in SUBSET OWNED_LABELS, NEW d \in Classes, NEW c \in Classes,
           Lasting(c, L) = d, L \subseteq Staying(c),
           KeptClass(L) = d \/ WRITEBACK_LABELS[c] \subseteq L
    PROVE  ClassOf(L) = d
<1>1. /\ Rank[d] <= Rank[c] /\ Rank[d] <= Rank[KeptClass(L)]
      /\ d = c \/ d = KeptClass(L)
  BY LastingIs
<1>2. Rank[d] \in 1..9 /\ Rank[c] \in 1..9 /\ Rank[KeptClass(L)] \in 1..9
  BY KeptIs, RankOrder
<1>3. \A l \in L : LabelRank[l] \in 1..8
  BY KeptRank
<1>4. \A l \in L : Rank[d] <= LabelRank[l]
  <2> TAKE l \in L
  <2>1. CASE Rank[c] <= LabelRank[l]
    BY <2>1, <1>1, <1>2, <1>3
  <2>2. CASE l \in KEEP_ALWAYS
    <3>1. Rank[KeptClass(L)] <= LabelRank[l]
      BY <2>2, KeptIs
    <3> QED
      BY <3>1, <1>1, <1>2, <1>3
  <2> QED
    BY <2>1, <2>2, StayingRank
<1>5. d = None \/ \E l \in L : LabelRank[l] = Rank[d]
  <2>1. CASE KeptClass(L) = d
    BY <2>1, KeptIs
  <2>2. CASE KeptClass(L) # d /\ c # None
    <3>1. PICK l \in WRITEBACK_LABELS[c] : LabelRank[l] = Rank[c]
      BY <2>2, WritebackRank
    <3> QED
      BY <3>1, <2>2, <1>1
  <2>3. CASE KeptClass(L) # d /\ c = None
    BY <2>3, <1>1
  <2> QED
    BY <2>1, <2>2, <2>3
<1> QED
  BY <1>4, <1>5, ClassByRank

\* Adding what a run adds.
Adding(L, r, m) == L \union Added(r.winner, m.labels)

LEMMA AddTowards ==
    ASSUME NEW L \in SUBSET OWNED_LABELS, NEW d \in Classes,
           NEW r, r.winner \in Classes, NEW m \in Images, Writes(d, L, r, m),
           LabelsDiffer(r.winner, m.labels),
           NEW L2, L2 = Adding(L, r, m)
    PROVE  /\ L2 \in SUBSET OWNED_LABELS /\ Toward(d, L, L2)
           /\ KeptClass(L2) = d \/ WRITEBACK_LABELS[r.winner] \subseteq L2
<1> DEFINE c == r.winner
           X == WRITEBACK_LABELS[c] \ m.labels
<1>1. L2 = L \union X /\ Lasting(c, L) = d
  BY DEF Adding, Added, Writes
<1>2. X \subseteq OWNED_LABELS /\ L2 \in SUBSET OWNED_LABELS
  BY <1>1, WritebackRank
<1>3. /\ Rank[d] <= Rank[c] /\ Rank[d] <= Rank[KeptClass(L)]
      /\ d = c \/ d = KeptClass(L)
      /\ KeptClass(L) # d => c = d
  BY <1>1, LastingIs, KeptWriteback
<1>4. \A l \in X : Rank[c] <= LabelRank[l]
  BY WritebackRank
<1>5. /\ Rank[d] \in 1..9 /\ Rank[c] \in 1..9 /\ Rank[KeptClass(L)] \in 1..9
      /\ ClassOf(L) \in Classes /\ Rank[ClassOf(L)] \in 1..9
      /\ \A l \in L2 : LabelRank[l] \in 1..8
  BY <1>2, KeptIs, ClassIs, KeptRank, RankOrder
<1>6. \A l \in L : Rank[ClassOf(L)] <= LabelRank[l]
  BY ClassIs
<1>7. CASE KeptClass(L) = d
  <2>1. Rank[ClassOf(L)] <= Rank[d]
    BY <1>7, KeptIs
  <2>2. \A l \in L2 : Rank[ClassOf(L)] <= LabelRank[l]
    <3> TAKE l \in L2
    <3>1. CASE l \in L
      BY <3>1, <1>6
    <3>2. CASE l \in X
      <4>1. Rank[c] <= LabelRank[l]
        BY <3>2, <1>4
      <4> QED
        BY <4>1, <2>1, <1>3, <1>5
    <3> QED
      BY <3>1, <3>2, <1>1
  <2>3. ClassOf(L) = None \/ \E l \in L2 : LabelRank[l] = Rank[ClassOf(L)]
    BY <1>1, ClassIs
  <2>4. ClassOf(L2) = ClassOf(L)
    BY <2>2, <2>3, <1>2, <1>5, ClassByRank
  <2>5. KeptClass(L2) = d
    <3> DEFINE K == L2 \intersect KEEP_ALWAYS
    <3>1. K \in SUBSET OWNED_LABELS
      BY <1>2
    <3>2. \A l \in K : Rank[d] <= LabelRank[l]
      <4> TAKE l \in K
      <4>1. CASE l \in L
        BY <4>1, <1>7, KeptIs
      <4>2. CASE l \in X
        <5>1. Rank[c] <= LabelRank[l]
          BY <4>2, <1>4
        <5> QED
          BY <5>1, <1>3, <1>5
      <4> QED
        BY <4>1, <4>2, <1>1
    <3>3. d = None \/ \E l \in K : LabelRank[l] = Rank[d]
      BY <1>1, <1>7, KeptIs
    <3> QED
      BY <3>1, <3>2, <3>3, ClassByRank DEF KeptClass
  <2>6. L2 \subseteq L \union WRITEBACK_LABELS[d] \union KEEP_ALWAYS
    BY <1>1, KeptWriteback
  <2> QED
    BY <1>2, <1>7, <2>4, <2>5, <2>6 DEF Toward
<1>8. CASE KeptClass(L) # d
  <2>1. c = d
    BY <1>8, <1>3
  <2>2. WRITEBACK_LABELS[c] \subseteq L2
    BY <1>1, <1>8 DEF Writes
  <2>3. L2 \subseteq L \union WRITEBACK_LABELS[d]
    BY <1>1, <2>1
  <2>4. ClassOf(L2) \in {ClassOf(L), d}
    <3>1. CASE Rank[ClassOf(L)] <= Rank[d]
      <4>1. \A l \in L2 : Rank[ClassOf(L)] <= LabelRank[l]
        <5> TAKE l \in L2
        <5>1. CASE l \in L
          BY <5>1, <1>6
        <5>2. CASE l \in X
          <6>1. Rank[c] <= LabelRank[l]
            BY <5>2, <1>4
          <6> QED
            BY <6>1, <2>1, <3>1, <1>5
        <5> QED
          BY <5>1, <5>2, <1>1
      <4>2. ClassOf(L) = None \/ \E l \in L2 : LabelRank[l] = Rank[ClassOf(L)]
        BY <1>1, ClassIs
      <4> QED
        BY <4>1, <4>2, <1>2, <1>5, ClassByRank
    <3>2. CASE Rank[d] < Rank[ClassOf(L)]
      <4>1. \A l \in L2 : Rank[d] <= LabelRank[l]
        <5> TAKE l \in L2
        <5>1. CASE l \in L
          <6>1. Rank[ClassOf(L)] <= LabelRank[l]
            BY <5>1, <1>6
          <6> QED
            BY <6>1, <3>2, <1>5
        <5>2. CASE l \in X
          BY <5>2, <1>4, <2>1
        <5> QED
          BY <5>1, <5>2, <1>1
      <4>2. d = None \/ \E l \in L2 : LabelRank[l] = Rank[d]
        BY <2>1, <2>2, WritebackRank
      <4> QED
        BY <4>1, <4>2, <1>2, ClassByRank
    <3> QED
      BY <3>1, <3>2, <1>5
  <2>5. KeptClass(L2) \in {KeptClass(L), d}
    <3>1. CASE WRITEBACK_LABELS[c] \intersect KEEP_ALWAYS = {}
      <4>1. L2 \intersect KEEP_ALWAYS = L \intersect KEEP_ALWAYS
        BY <3>1, <1>1
      <4> QED
        BY <4>1 DEF KeptClass
    <3>2. CASE WRITEBACK_LABELS[c] \subseteq KEEP_ALWAYS
      <4> DEFINE K == L2 \intersect KEEP_ALWAYS
      <4>1. K \in SUBSET OWNED_LABELS
        BY <1>2
      <4>2. \A l \in K : Rank[d] <= LabelRank[l]
        <5> TAKE l \in K
        <5>1. CASE l \in L
          <6>1. Rank[KeptClass(L)] <= LabelRank[l]
            BY <5>1, KeptIs
          <6> QED
            BY <6>1, <1>3, <1>5
        <5>2. CASE l \in X
          BY <5>2, <1>4, <2>1
        <5> QED
          BY <5>1, <5>2, <1>1
      <4>3. d = None \/ \E l \in K : LabelRank[l] = Rank[d]
        BY <2>1, <2>2, <3>2, WritebackRank
      <4> QED
        BY <4>1, <4>2, <4>3, ClassByRank DEF KeptClass
    <3>3. c = None => WRITEBACK_LABELS[c] = {}
      BY WritebackIs
    <3> QED
      BY <3>1, <3>2, <3>3, <1>5, WritebackRank
  <2> QED
    BY <1>1, <1>2, <2>2, <2>3, <2>4, <2>5 DEF Toward
<1> QED
  BY <1>7, <1>8

\* The labels are nearer to what they are to be, and the winner's own are there.
Onward(d, L, r, L2) ==
    /\ L2 \in SUBSET OWNED_LABELS
    /\ Toward(d, L, L2)
    /\ KeptClass(L2) = d \/ WRITEBACK_LABELS[r.winner] \subseteq L2

LEMMA AddOnward ==
    ASSUME NEW L \in SUBSET OWNED_LABELS, NEW d \in Classes,
           NEW r, r.winner \in Classes, NEW m \in Images, Writes(d, L, r, m),
           LabelsDiffer(r.winner, m.labels)
    PROVE  Onward(d, L, r, Adding(L, r, m))
  BY AddTowards DEF Onward

\* Removing what a run removes.
LEMMA RemoveTowards ==
    ASSUME NEW L \in SUBSET OWNED_LABELS, NEW d \in Classes,
           NEW r, r.winner \in Classes, NEW m \in Images, Writes(d, L, r, m),
           LabelsDiffer(r.winner, m.labels),
           KeptClass(L) = d \/ WRITEBACK_LABELS[r.winner] \subseteq L,
           NEW L2, L2 = L \ Stripped(r.winner, m.labels)
    PROVE  L2 \in SUBSET OWNED_LABELS /\ Toward(d, L, L2) /\ ClassOf(L2) = d
<1> DEFINE c == r.winner
<1>1. m.labels \subseteq OWNED_LABELS
  BY DEF Images
<1>2. Stripped(c, m.labels) = (m.labels \intersect OWNED_LABELS) \ Staying(c)
  BY DEF Stripped, Staying
<1>3. L2 \in SUBSET OWNED_LABELS /\ L2 \subseteq L
  OBVIOUS
<1>4. L2 \subseteq Staying(c)
  BY <1>1, <1>2 DEF Writes, Staying
<1>5. L2 \intersect KEEP_ALWAYS = L \intersect KEEP_ALWAYS
  BY <1>2 DEF Staying
<1>6. L \intersect WRITEBACK_LABELS[c] \subseteq L2
  BY <1>2 DEF Staying
<1>7. KeptClass(L2) = KeptClass(L)
  BY <1>5 DEF KeptClass
<1>8. Lasting(c, L) = d /\ (KeptClass(L) # d => c = d)
  BY KeptWriteback DEF Writes
<1>9. Lasting(c, L2) = d
  BY <1>5, <1>8 DEF Lasting
<1>10. KeptClass(L2) = d \/ WRITEBACK_LABELS[c] \subseteq L2
  BY <1>6, <1>7
<1>11. ClassOf(L2) = d
  BY <1>3, <1>4, <1>9, <1>10, Clean
<1> QED
  BY <1>3, <1>6, <1>7, <1>8, <1>11 DEF Toward

\* The labels are as they are to be, or a removal remains.
Placed(d, L, r, m) ==
    IF LabelsDiffer(r.winner, m.labels)
    THEN KeptClass(L) = d \/ WRITEBACK_LABELS[r.winner] \subseteq L
    ELSE ClassOf(L) = d

LEMMA AfterAddSound ==
    ASSUME NEW L \in SUBSET OWNED_LABELS, NEW d \in Classes, NEW F \in Classes,
           NEW r, r.winner \in Classes, NEW m \in Images,
           Writes(d, L, r, m), Lasting(F, L) = d, Placed(d, L, r, m),
           r.step = IF Stripped(r.winner, m.labels) = {} THEN "state" ELSE "remove"
    PROVE  Sound(d, L, F, r, m)
<1> DEFINE c == r.winner
<1>1. CASE r.step = "remove"
  <2>1. LabelsDiffer(c, m.labels)
    BY <1>1 DEF Stripped
  <2> QED
    BY <1>1, <2>1 DEF Sound, Placed
<1>2. CASE r.step = "state"
  <2>1. Stripped(c, m.labels) = {}
    BY <1>2
  <2>2. ASSUME LabelsDiffer(c, m.labels) PROVE ClassOf(L) = d
    <3>1. (m.labels \intersect OWNED_LABELS) \ Staying(c) = {}
      BY <2>1, <2>2 DEF Stripped, Staying
    <3>2. m.labels \subseteq OWNED_LABELS
      BY DEF Images
    <3>3. L \subseteq Staying(c)
      BY <3>1, <3>2 DEF Writes, Staying
    <3>4. KeptClass(L) = d \/ WRITEBACK_LABELS[c] \subseteq L
      BY <2>2 DEF Placed
    <3> QED
      BY <3>3, <3>4, Clean DEF Writes
  <2>3. ClassOf(L) = d
    BY <2>2 DEF Placed
  <2> QED
    BY <1>2, <2>3 DEF Sound
<1> QED
  BY <1>1, <1>2

LEMMA AfterFieldSound ==
    ASSUME NEW L \in SUBSET OWNED_LABELS, NEW d \in Classes, NEW F \in Classes,
           NEW r, r.winner \in Classes, NEW m \in Images,
           Writes(d, L, r, m), Lasting(F, L) = d,
           LabelsDiffer(r.winner, m.labels) \/ ClassOf(L) = d,
           r.step = IF Added(r.winner, m.labels) = {}
                    THEN IF Stripped(r.winner, m.labels) = {} THEN "state" ELSE "remove"
                    ELSE "add"
    PROVE  Sound(d, L, F, r, m)
<1> DEFINE c == r.winner
<1>1. CASE Added(c, m.labels) = {}
  <2>1. ASSUME LabelsDiffer(c, m.labels)
        PROVE  KeptClass(L) = d \/ WRITEBACK_LABELS[c] \subseteq L
    <3>1. WRITEBACK_LABELS[c] \subseteq m.labels
      BY <1>1, <2>1 DEF Added
    <3> QED
      BY <3>1 DEF Writes
  <2>2. Placed(d, L, r, m)
    BY <2>1 DEF Placed
  <2>3. r.step = IF Stripped(c, m.labels) = {} THEN "state" ELSE "remove"
    BY <1>1
  <2> QED
    BY <2>2, <2>3, AfterAddSound
<1>2. CASE Added(c, m.labels) # {}
  <2>1. LabelsDiffer(c, m.labels) /\ r.step = "add"
    BY <1>2 DEF Added
  <2> QED
    BY <2>1 DEF Sound
<1> QED
  BY <1>1, <1>2

\* Labels that are found as they were read.
LEMMA RecheckSound ==
    ASSUME NEW L \in SUBSET OWNED_LABELS, NEW d \in Classes, NEW F \in Classes,
           NEW r, r.winner \in Classes, NEW m \in Images,
           Checked(d, L, F, r, m), m.labels = L,
           r.step = IF r.winner = m.effect
                    THEN IF Added(r.winner, m.labels) = {}
                         THEN IF Stripped(r.winner, m.labels) = {} THEN "state" ELSE "remove"
                         ELSE "add"
                    ELSE "field"
    PROVE  Sound(d, L, F, r, m)
<1> DEFINE c == r.winner
<1>1. Lasting(c, L) = d
  BY DEF Checked
<1>2. Writes(d, L, r, m)
  BY <1>1 DEF Writes
<1>3. LabelsDiffer(c, m.labels) \/ ClassOf(L) = d
  <2>1. ASSUME ~LabelsDiffer(c, m.labels) PROVE ClassOf(L) = d
    BY <1>1, <2>1, LastingOfClass DEF LabelsDiffer
  <2> QED
    BY <2>1
<1>4. CASE c = m.effect
  <2>1. Lasting(F, L) = d
    BY <1>1, <1>4 DEF Checked
  <2> QED
    BY <2>1, <1>2, <1>3, <1>4, AfterFieldSound
<1>5. CASE c # m.effect
  BY <1>2, <1>3, <1>5 DEF Sound
<1> QED
  BY <1>4, <1>5

\* The steps in which a run writes nothing and has nothing in mind.
LEMMA IdleSound ==
    ASSUME NEW L, NEW d, NEW F, NEW r, NEW m,
           r.step \notin {"labels", "field", "add", "remove", "state"}
    PROVE  Sound(d, L, F, r, m)
  BY DEF Sound

-----------------------------------------------------------------------------
(* Types.                                                                  *)

\* A run has a ticket in hand while it works on one, and links only of a PR.
Holds(r, lk) ==
    /\ r.step \notin {"idle", "prs", "issues"} => r.at \in Tickets
    /\ r.step \in {"inherit", "adopt", "spread", "linkAdd", "linkRemove"} =>
         r.at \in PRs /\ r.links \subseteq lk[r.at]
    /\ r.step \in {"inherit", "adopt"} => lk[r.at] # {}
    /\ r.step \in {"linkAdd", "linkRemove"} => r.link \in lk[r.at]

HandInv == \A w \in Workers : Holds(run[w], linked)

TypeInv == TypeOK /\ HandInv

LEMMA NoRunType == NoRun \in Runs /\ Unread \in Images /\ \A lk : Holds(NoRun, lk)
<1>1. Unread \in Images
  BY DEF Unread, Images, Classes
<1>2. [t \in Tickets |-> Unread] \in [Tickets -> Images]
  BY <1>1
<1>3. "idle" \in Steps /\ None \in Classes
  BY DEF Steps, Classes
<1>4. NoRun \in Runs
  BY <1>2, <1>3 DEF NoRun, Runs
<1>5. NoRun.step = "idle"
  BY DEF NoRun
<1> QED
  BY <1>1, <1>4, <1>5 DEF Holds

LEMMA ReadType ==
    ASSUME TypeOK, NEW ts, NEW links
    PROVE  Read(ts, links) \in [Tickets -> Images]
<1> SUFFICES ASSUME NEW t \in Tickets
             PROVE  [labels |-> IF t \in ts \union links THEN labels[t] ELSE {},
                     effect |-> IF t \in ts THEN effect[t] ELSE None,
                     synced |-> IF t \in ts THEN synced[t] ELSE None] \in Images
  BY DEF Read
<1>1. labels[t] \in SUBSET OWNED_LABELS /\ effect[t] \in Classes /\ synced[t] \in Classes
  BY DEF TypeOK
<1>2. None \in Classes
  BY DEF Classes
<1> QED
  BY <1>1, <1>2 DEF Images

\* A step of one worker's run.
LEMMA RunStep ==
    ASSUME TypeInv, NEW w \in Workers, NEW r \in Runs, Holds(r, linked),
           run' = [run EXCEPT ![w] = r], linked' = linked
    PROVE  /\ run' \in [Workers -> Runs] /\ HandInv'
           /\ run'[w] = r /\ \A v \in Workers : v # w => run'[v] = run[v]
<1>1. run \in [Workers -> Runs]
  BY DEF TypeInv, TypeOK
<1>2. run' \in [Workers -> Runs] /\ run'[w] = r /\ \A v \in Workers : v # w => run'[v] = run[v]
  BY <1>1
<1>3. ASSUME NEW v \in Workers PROVE Holds(run'[v], linked')
  BY <1>2 DEF TypeInv, HandInv
<1> QED
  BY <1>2, <1>3 DEF HandInv

LEMMA HandType ==
    ASSUME TypeInv, NEW w \in Workers, run[w].step \notin {"idle", "prs", "issues"}
    PROVE  /\ Tk(w) \in Tickets /\ Mem(w) \in Images /\ run[w] \in Runs
           /\ Holds(run[w], linked) /\ run[w].winner \in Classes
           /\ labels[Tk(w)] \in SUBSET OWNED_LABELS
           /\ effect[Tk(w)] \in Classes /\ synced[Tk(w)] \in Classes
<1>1. run[w] \in Runs /\ Holds(run[w], linked)
  BY DEF TypeInv, TypeOK, HandInv
<1>2. Tk(w) \in Tickets
  BY <1>1 DEF Holds, Tk
<1>3. Mem(w) \in Images /\ run[w].winner \in Classes
  BY <1>1, <1>2 DEF Mem, Tk, Runs
<1> QED
  BY <1>1, <1>2, <1>3 DEF TypeInv, TypeOK

\* Where Leave(w) goes.
Left(w) ==
    IF w # Sweep THEN NoRun
    ELSE [NoRun EXCEPT !.step = IF Tk(w) \in PRs THEN "prs" ELSE "issues",
                       !.todo = run[w].todo,
                       !.mem = [run[w].mem EXCEPT ![Tk(w)] = Unread]]

LEMMA LeaveType ==
    ASSUME TypeInv, NEW w \in Workers
    PROVE  /\ Left(w) \in Runs /\ Left(w).step \in {"idle", "prs", "issues"}
           /\ Holds(Left(w), linked)
           /\ Leave(w) => run' = [run EXCEPT ![w] = Left(w)]
<1>1. NoRun \in Runs /\ Unread \in Images /\ run[w] \in Runs
  BY NoRunType DEF TypeInv, TypeOK
<1>2. run[w].todo \in SUBSET Tickets /\ run[w].mem \in [Tickets -> Images]
  BY <1>1 DEF Runs
<1>3. [run[w].mem EXCEPT ![Tk(w)] = Unread] \in [Tickets -> Images]
  BY <1>1, <1>2
<1>4. Left(w) \in Runs
  BY <1>1, <1>2, <1>3 DEF Left, Runs, Steps
<1>5. Left(w).step \in {"idle", "prs", "issues"}
  BY <1>1 DEF Left, NoRun
<1>6. Leave(w) => run' = [run EXCEPT ![w] = Left(w)]
  BY DEF Leave, Left
<1> QED
  BY <1>4, <1>5, <1>6 DEF Holds

\* The same run at another step.
Going(w, step) == [run[w] EXCEPT !.step = step]

LEMMA GotoType ==
    ASSUME TypeInv, NEW w \in Workers, NEW step \in Steps
    PROVE  /\ Going(w, step) \in Runs
           /\ Going(w, step).step = step /\ Going(w, step).at = run[w].at
           /\ Going(w, step).links = run[w].links /\ Going(w, step).link = run[w].link
           /\ Going(w, step).winner = run[w].winner /\ Going(w, step).mem = run[w].mem
           /\ Goto(w, step) => run' = [run EXCEPT ![w] = Going(w, step)]
<1>1. run[w] \in Runs
  BY DEF TypeInv, TypeOK
<1> QED
  BY <1>1 DEF Going, Goto, Runs

LEMMA LabelsType ==
    ASSUME TypeInv, NEW t \in Tickets, NEW ls \in SUBSET OWNED_LABELS, SetLabels(t, ls)
    PROVE  /\ labels' \in [Tickets -> SUBSET OWNED_LABELS] /\ pending' \subseteq Issues
           /\ labels'[t] = ls /\ \A u \in Tickets : u # t => labels'[u] = labels[u]
<1>1. labels \in [Tickets -> SUBSET OWNED_LABELS] /\ pending \subseteq Issues
  BY DEF TypeInv, TypeOK
<1> QED
  BY <1>1 DEF SetLabels

LEMMA StepType ==
    ASSUME TypeInv, NEW w \in Workers, NEW r \in Runs, Holds(r, linked),
           run' = [run EXCEPT ![w] = r], UNCHANGED Env,
           labels' \in [Tickets -> SUBSET OWNED_LABELS],
           effect' \in [Tickets -> Classes], synced' \in [Tickets -> Classes],
           pending' \subseteq Issues
    PROVE  TypeInv'
<1>1. UNCHANGED <<linked, edits, kills, due>>
  BY DEF Env
<1>2. run' \in [Workers -> Runs] /\ HandInv'
  BY <1>1, RunStep
<1> QED
  BY <1>1, <1>2 DEF TypeInv, TypeOK

LEMMA QuietStepType ==
    ASSUME TypeInv, NEW w \in Workers, NEW r \in Runs, Holds(r, linked),
           run' = [run EXCEPT ![w] = r], UNCHANGED <<Surfaces, pending, Env>>
    PROVE  TypeInv'
<1>1. UNCHANGED <<labels, effect, synced, pending>> /\ UNCHANGED Env
  BY DEF Surfaces
<1> QED
  BY <1>1, StepType DEF TypeInv, TypeOK

LEMMA TypeInit == Init => TypeInv
<1> SUFFICES ASSUME Init PROVE TypeInv
  OBVIOUS
<1>1. NoRun \in Runs /\ Holds(NoRun, linked) /\ None \in Classes
  BY NoRunType DEF Classes
<1>2. run \in [Workers -> Runs] /\ HandInv
  BY <1>1 DEF Init, HandInv
<1>3. due \in [Tickets -> Classes \union {Free}]
  BY <1>1 DEF Init
<1>4. edits \in 0..MaxEdits /\ kills \in 0..MaxKills
  BY BoundsAssumption DEF Init
<1> QED
  BY <1>1, <1>2, <1>3, <1>4 DEF Init, TypeInv, TypeOK

LEMMA TypeStartEvent ==
    ASSUME TypeInv, NEW i \in Issues, StartEvent(i) PROVE TypeInv'
<1> DEFINE r == [NoRun EXCEPT !.step = "decide", !.at = i, !.mem = Read({i}, {})]
<1>1. i \in Workers /\ i \in Tickets
  BY DEF Workers, Tickets
<1>2. Read({i}, {}) \in [Tickets -> Images]
  BY ReadType DEF TypeInv
<1>3. r \in Runs /\ r.step = "decide" /\ r.at = i
  BY <1>1, <1>2, NoRunType DEF Runs, Steps
<1>4. Holds(r, linked)
  BY <1>1, <1>3 DEF Holds
<1>5. run' = [run EXCEPT ![i] = r] /\ UNCHANGED <<labels, effect, synced>> /\ UNCHANGED Env
  BY DEF StartEvent, Surfaces
<1>6. pending' \subseteq Issues
  BY DEF StartEvent, TypeInv, TypeOK
<1> HIDE DEF r
<1> QED
  BY <1>1, <1>3, <1>4, <1>5, <1>6, StepType DEF TypeInv, TypeOK

LEMMA TypeSweepTurns ==
    ASSUME TypeInv,
           StartSweep \/ NextTicket("prs") \/ NextTicket("issues") \/ FetchIssues \/ EndSweep
    PROVE  TypeInv' /\ \E r \in Runs : run' = [run EXCEPT ![Sweep] = r]
                                       /\ r.step \in {"idle", "prs", "issues", "decide"}
<1>1. Sweep \in Workers /\ run[Sweep] \in Runs /\ PRs \subseteq Tickets /\ Issues \subseteq Tickets
  BY DEF Workers, TypeInv, TypeOK, Tickets
<1>2. \A ts, links : Read(ts, links) \in [Tickets -> Images]
  BY ReadType DEF TypeInv
<1>3. CASE StartSweep
  <2> DEFINE r == [NoRun EXCEPT !.step = "prs", !.mem = Read(PRs, Issues), !.todo = PRs]
  <2>1. r \in Runs /\ r.step = "prs"
    BY <1>1, <1>2, NoRunType DEF Runs, Steps
  <2>2. Holds(r, linked)
    BY <2>1 DEF Holds
  <2>3. run' = [run EXCEPT ![Sweep] = r] /\ UNCHANGED <<Surfaces, pending, Env>>
    BY <1>3 DEF StartSweep
  <2> HIDE DEF r
  <2> QED
    BY <1>1, <2>1, <2>2, <2>3, QuietStepType
<1>4. ASSUME NEW phase, NextTicket(phase)
      PROVE  TypeInv' /\ \E r \in Runs : run' = [run EXCEPT ![Sweep] = r] /\ r.step = "decide"
  <2>1. PICK t \in run[Sweep].todo :
          run' = [run EXCEPT ![Sweep].step = "decide", ![Sweep].at = t,
                             ![Sweep].todo = @ \ {t}]
    BY <1>4 DEF NextTicket
  <2> DEFINE r == [run[Sweep] EXCEPT !.step = "decide", !.at = t, !.todo = @ \ {t}]
  <2>2. t \in Tickets
    BY <1>1 DEF Runs
  <2>3. r \in Runs /\ r.step = "decide" /\ r.at = t
    BY <1>1, <2>2 DEF Runs, Steps
  <2>4. Holds(r, linked)
    BY <2>2, <2>3 DEF Holds
  <2>5. run' = [run EXCEPT ![Sweep] = r] /\ UNCHANGED <<Surfaces, pending, Env>>
    BY <2>1, <1>1, <1>4 DEF NextTicket, TypeInv, TypeOK
  <2> HIDE DEF r
  <2> QED
    BY <1>1, <2>3, <2>4, <2>5, QuietStepType
<1>5. CASE FetchIssues
  <2> DEFINE r == [NoRun EXCEPT !.step = "issues", !.mem = Read(Issues, {}), !.todo = Issues]
  <2>1. r \in Runs /\ r.step = "issues"
    BY <1>1, <1>2, NoRunType DEF Runs, Steps
  <2>2. Holds(r, linked)
    BY <2>1 DEF Holds
  <2>3. run' = [run EXCEPT ![Sweep] = r] /\ UNCHANGED <<Surfaces, pending, Env>>
    BY <1>5 DEF FetchIssues
  <2> HIDE DEF r
  <2> QED
    BY <1>1, <2>1, <2>2, <2>3, QuietStepType
<1>6. CASE EndSweep
  <2>1. run' = [run EXCEPT ![Sweep] = NoRun] /\ UNCHANGED <<Surfaces, pending, Env>>
    BY <1>6 DEF EndSweep
  <2>2. NoRun.step = "idle"
    BY DEF NoRun
  <2> QED
    BY <1>1, <2>1, <2>2, NoRunType, QuietStepType
<1> QED
  BY <1>3, <1>4, <1>5, <1>6

\* Worker w's run becomes r.
Turn(w, r) == r \in Runs /\ Holds(r, linked) /\ run' = [run EXCEPT ![w] = r]

\* r goes on with the ticket run[w] has in hand.
Stays(w, r) ==
    /\ r.at = run[w].at /\ r.todo = run[w].todo
    /\ \A u \in Tickets : u # Tk(w) => r.mem[u] = run[w].mem[u]

\* It is done with it.
Done(w, r) ==
    /\ r.at = Sweep
    /\ w = Sweep =>
      /\ r.todo = run[w].todo
      /\ r.step = IF Tk(w) \in PRs THEN "prs" ELSE "issues"
      /\ \A u \in Tickets : u # Tk(w) => r.mem[u] = run[w].mem[u]

\* r is run[w] at another step, on the same ticket and of the same mind.
SameRead(w, r) == r.at = run[w].at /\ r.todo = run[w].todo /\ r.mem = run[w].mem
SameHand(w, r) == SameRead(w, r) /\ r.winner = run[w].winner

LEMMA SameStays ==
    ASSUME NEW w, NEW r, SameRead(w, r) PROVE Stays(w, r)
  BY DEF SameRead, Stays

\* A run that writes or is about to.
Busy(r) == r.step \in {"labels", "field", "add", "remove", "state"}

LEMMA LeaveTurn ==
    ASSUME TypeInv, NEW w \in Workers, Leave(w)
    PROVE  \E r : Turn(w, r) /\ ~Busy(r) /\ Done(w, r)
<1>1. Turn(w, Left(w)) /\ ~Busy(Left(w))
  BY LeaveType DEF Turn, Busy
<1>2. run[w].mem \in [Tickets -> Images]
  BY DEF TypeInv, TypeOK, Runs
<1>3. Done(w, Left(w))
  <2> SUFFICES ASSUME w = Sweep
               PROVE  /\ Left(w).todo = run[w].todo
                      /\ Left(w).step = IF Tk(w) \in PRs THEN "prs" ELSE "issues"
                      /\ \A u \in Tickets : u # Tk(w) => Left(w).mem[u] = run[w].mem[u]
    BY DEF Done, Left, NoRun
  <2>1. \A u \in Tickets : u # Tk(w) => [run[w].mem EXCEPT ![Tk(w)] = Unread][u] = run[w].mem[u]
    BY <1>2
  <2> QED
    BY <2>1 DEF Left, NoRun
<1> QED
  BY <1>1, <1>3

LEMMA GotoTurn ==
    ASSUME TypeInv, NEW w \in Workers, NEW step \in Steps, Goto(w, step),
           Holds(Going(w, step), linked)
    PROVE  \E r : Turn(w, r) /\ SameHand(w, r) /\ r.step = step
<1>1. run[w] \in Runs
  BY DEF TypeInv, TypeOK
<1>2. Going(w, step).todo = run[w].todo
  BY <1>1 DEF Going, Runs
<1>3. Turn(w, Going(w, step)) /\ SameHand(w, Going(w, step)) /\ Going(w, step).step = step
  BY <1>2, GotoType DEF Turn, SameHand, SameRead
<1> QED
  BY <1>3

\* A step inside sync_ticket.
LEMMA GotoHolds ==
    ASSUME TypeInv, NEW w \in Workers, run[w].step \notin {"idle", "prs", "issues"},
           NEW step \in {"decide", "labels", "field", "add", "remove", "state", "synced"}
    PROVE  step \in Steps /\ Holds(Going(w, step), linked)
<1>1. Tk(w) \in Tickets
  BY HandType
<1>2. step \in Steps
  BY DEF Steps
<1> QED
  BY <1>1, <1>2, GotoType DEF Holds, Tk

LEMMA DecideTurn ==
    ASSUME TypeInv, NEW w \in Workers, Decide(w)
    PROVE  /\ UNCHANGED <<Surfaces, pending, Env>>
           /\ \E r : /\ Turn(w, r)
                     /\ \/ ~Busy(r) /\ Done(w, r)
                        \/ /\ SameRead(w, r) /\ r.step = "labels" /\ r.winner = Winner(Mem(w))
                           /\ effect[Tk(w)] = Mem(w).effect /\ synced[Tk(w)] = Mem(w).synced
                        \/ /\ SameRead(w, r) /\ r.step = "synced"
                           /\ ~NeedsWrite(Winner(Mem(w)), Mem(w))
                           /\ LinksOf(Tk(w)) # {} => Winner(Mem(w)) # None
<1> DEFINE c == Winner(Mem(w))
           write == NeedsWrite(c, Mem(w)) \/ (c = None /\ LinksOf(Tk(w)) # {})
           moved == effect[Tk(w)] # Mem(w).effect \/ synced[Tk(w)] # Mem(w).synced
           r == [run[w] EXCEPT !.winner = c, !.step = IF write THEN "labels" ELSE "synced"]
<1>1. At(w, "decide") /\ UNCHANGED <<Surfaces, pending, Env>>
  BY DEF Decide
<1>2. /\ Tk(w) \in Tickets /\ Mem(w) \in Images /\ run[w] \in Runs
      /\ Holds(run[w], linked)
  BY <1>1, HandType DEF At
<1>3. c \in Classes
  BY <1>2, ClassIs, ResolveIn DEF Winner, Images
<1>4. CASE write /\ moved
  <2>1. Leave(w)
    BY <1>4 DEF Decide
  <2> QED
    BY <1>1, <2>1, LeaveTurn
<1>5. CASE ~(write /\ moved)
  <2>1. run' = [run EXCEPT ![w].winner = c, ![w].step = IF write THEN "labels" ELSE "synced"]
    BY <1>5 DEF Decide
  <2> HIDE DEF write, moved, c
  <2>2. run' = [run EXCEPT ![w] = r]
    BY <2>1, <1>2 DEF TypeInv, TypeOK
  <2>3. /\ r \in Runs /\ r.winner = c /\ r.at = Tk(w) /\ r.mem = run[w].mem
        /\ r.todo = run[w].todo
        /\ r.step = IF write THEN "labels" ELSE "synced"
    BY <1>2, <1>3 DEF Runs, Steps, Tk
  <2>4. Holds(r, linked)
    BY <1>2, <2>3 DEF Holds
  <2>5. Turn(w, r) /\ SameRead(w, r)
    BY <2>2, <2>3, <2>4 DEF Turn, SameRead, Tk
  <2>6. CASE write
    <3>1. ~moved
      BY <1>5, <2>6
    <3>2. effect[Tk(w)] = Mem(w).effect /\ synced[Tk(w)] = Mem(w).synced
      BY <3>1 DEF moved
    <3> QED
      BY <1>1, <2>3, <2>5, <2>6, <3>2 DEF c
  <2>7. CASE ~write
    <3>1. r.step = "synced"
      BY <2>3, <2>7
    <3>2. ~NeedsWrite(Winner(Mem(w)), Mem(w)) /\ (LinksOf(Tk(w)) # {} => Winner(Mem(w)) # None)
      BY <2>7 DEF write, c
    <3> HIDE DEF r
    <3> QED
      BY <1>1, <2>5, <3>1, <3>2
  <2> QED
    BY <2>6, <2>7
<1> QED
  BY <1>4, <1>5

LEMMA WriteSteps ==
    ASSUME TypeInv, NEW w \in Workers, run[w].step \notin {"idle", "prs", "issues"}
    PROVE  {AfterAdd(w), AfterField(w), FirstWrite(w)}
             \subseteq {"field", "add", "remove", "state"}
  BY DEF AfterAdd, AfterField, FirstWrite

LEMMA RecheckTurn ==
    ASSUME TypeInv, NEW w \in Workers, RecheckLabels(w)
    PROVE  /\ UNCHANGED <<Surfaces, pending, Env>>
           /\ \E r : /\ Turn(w, r)
                     /\ \/ ~Busy(r) /\ Done(w, r)
                        \/ SameHand(w, r) /\ r.step = FirstWrite(w) /\ labels[Tk(w)] = Mem(w).labels
                        \/ /\ SameHand(w, r) /\ r.step = "synced"
                           /\ labels[Tk(w)] = Mem(w).labels
                           /\ ~NeedsWrite(run[w].winner, Mem(w))
<1>1. At(w, "labels") /\ UNCHANGED <<Surfaces, pending, Env>>
  BY DEF RecheckLabels
<1>2. run[w].step \notin {"idle", "prs", "issues"}
  BY <1>1 DEF At
<1>3. CASE labels[Tk(w)] # Mem(w).labels
  <2>1. Leave(w)
    BY <1>3 DEF RecheckLabels
  <2> QED
    BY <1>1, <2>1, LeaveTurn
<1>4. CASE labels[Tk(w)] = Mem(w).labels /\ NeedsWrite(run[w].winner, Mem(w))
  <2>1. Goto(w, FirstWrite(w))
    BY <1>4 DEF RecheckLabels
  <2>2. FirstWrite(w) \in {"decide", "labels", "field", "add", "remove", "state", "synced"}
    BY <1>2, WriteSteps
  <2>3. FirstWrite(w) \in Steps /\ Holds(Going(w, FirstWrite(w)), linked)
    BY <1>2, <2>2, GotoHolds
  <2> QED
    BY <1>1, <1>4, <2>1, <2>3, GotoTurn
<1>5. CASE labels[Tk(w)] = Mem(w).labels /\ ~NeedsWrite(run[w].winner, Mem(w))
  <2>1. Goto(w, "synced")
    BY <1>5 DEF RecheckLabels
  <2>2. "synced" \in Steps /\ Holds(Going(w, "synced"), linked)
    BY <1>2, GotoHolds
  <2>3. \E r : Turn(w, r) /\ SameHand(w, r) /\ r.step = "synced"
    BY <2>1, <2>2, GotoTurn
  <2> QED
    BY <1>1, <1>5, <2>3
<1> QED
  BY <1>3, <1>4, <1>5

LEMMA WriteFieldTurn ==
    ASSUME TypeInv, NEW w \in Workers, WriteField(w)
    PROVE  \E r : Turn(w, r) /\ SameHand(w, r) /\ r.step = AfterField(w)
<1>1. run[w].step \notin {"idle", "prs", "issues"} /\ Goto(w, AfterField(w))
  BY DEF WriteField, At
<1>2. AfterField(w) \in {"decide", "labels", "field", "add", "remove", "state", "synced"}
  BY <1>1, WriteSteps
<1> QED
  BY <1>1, <1>2, GotoHolds, GotoTurn

LEMMA AddTurn ==
    ASSUME TypeInv, NEW w \in Workers, AddLabels(w)
    PROVE  \E r : Turn(w, r) /\ SameHand(w, r) /\ r.step = AfterAdd(w)
<1>1. run[w].step \notin {"idle", "prs", "issues"} /\ Goto(w, AfterAdd(w))
  BY DEF AddLabels, At
<1>2. AfterAdd(w) \in {"decide", "labels", "field", "add", "remove", "state", "synced"}
  BY <1>1, WriteSteps
<1> QED
  BY <1>1, <1>2, GotoHolds, GotoTurn

LEMMA RemoveTurn ==
    ASSUME TypeInv, NEW w \in Workers, RemoveLabels(w)
    PROVE  \E r : Turn(w, r) /\ SameHand(w, r) /\ r.step = "state"
<1>1. run[w].step \notin {"idle", "prs", "issues"} /\ Goto(w, "state")
  BY DEF RemoveLabels, At
<1> QED
  BY <1>1, GotoHolds, GotoTurn

LEMMA StateTurn ==
    ASSUME TypeInv, NEW w \in Workers, WriteState(w)
    PROVE  \E r : /\ Turn(w, r) /\ Stays(w, r) /\ r.step = "synced"
                  /\ r.mem[Tk(w)] =
                       [labels |-> (Mem(w).labels \ (OWNED_LABELS \ KEEP_ALWAYS))
                                      \union WRITEBACK_LABELS[run[w].winner],
                        effect |-> run[w].winner, synced |-> run[w].winner]
<1> DEFINE c == run[w].winner
           kept == Mem(w).labels \ (OWNED_LABELS \ KEEP_ALWAYS)
           m == [labels |-> kept \union WRITEBACK_LABELS[c], effect |-> c, synced |-> c]
           r == [run[w] EXCEPT !.step = "synced", !.mem = [@ EXCEPT ![Tk(w)] = m]]
<1>1. run[w].step \notin {"idle", "prs", "issues"}
  BY DEF WriteState, At
<1>2. /\ Tk(w) \in Tickets /\ Mem(w) \in Images /\ run[w] \in Runs
      /\ Holds(run[w], linked) /\ c \in Classes
  BY <1>1, HandType
<1>3. m \in Images
  BY <1>2, WritebackRank DEF Images
<1>4. run' = [run EXCEPT ![w].step = "synced", ![w].mem[Tk(w)] = m]
  BY DEF WriteState
<1> HIDE DEF m
<1>5. run' = [run EXCEPT ![w] = r]
  BY <1>2, <1>4 DEF TypeInv, TypeOK
<1>6. [run[w].mem EXCEPT ![Tk(w)] = m] \in [Tickets -> Images]
  BY <1>2, <1>3 DEF Runs
<1>7. r \in Runs /\ r.step = "synced" /\ r.at = Tk(w) /\ r.todo = run[w].todo
  BY <1>2, <1>6 DEF Runs, Steps, Tk
<1>8. Holds(r, linked)
  BY <1>2, <1>7 DEF Holds
<1>9. r.mem[Tk(w)] = m /\ \A u \in Tickets : u # Tk(w) => r.mem[u] = run[w].mem[u]
  BY <1>2 DEF Runs
<1>10. Turn(w, r) /\ Stays(w, r)
  BY <1>5, <1>7, <1>8, <1>9 DEF Turn, Stays, Tk
<1> QED
  BY <1>7, <1>9, <1>10 DEF m

LEMMA LinksAre ==
    ASSUME TypeInv, NEW t \in Tickets
    PROVE  /\ LinksOf(t) \subseteq Issues
           /\ LinksOf(t) # {} => t \in PRs /\ LinksOf(t) = linked[t]
  BY DEF LinksOf, TypeInv, TypeOK

LEMMA PropagateTurn ==
    ASSUME TypeInv, NEW w \in Workers, Propagate(w)
    PROVE  /\ UNCHANGED <<Surfaces, pending, Env>>
           /\ \E r : /\ Turn(w, r) /\ ~Busy(r)
                     /\ \/ Done(w, r)
                        \/ /\ SameRead(w, r) /\ r.winner # None
                           /\ \/ /\ r.step = "inherit" /\ ClassOf(Mem(w).labels) = None
                                 /\ \E i \in LinksOf(Tk(w)) :
                                      r.winner = ClassOf(run[w].mem[i].labels)
                              \/ r.step = "spread" /\ r.winner = ClassOf(Mem(w).labels)
<1> DEFINE class == ClassOf(Mem(w).labels)
           c == IF class = None THEN Inherited(w) ELSE class
           r == [run[w] EXCEPT !.winner = c, !.links = LinksOf(Tk(w)),
                               !.step = IF class = None THEN "inherit" ELSE "spread"]
<1>1. run[w].step = "synced" /\ UNCHANGED <<Surfaces, pending, Env>>
  BY DEF Propagate, At
<1>2. /\ Tk(w) \in Tickets /\ Mem(w) \in Images /\ run[w] \in Runs
      /\ Holds(run[w], linked)
  BY <1>1, HandType
<1>3. CASE LinksOf(Tk(w)) = {} \/ run[w].again \/ c = None
  <2>1. Leave(w)
    BY <1>3 DEF Propagate
  <2> QED
    BY <1>1, <2>1, LeaveTurn
<1>4. CASE ~(LinksOf(Tk(w)) = {} \/ run[w].again \/ c = None)
  <2>1. run' = [run EXCEPT ![w].winner = c, ![w].links = LinksOf(Tk(w)),
                           ![w].step = IF class = None THEN "inherit" ELSE "spread"]
    BY <1>4 DEF Propagate
  <2>2. Tk(w) \in PRs /\ LinksOf(Tk(w)) = linked[Tk(w)] /\ linked[Tk(w)] # {}
        /\ LinksOf(Tk(w)) \subseteq Issues
    BY <1>2, <1>4, LinksAre
  <2>3. /\ c \in Classes
        /\ class = None /\ c # None =>
             \E i \in LinksOf(Tk(w)) : c = ClassOf(run[w].mem[i].labels)
    <3>1. class \in Classes
      BY <1>2, ClassIs DEF Images
    <3>2. \A i \in LinksOf(Tk(w)) : ClassOf(run[w].mem[i].labels) \in Classes
      <4> TAKE i \in LinksOf(Tk(w))
      <4>1. run[w].mem[i] \in Images
        BY <1>2, <2>2 DEF Runs, Tickets
      <4> QED
        BY <4>1, ClassIs DEF Images
    <3>3. {ClassOf(run[w].mem[i].labels) : i \in LinksOf(Tk(w))} \ {None} \in SUBSET Options
      BY <3>2 DEF Classes
    <3>4. Inherited(w) \in Classes
      BY <3>3, StrongestIs DEF Inherited
    <3>5. ASSUME Inherited(w) # None
          PROVE  \E i \in LinksOf(Tk(w)) : Inherited(w) = ClassOf(run[w].mem[i].labels)
      <4>1. PICK os : os = {ClassOf(run[w].mem[i].labels) : i \in LinksOf(Tk(w))} \ {None}
        OBVIOUS
      <4>2. Inherited(w) = Strongest(os) /\ os \in SUBSET Options
        BY <3>3, <4>1 DEF Inherited
      <4>3. Inherited(w) \in os
        BY <3>5, <4>2, StrongestIs
      <4> QED
        BY <4>1, <4>3
    <3> QED
      BY <3>1, <3>4, <3>5
  <2> HIDE DEF class, c
  <2>4. run' = [run EXCEPT ![w] = r]
    BY <2>1, <1>2 DEF TypeInv, TypeOK
  <2>5. /\ r \in Runs /\ r.at = Tk(w) /\ r.links = LinksOf(Tk(w)) /\ r.winner = c
        /\ r.todo = run[w].todo /\ r.mem = run[w].mem
        /\ r.step = IF class = None THEN "inherit" ELSE "spread"
    BY <1>2, <2>2, <2>3 DEF Runs, Steps, Tk
  <2>6. Holds(r, linked)
    BY <1>2, <2>2, <2>5 DEF Holds
  <2> HIDE DEF r
  <2>7. Turn(w, r) /\ ~Busy(r) /\ SameRead(w, r)
    BY <2>4, <2>5, <2>6 DEF Turn, Busy, SameRead, Tk
  <2>8. r.winner # None
    BY <1>4, <2>5
  <2>9. CASE class = None
    <3>1. r.step = "inherit" /\ ClassOf(Mem(w).labels) = None
      BY <2>5, <2>9 DEF class
    <3>2. \E i \in LinksOf(Tk(w)) : r.winner = ClassOf(run[w].mem[i].labels)
      BY <2>3, <2>5, <2>8, <2>9
    <3> QED
      BY <1>1, <2>7, <2>8, <3>1, <3>2
  <2>10. CASE class # None
    <3>1. r.step = "spread" /\ r.winner = ClassOf(Mem(w).labels)
      BY <2>5, <2>10 DEF class, c
    <3> QED
      BY <1>1, <2>7, <2>8, <3>1
  <2> QED
    BY <2>9, <2>10
<1> QED
  BY <1>3, <1>4

LEMMA RecheckInheritTurn ==
    ASSUME TypeInv, NEW w \in Workers, RecheckInherit(w)
    PROVE  /\ UNCHANGED <<Surfaces, pending, Env>>
           /\ \E r : /\ Turn(w, r) /\ ~Busy(r)
                     /\ \/ Done(w, r)
                        \/ SameHand(w, r) /\ r.step = "adopt" /\ labels[Tk(w)] = Mem(w).labels
<1>1. run[w].step = "inherit" /\ UNCHANGED <<Surfaces, pending, Env>>
  BY DEF RecheckInherit, At
<1>2. CASE Leave(w)
  BY <1>1, <1>2, LeaveTurn
<1>3. CASE Goto(w, "adopt") /\ labels[Tk(w)] = Mem(w).labels
  <2>1. "adopt" \in Steps /\ Holds(run[w], linked)
    BY <1>1, HandType DEF Steps
  <2>2. Holds(Going(w, "adopt"), linked)
    BY <1>1, <2>1, GotoType DEF Holds
  <2>3. PICK r : Turn(w, r) /\ SameHand(w, r) /\ r.step = "adopt"
    BY <1>3, <2>1, <2>2, GotoTurn
  <2> QED
    BY <1>1, <1>3, <2>3 DEF Busy
<1> QED
  BY <1>2, <1>3 DEF RecheckInherit

\* Inheriting writes to a pull request with issues, spreading to one of them.
LEMMA AdoptTurn ==
    ASSUME TypeInv, NEW w \in Workers, Adopt(w)
    PROVE  /\ UNCHANGED <<effect, synced, Env>>
           /\ \E r : /\ Turn(w, r) /\ ~Busy(r) /\ Stays(w, r) /\ r.step = "spread"
                     /\ r.winner = run[w].winner
                     /\ r.mem[Tk(w)] = [Mem(w) EXCEPT !.labels =
                                          @ \union WRITEBACK_LABELS[run[w].winner]]
           /\ run[w].step = "adopt" /\ Tk(w) \in PRs /\ linked[Tk(w)] # {}
           /\ SetLabels(Tk(w), labels[Tk(w)] \union
                                 (WRITEBACK_LABELS[run[w].winner] \ Mem(w).labels))
           /\ labels[Tk(w)] \union (WRITEBACK_LABELS[run[w].winner] \ Mem(w).labels)
                \in SUBSET OWNED_LABELS
<1> DEFINE added == WRITEBACK_LABELS[run[w].winner]
           m == [Mem(w) EXCEPT !.labels = @ \union added]
           r == [run[w] EXCEPT !.step = "spread", !.again = TRUE,
                               !.mem = [@ EXCEPT ![Tk(w)] = m]]
<1>1. run[w].step = "adopt" /\ UNCHANGED <<effect, synced, Env>>
  BY DEF Adopt, At
<1>2. /\ Tk(w) \in Tickets /\ Mem(w) \in Images /\ run[w] \in Runs
      /\ Holds(run[w], linked) /\ run[w].winner \in Classes
      /\ labels[Tk(w)] \in SUBSET OWNED_LABELS
  BY <1>1, HandType
<1>3. Tk(w) \in PRs /\ linked[Tk(w)] # {} /\ run[w].links \subseteq linked[Tk(w)]
  BY <1>1, <1>2 DEF Holds, Tk
<1>4. added \subseteq OWNED_LABELS
  BY <1>2, WritebackRank
<1>5. m \in Images
  BY <1>2, <1>4 DEF Images
<1>6. SetLabels(Tk(w), labels[Tk(w)] \union (added \ Mem(w).labels))
  BY DEF Adopt
<1>7. labels[Tk(w)] \union (added \ Mem(w).labels) \in SUBSET OWNED_LABELS
  BY <1>2, <1>4
<1>8. run' = [run EXCEPT ![w].step = "spread", ![w].again = TRUE,
                         ![w].mem[Tk(w)].labels = @ \union added]
  BY DEF Adopt
<1> HIDE DEF added
<1>9. run' = [run EXCEPT ![w] = r]
  BY <1>2, <1>8 DEF TypeInv, TypeOK, Mem, Tk
<1> HIDE DEF m
<1>10. [run[w].mem EXCEPT ![Tk(w)] = m] \in [Tickets -> Images]
  BY <1>2, <1>5 DEF Runs
<1>11. /\ r \in Runs /\ r.step = "spread" /\ r.at = Tk(w) /\ r.links = run[w].links
       /\ r.todo = run[w].todo /\ r.winner = run[w].winner
  BY <1>2, <1>10 DEF Runs, Steps, Tk
<1>12. Holds(r, linked)
  BY <1>2, <1>3, <1>11 DEF Holds
<1>13. r.mem[Tk(w)] = m /\ \A u \in Tickets : u # Tk(w) => r.mem[u] = run[w].mem[u]
  BY <1>2 DEF Runs
<1> HIDE DEF r
<1>14. Turn(w, r) /\ ~Busy(r) /\ Stays(w, r)
  BY <1>9, <1>11, <1>12, <1>13 DEF Turn, Busy, Stays, Tk
<1>15. r.mem[Tk(w)] = [Mem(w) EXCEPT !.labels = @ \union WRITEBACK_LABELS[run[w].winner]]
  BY <1>13 DEF m, added
<1>16. /\ SetLabels(Tk(w), labels[Tk(w)] \union
                             (WRITEBACK_LABELS[run[w].winner] \ Mem(w).labels))
       /\ labels[Tk(w)] \union (WRITEBACK_LABELS[run[w].winner] \ Mem(w).labels)
            \in SUBSET OWNED_LABELS
  BY <1>6, <1>7 DEF added
<1> QED
  BY <1>1, <1>3, <1>11, <1>14, <1>15, <1>16

LEMMA SpreadTurn ==
    ASSUME TypeInv, NEW w \in Workers, NEW i \in Issues, Spread(w, i)
    PROVE  /\ UNCHANGED <<Surfaces, pending, Env>>
           /\ \E r : /\ Turn(w, r) /\ ~Busy(r) /\ SameHand(w, r)
                     /\ \/ r.step = "spread"
                        \/ /\ r.step \in {"linkAdd", "linkRemove"} /\ r.link = i
                           /\ LabelsDiffer(r.winner, r.mem[i].labels)
                           /\ labels[i] = r.mem[i].labels
                           /\ r.step = "linkRemove" => Added(r.winner, r.mem[i].labels) = {}
           /\ run[w].step = "spread" /\ Tk(w) \in PRs /\ i \in linked[Tk(w)]
<1> DEFINE write == LabelsDiffer(run[w].winner, LinkRead(w, i)) /\ labels[i] = LinkRead(w, i)
           first == IF Added(run[w].winner, LinkRead(w, i)) = {} THEN "linkRemove" ELSE "linkAdd"
           r == [run[w] EXCEPT !.links = @ \ {i}, !.link = i,
                               !.step = IF write THEN first ELSE "spread"]
<1>1. run[w].step = "spread" /\ i \in run[w].links /\ UNCHANGED <<Surfaces, pending, Env>>
  BY DEF Spread, At
<1>2. Tk(w) \in Tickets /\ run[w] \in Runs /\ Holds(run[w], linked)
  BY <1>1, HandType
<1>3. Tk(w) \in PRs /\ run[w].links \subseteq linked[Tk(w)]
  BY <1>1, <1>2 DEF Holds, Tk
<1>4. run' = [run EXCEPT ![w].links = @ \ {i}, ![w].link = i,
                         ![w].step = IF write THEN first ELSE "spread"]
  BY DEF Spread
<1> HIDE DEF write
<1>5. run' = [run EXCEPT ![w] = r]
  BY <1>2, <1>4 DEF TypeInv, TypeOK
<1>6. /\ r \in Runs /\ r.at = Tk(w) /\ r.links = run[w].links \ {i} /\ r.link = i
      /\ r.todo = run[w].todo /\ r.mem = run[w].mem /\ r.winner = run[w].winner
      /\ r.step \in {"spread", "linkAdd", "linkRemove"}
      /\ r.step = IF write THEN first ELSE "spread"
  BY <1>2 DEF Runs, Steps, Tk
<1> HIDE DEF r
<1>7. Holds(r, linked)
  BY <1>1, <1>2, <1>3, <1>6 DEF Holds
<1>8. Turn(w, r) /\ ~Busy(r) /\ SameHand(w, r)
  BY <1>5, <1>6, <1>7 DEF Turn, Busy, SameHand, SameRead, Tk
<1>9. CASE write
  <2>1. LabelsDiffer(r.winner, r.mem[i].labels) /\ labels[i] = r.mem[i].labels
    BY <1>6, <1>9 DEF write, LinkRead
  <2>2. r.step = "linkRemove" => Added(r.winner, r.mem[i].labels) = {}
    BY <1>6, <1>9 DEF LinkRead
  <2>3. r.step \in {"linkAdd", "linkRemove"}
    BY <1>6, <1>9
  <2> QED
    BY <1>1, <1>3, <1>6, <1>8, <2>1, <2>2, <2>3
<1>10. CASE ~write
  BY <1>1, <1>3, <1>6, <1>8, <1>10
<1> QED
  BY <1>9, <1>10

LEMMA LinkStep ==
    ASSUME TypeInv, NEW w \in Workers, run[w].step \in {"linkAdd", "linkRemove"},
           NEW step \in {"spread", "linkRemove"}, Goto(w, step)
    PROVE  /\ \E r : Turn(w, r) /\ ~Busy(r) /\ SameHand(w, r) /\ r.step = step
           /\ Tk(w) \in PRs /\ run[w].link \in linked[Tk(w)] /\ run[w].link \in Issues
           /\ labels[run[w].link] \in SUBSET OWNED_LABELS
           /\ run[w].winner \in Classes
<1>1. /\ Tk(w) \in Tickets /\ run[w] \in Runs /\ Holds(run[w], linked)
      /\ run[w].winner \in Classes
  BY HandType
<1>2. /\ Tk(w) \in PRs /\ run[w].link \in linked[Tk(w)]
      /\ run[w].links \subseteq linked[Tk(w)]
  BY <1>1 DEF Holds, Tk
<1>3. run[w].link \in Issues /\ Issues \subseteq Tickets
  BY <1>2 DEF TypeInv, TypeOK, Tickets
<1>4. labels[run[w].link] \in SUBSET OWNED_LABELS
  BY <1>3 DEF TypeInv, TypeOK
<1>5. step \in Steps
  BY DEF Steps
<1>6. Holds(Going(w, step), linked)
  BY <1>1, <1>2, <1>5, GotoType DEF Holds, Tk
<1>7. PICK r : Turn(w, r) /\ SameHand(w, r) /\ r.step = step
  BY <1>5, <1>6, GotoTurn
<1> QED
  BY <1>1, <1>2, <1>3, <1>4, <1>7 DEF Busy

LEMMA LinkAddTurn ==
    ASSUME TypeInv, NEW w \in Workers, LinkAdd(w),
           NEW i, i = run[w].link, NEW L, L = labels[i] \union Added(run[w].winner, LinkRead(w, i))
    PROVE  /\ UNCHANGED <<effect, synced, Env>> /\ run[w].step = "linkAdd"
           /\ \E r : Turn(w, r) /\ ~Busy(r) /\ SameHand(w, r) /\ r.step \in {"spread", "linkRemove"}
           /\ Tk(w) \in PRs /\ i \in linked[Tk(w)] /\ i \in Issues
           /\ L \in SUBSET OWNED_LABELS /\ SetLabels(i, L)
<1>1. /\ run[w].step = "linkAdd" /\ UNCHANGED <<effect, synced, Env>> /\ SetLabels(i, L)
      /\ Goto(w, IF Stripped(run[w].winner, LinkRead(w, i)) = {} THEN "spread" ELSE "linkRemove")
  BY DEF LinkAdd, At
<1>2. PICK step \in {"spread", "linkRemove"} : Goto(w, step)
  BY <1>1
<1>3. /\ \E r : Turn(w, r) /\ ~Busy(r) /\ SameHand(w, r) /\ r.step = step
      /\ Tk(w) \in PRs /\ i \in linked[Tk(w)] /\ i \in Issues
      /\ labels[i] \in SUBSET OWNED_LABELS /\ run[w].winner \in Classes
  BY <1>1, <1>2, LinkStep
<1>4. Added(run[w].winner, LinkRead(w, i)) \subseteq OWNED_LABELS
  BY <1>3, WritebackRank DEF Added
<1> QED
  BY <1>1, <1>3, <1>4

LEMMA LinkRemoveTurn ==
    ASSUME TypeInv, NEW w \in Workers, LinkRemove(w),
           NEW i, i = run[w].link, NEW L, L = labels[i] \ Stripped(run[w].winner, LinkRead(w, i))
    PROVE  /\ UNCHANGED <<effect, synced, Env>> /\ run[w].step = "linkRemove"
           /\ \E r : Turn(w, r) /\ ~Busy(r) /\ SameHand(w, r) /\ r.step = "spread"
           /\ Tk(w) \in PRs /\ i \in linked[Tk(w)] /\ i \in Issues
           /\ L \in SUBSET OWNED_LABELS /\ SetLabels(i, L)
<1>1. /\ run[w].step = "linkRemove" /\ UNCHANGED <<effect, synced, Env>>
      /\ SetLabels(i, L) /\ Goto(w, "spread")
  BY DEF LinkRemove, At
<1>2. /\ \E r : Turn(w, r) /\ ~Busy(r) /\ SameHand(w, r) /\ r.step = "spread"
      /\ Tk(w) \in PRs /\ i \in linked[Tk(w)] /\ i \in Issues
      /\ labels[i] \in SUBSET OWNED_LABELS
  BY <1>1, LinkStep
<1> QED
  BY <1>1, <1>2

LEMMA LinkTurn ==
    ASSUME TypeInv, NEW w \in Workers, LinkAdd(w) \/ LinkRemove(w)
    PROVE  /\ UNCHANGED <<effect, synced, Env>>
           /\ \E r : Turn(w, r) /\ ~Busy(r) /\ SameHand(w, r)
           /\ Tk(w) \in PRs /\ run[w].link \in linked[Tk(w)] /\ run[w].link \in Issues
           /\ \E ls \in SUBSET OWNED_LABELS : SetLabels(run[w].link, ls)
<1>1. PICK i : i = run[w].link
  OBVIOUS
<1>2. PICK L : L = labels[i] \union Added(run[w].winner, LinkRead(w, i))
  OBVIOUS
<1>3. PICK K : K = labels[i] \ Stripped(run[w].winner, LinkRead(w, i))
  OBVIOUS
<1>4. CASE LinkAdd(w)
  <2>1. /\ UNCHANGED <<effect, synced, Env>>
        /\ \E r : Turn(w, r) /\ ~Busy(r) /\ SameHand(w, r)
        /\ Tk(w) \in PRs /\ i \in linked[Tk(w)] /\ i \in Issues
        /\ L \in SUBSET OWNED_LABELS /\ SetLabels(i, L)
    BY <1>1, <1>2, <1>4, LinkAddTurn
  <2> QED
    BY <1>1, <2>1
<1>5. CASE LinkRemove(w)
  <2>1. /\ UNCHANGED <<effect, synced, Env>>
        /\ \E r : Turn(w, r) /\ ~Busy(r) /\ SameHand(w, r)
        /\ Tk(w) \in PRs /\ i \in linked[Tk(w)] /\ i \in Issues
        /\ K \in SUBSET OWNED_LABELS /\ SetLabels(i, K)
    BY <1>1, <1>3, <1>5, LinkRemoveTurn
  <2> QED
    BY <1>1, <2>1
<1> QED
  BY <1>4, <1>5

LEMMA SpreadEndTurn ==
    ASSUME TypeInv, NEW w \in Workers, SpreadEnd(w)
    PROVE  /\ UNCHANGED <<Surfaces, pending, Env>>
           /\ \E r : /\ Turn(w, r) /\ ~Busy(r)
                     /\ \/ Done(w, r)
                        \/ SameHand(w, r) /\ r.step = "decide"
<1>1. run[w].step = "spread" /\ UNCHANGED <<Surfaces, pending, Env>>
  BY DEF SpreadEnd, At
<1>2. CASE Leave(w)
  <2>1. PICK r : Turn(w, r) /\ ~Busy(r) /\ Done(w, r)
    BY <1>2, LeaveTurn
  <2> QED
    BY <1>1, <2>1
<1>3. CASE Goto(w, "decide")
  <2>1. "decide" \in Steps /\ Holds(Going(w, "decide"), linked)
    BY <1>1, GotoHolds
  <2>2. PICK r : Turn(w, r) /\ SameHand(w, r) /\ r.step = "decide"
    BY <1>3, <2>1, GotoTurn
  <2> QED
    BY <1>1, <2>2 DEF Busy
<1> QED
  BY <1>2, <1>3 DEF SpreadEnd

LEMMA TurnType ==
    ASSUME TypeInv, NEW w \in Workers, NEW r, Turn(w, r), UNCHANGED Env,
           labels' \in [Tickets -> SUBSET OWNED_LABELS],
           effect' \in [Tickets -> Classes], synced' \in [Tickets -> Classes],
           pending' \subseteq Issues
    PROVE  TypeInv'
  BY StepType DEF Turn

LEMMA QuietTurnType ==
    ASSUME TypeInv, NEW w \in Workers, NEW r, Turn(w, r),
           UNCHANGED <<Surfaces, pending, Env>>
    PROVE  TypeInv'
  BY QuietStepType DEF Turn

\* What a run's writes leave of the surfaces.
LEMMA WriteFieldSurfaces ==
    ASSUME TypeInv, NEW w \in Workers, WriteField(w)
    PROVE  /\ run[w].step = "field" /\ Tk(w) \in Tickets
           /\ effect' \in [Tickets -> Classes] /\ effect'[Tk(w)] = run[w].winner
           /\ \A t \in Tickets : t # Tk(w) => effect'[t] = effect[t]
           /\ UNCHANGED <<labels, synced, pending>> /\ UNCHANGED Env
<1>1. run[w].step = "field"
  BY DEF WriteField, At
<1>2. Tk(w) \in Tickets /\ run[w].winner \in Classes
  BY <1>1, HandType
<1> QED
  BY <1>1, <1>2 DEF WriteField, TypeInv, TypeOK

LEMMA AddSurfaces ==
    ASSUME TypeInv, NEW w \in Workers, AddLabels(w)
    PROVE  /\ run[w].step = "add" /\ Tk(w) \in Tickets
           /\ labels' \in [Tickets -> SUBSET OWNED_LABELS] /\ pending' \subseteq Issues
           /\ labels'[Tk(w)] = labels[Tk(w)] \union Added(run[w].winner, Mem(w).labels)
           /\ \A t \in Tickets : t # Tk(w) => labels'[t] = labels[t]
           /\ UNCHANGED <<effect, synced>> /\ UNCHANGED Env
<1>1. run[w].step = "add" /\ UNCHANGED <<effect, synced, Env>>
  BY DEF AddLabels, At
<1>2. /\ Tk(w) \in Tickets /\ run[w].winner \in Classes
      /\ labels[Tk(w)] \in SUBSET OWNED_LABELS
  BY <1>1, HandType
<1>3. labels[Tk(w)] \union Added(run[w].winner, Mem(w).labels) \in SUBSET OWNED_LABELS
  BY <1>2, WritebackRank DEF Added
<1>4. SetLabels(Tk(w), labels[Tk(w)] \union Added(run[w].winner, Mem(w).labels))
  BY DEF AddLabels
<1> QED
  BY <1>1, <1>2, <1>3, <1>4, LabelsType

LEMMA RemoveSurfaces ==
    ASSUME TypeInv, NEW w \in Workers, RemoveLabels(w)
    PROVE  /\ run[w].step = "remove" /\ Tk(w) \in Tickets
           /\ labels' \in [Tickets -> SUBSET OWNED_LABELS] /\ pending' \subseteq Issues
           /\ labels'[Tk(w)] = labels[Tk(w)] \ Stripped(run[w].winner, Mem(w).labels)
           /\ \A t \in Tickets : t # Tk(w) => labels'[t] = labels[t]
           /\ UNCHANGED <<effect, synced>> /\ UNCHANGED Env
<1>1. run[w].step = "remove" /\ UNCHANGED <<effect, synced, Env>>
  BY DEF RemoveLabels, At
<1>2. Tk(w) \in Tickets /\ labels[Tk(w)] \in SUBSET OWNED_LABELS
  BY <1>1, HandType
<1>3. labels[Tk(w)] \ Stripped(run[w].winner, Mem(w).labels) \in SUBSET OWNED_LABELS
  BY <1>2
<1>4. SetLabels(Tk(w), labels[Tk(w)] \ Stripped(run[w].winner, Mem(w).labels))
  BY DEF RemoveLabels
<1> QED
  BY <1>1, <1>2, <1>3, <1>4, LabelsType

LEMMA StateSurfaces ==
    ASSUME TypeInv, NEW w \in Workers, WriteState(w)
    PROVE  /\ run[w].step = "state" /\ Tk(w) \in Tickets
           /\ synced' \in [Tickets -> Classes]
           /\ synced'[Tk(w)] = IF run[w].winner # Mem(w).synced THEN run[w].winner
                               ELSE synced[Tk(w)]
           /\ \A t \in Tickets : t # Tk(w) => synced'[t] = synced[t]
           /\ UNCHANGED <<labels, effect, pending>> /\ UNCHANGED Env
<1>1. run[w].step = "state"
  BY DEF WriteState, At
<1>2. Tk(w) \in Tickets /\ run[w].winner \in Classes
  BY <1>1, HandType
<1> QED
  BY <1>1, <1>2 DEF WriteState, TypeInv, TypeOK

LEMMA SyncType ==
    ASSUME TypeInv, NEW w \in Workers, Sync(w) PROVE TypeInv'
<1>1. CASE Decide(w)
  BY <1>1, DecideTurn, QuietTurnType
<1>2. CASE RecheckLabels(w)
  BY <1>2, RecheckTurn, QuietTurnType
<1>3. CASE WriteField(w)
  BY <1>3, WriteFieldTurn, WriteFieldSurfaces, TurnType DEF TypeInv, TypeOK
<1>4. CASE AddLabels(w)
  BY <1>4, AddTurn, AddSurfaces, TurnType DEF TypeInv, TypeOK
<1>5. CASE RemoveLabels(w)
  BY <1>5, RemoveTurn, RemoveSurfaces, TurnType DEF TypeInv, TypeOK
<1>6. CASE WriteState(w)
  BY <1>6, StateTurn, StateSurfaces, TurnType DEF TypeInv, TypeOK
<1> QED
  BY <1>1, <1>2, <1>3, <1>4, <1>5, <1>6 DEF Sync

LEMMA PushType ==
    ASSUME TypeInv, NEW w \in Workers, Push(w) PROVE TypeInv'
<1>1. CASE Propagate(w)
  BY <1>1, PropagateTurn, QuietTurnType
<1>2. CASE RecheckInherit(w)
  BY <1>2, RecheckInheritTurn, QuietTurnType
<1>3. CASE Adopt(w)
  <2>1. /\ UNCHANGED <<effect, synced, Env>> /\ \E r : Turn(w, r)
        /\ Tk(w) \in Tickets /\ \E ls \in SUBSET OWNED_LABELS : SetLabels(Tk(w), ls)
    BY <1>3, AdoptTurn DEF Tickets
  <2>2. labels' \in [Tickets -> SUBSET OWNED_LABELS] /\ pending' \subseteq Issues
    BY <2>1, LabelsType
  <2> QED
    BY <2>1, <2>2, TurnType DEF TypeInv, TypeOK
<1>4. CASE \E i \in Issues : Spread(w, i)
  BY <1>4, SpreadTurn, QuietTurnType
<1>5. CASE LinkAdd(w) \/ LinkRemove(w)
  <2>1. /\ UNCHANGED <<effect, synced, Env>> /\ \E r : Turn(w, r)
        /\ run[w].link \in Tickets /\ \E ls \in SUBSET OWNED_LABELS : SetLabels(run[w].link, ls)
    BY <1>5, LinkTurn DEF Tickets
  <2>2. labels' \in [Tickets -> SUBSET OWNED_LABELS] /\ pending' \subseteq Issues
    BY <2>1, LabelsType
  <2> QED
    BY <2>1, <2>2, TurnType DEF TypeInv, TypeOK
<1>6. CASE SpreadEnd(w)
  BY <1>6, SpreadEndTurn, QuietTurnType
<1> QED
  BY <1>1, <1>2, <1>3, <1>4, <1>5, <1>6 DEF Push

LEMMA WantedType ==
    ASSUME TypeInv, NEW t \in Tickets, NEW ls \in SUBSET OWNED_LABELS, NEW f \in Classes
    PROVE  Wanted(t, ls, f) \in Classes \union {Free}
<1>1. Resolve(ClassOf(ls), f, synced[t]) \in Classes
  BY ClassIs, ResolveIn DEF TypeInv, TypeOK
<1>2. Lasting(Resolve(ClassOf(ls), f, synced[t]), ls) \in Classes
  BY <1>1, LastingIs
<1>3. effect[t] \in Classes
  BY DEF TypeInv, TypeOK
<1> QED
  BY <1>2, <1>3 DEF Wanted

LEMMA EditType ==
    ASSUME TypeInv, NEW t \in Tickets, NEW ls \in SUBSET OWNED_LABELS, NEW f \in Classes,
           Edit(t, ls, f)
    PROVE  /\ edits' \in 0..MaxEdits
           /\ due' \in [Tickets -> Classes \union {Free}]
           /\ UNCHANGED <<linked, synced, run, kills>> /\ HandInv'
<1>1. edits' \in 0..MaxEdits
  BY BoundsAssumption DEF Edit, TypeInv, TypeOK
<1>2. due' \in [Tickets -> Classes \union {Free}]
  BY WantedType DEF Edit, TypeInv, TypeOK
<1>3. UNCHANGED <<linked, synced, run, kills>>
  BY DEF Edit
<1>4. HandInv'
  BY <1>3 DEF TypeInv, HandInv
<1> QED
  BY <1>1, <1>2, <1>3, <1>4

LEMMA EditLabelsIs ==
    ASSUME TypeInv, NEW t \in Tickets, NEW l \in LabelEdits, EditLabels(t, l)
    PROVE  /\ labels'[t] \in SUBSET OWNED_LABELS /\ Edit(t, labels'[t], effect[t])
           /\ labels' \in [Tickets -> SUBSET OWNED_LABELS] /\ pending' \subseteq Issues
           /\ \A u \in Tickets : u # t => labels'[u] = labels[u]
           /\ UNCHANGED effect
<1> DEFINE ls == IF l \in labels[t] THEN labels[t] \ {l} ELSE labels[t] \union {l}
<1>1. ls \in SUBSET OWNED_LABELS
  BY EditsAssumption DEF TypeInv, TypeOK
<1>2. Edit(t, ls, effect[t]) /\ SetLabels(t, ls) /\ UNCHANGED effect
  BY DEF EditLabels
<1> HIDE DEF ls
<1> QED
  BY <1>1, <1>2, LabelsType

LEMMA EditFieldIs ==
    ASSUME TypeInv, NEW t \in Tickets, NEW c \in Picks, EditField(t, c)
    PROVE  /\ c \in Classes /\ Edit(t, labels[t], c)
           /\ effect' \in [Tickets -> Classes] /\ effect'[t] = c
           /\ \A u \in Tickets : u # t => effect'[u] = effect[u]
           /\ UNCHANGED <<labels, pending>>
<1>1. c \in Classes
  BY EditsAssumption
<1> QED
  BY <1>1 DEF EditField, TypeInv, TypeOK

LEMMA PeopleType ==
    ASSUME TypeInv, NEW t \in Tickets, People(t) PROVE TypeInv'
<1>1. labels[t] \in SUBSET OWNED_LABELS /\ effect[t] \in Classes
  BY DEF TypeInv, TypeOK
<1>2. ASSUME NEW l \in LabelEdits, EditLabels(t, l) PROVE TypeInv'
  <2>1. /\ labels'[t] \in SUBSET OWNED_LABELS /\ Edit(t, labels'[t], effect[t])
        /\ labels' \in [Tickets -> SUBSET OWNED_LABELS] /\ pending' \subseteq Issues
        /\ UNCHANGED effect
    BY <1>2, EditLabelsIs
  <2>2. /\ edits' \in 0..MaxEdits
        /\ due' \in [Tickets -> Classes \union {Free}]
        /\ UNCHANGED <<linked, synced, run, kills>> /\ HandInv'
    BY <1>1, <2>1, EditType
  <2> QED
    BY <2>1, <2>2 DEF TypeInv, TypeOK
<1>3. ASSUME NEW c \in Picks, EditField(t, c) PROVE TypeInv'
  <2>1. /\ c \in Classes /\ Edit(t, labels[t], c) /\ effect' \in [Tickets -> Classes]
        /\ UNCHANGED <<labels, pending>>
    BY <1>3, EditFieldIs
  <2>2. /\ edits' \in 0..MaxEdits
        /\ due' \in [Tickets -> Classes \union {Free}]
        /\ UNCHANGED <<linked, synced, run, kills>> /\ HandInv'
    BY <1>1, <2>1, EditType
  <2> QED
    BY <2>1, <2>2 DEF TypeInv, TypeOK
<1> QED
  BY <1>2, <1>3 DEF People

LEMMA KillType ==
    ASSUME TypeInv, NEW w \in Workers, Kill(w)
    PROVE  /\ TypeInv' /\ UNCHANGED <<labels, effect, synced, linked, due>>
           /\ run' = [run EXCEPT ![w] = NoRun]
<1>1. /\ run' = [run EXCEPT ![w] = NoRun] /\ kills' \in 0..MaxKills
      /\ UNCHANGED <<linked, labels, effect, synced, pending, edits, due>>
  BY BoundsAssumption DEF Kill, Surfaces, TypeInv, TypeOK
<1>2. run' \in [Workers -> Runs] /\ HandInv'
  BY <1>1, NoRunType, RunStep
<1> QED
  BY <1>1, <1>2 DEF TypeInv, TypeOK

LEMMA TypeNext ==
    ASSUME TypeInv, [Next]_vars PROVE TypeInv'
<1>1. Sweep \in Workers /\ Issues \subseteq Workers
  BY DEF Workers
<1>2. CASE SweepStep
  <2>1. CASE Sync(Sweep)
    BY <2>1, <1>1, SyncType
  <2>2. CASE Push(Sweep)
    BY <2>2, <1>1, PushType
  <2> QED
    BY <1>2, <2>1, <2>2, TypeSweepTurns DEF SweepStep
<1>3. ASSUME NEW i \in Issues, EventStep(i) PROVE TypeInv'
  BY <1>1, <1>3, TypeStartEvent, SyncType, PushType DEF EventStep
<1>4. ASSUME NEW t \in Tickets, People(t) PROVE TypeInv'
  BY <1>4, PeopleType
<1>5. ASSUME NEW w \in Workers, Kill(w) PROVE TypeInv'
  BY <1>5, KillType
<1>6. CASE UNCHANGED vars
  BY <1>6 DEF vars, TypeInv, TypeOK, HandInv
<1> QED
  BY <1>2, <1>3, <1>4, <1>5, <1>6 DEF Next

LEMMA TypeInvariance == Spec => []TypeInv
<1>1. TypeInv /\ [Next]_vars => TypeInv'
  BY TypeNext
<1> QED
  BY <1>1, TypeInit, PTL DEF Spec

\* Tickets, runs and what the runs remember keep their types, for any tickets,
\* edits and links, and a run that works on a ticket has one in hand.
THEOREM TypeCorrect == Spec => []TypeOK
<1>1. TypeInv => TypeOK
  BY DEF TypeInv
<1> QED
  BY <1>1, TypeInvariance, PTL

-----------------------------------------------------------------------------
(* One ticket.                                                             *)

\* The ticket is on its way to d, and no run turns it away.
OnWay(d, t) ==
    /\ Heads(d, labels[t], effect[t], synced[t])
    /\ \A w \in Workers : run[w].at = t =>
         Sound(d, labels[t], effect[t], run[w], run[w].mem[t])

\* After the step too, and its labels have moved towards d if at all.
Nears(d, t) == OnWay(d, t)' /\ Toward(d, labels[t], labels'[t])

LEMMA TicketTypes ==
    ASSUME TypeInv, NEW t \in Tickets
    PROVE  /\ labels[t] \in SUBSET OWNED_LABELS /\ effect[t] \in Classes /\ synced[t] \in Classes
           /\ \A w \in Workers : run[w].winner \in Classes /\ run[w].mem[t] \in Images
  BY DEF TypeInv, TypeOK, Runs

\* A step that is right for the ticket is right for every run at it.
LEMMA StepNears ==
    ASSUME TypeInv, TypeInv', NEW t \in Tickets, NEW d \in Classes, OnWay(d, t),
           NEW w \in Workers, \A v \in Workers : v # w => run'[v] = run[v],
           Toward(d, labels[t], labels'[t]),
           effect'[t] = effect[t] \/ Lasting(effect'[t], labels'[t]) = d,
           Heads(d, labels'[t], effect'[t], synced'[t]),
           run'[w].at = t => Sound(d, labels'[t], effect'[t], run'[w], run'[w].mem[t])
    PROVE  Nears(d, t)
<1>1. labels'[t] \in SUBSET OWNED_LABELS /\ effect'[t] \in Classes
  BY DEF TypeInv, TypeOK
<1>2. ASSUME NEW v \in Workers, run'[v].at = t
      PROVE  Sound(d, labels'[t], effect'[t], run'[v], run'[v].mem[t])
  <2>1. CASE v = w
    BY <1>2, <2>1
  <2>2. CASE v # w
    <3>1. run'[v] = run[v]
      BY <2>2
    <3>2. Sound(d, labels[t], effect[t], run[v], run[v].mem[t])
      BY <1>2, <3>1 DEF OnWay
    <3>3. Sound(d, labels'[t], effect'[t], run[v], run[v].mem[t])
      BY <1>1, <3>2, TicketTypes, SoundTowards
    <3> QED
      BY <3>1, <3>3
  <2> QED
    BY <2>1, <2>2
<1> QED
  BY <1>2 DEF OnWay, Nears

LEMMA TurnNears ==
    ASSUME TypeInv, TypeInv', NEW t \in Tickets, NEW d \in Classes, OnWay(d, t),
           NEW w \in Workers, NEW r, Turn(w, r), UNCHANGED Env,
           Toward(d, labels[t], labels'[t]),
           effect'[t] = effect[t] \/ Lasting(effect'[t], labels'[t]) = d,
           Heads(d, labels'[t], effect'[t], synced'[t]),
           r.at = t => Sound(d, labels'[t], effect'[t], r, r.mem[t])
    PROVE  Nears(d, t)
<1>1. run'[w] = r /\ \A v \in Workers : v # w => run'[v] = run[v]
  BY RunStep DEF Turn, Env
<1> QED
  BY <1>1, StepNears

\* A run that does not write to the ticket.
LEMMA ApartNears ==
    ASSUME TypeInv, TypeInv', NEW t \in Tickets, NEW d \in Classes, OnWay(d, t),
           NEW w \in Workers, NEW r, Turn(w, r), UNCHANGED Env,
           labels'[t] = labels[t], effect'[t] = effect[t], synced'[t] = synced[t],
           r.at = t => Sound(d, labels[t], effect[t], r, r.mem[t])
    PROVE  Nears(d, t)
<1>1. Toward(d, labels[t], labels[t])
  BY TicketTypes, TowardItself
<1>2. Heads(d, labels[t], effect[t], synced[t])
  BY DEF OnWay
<1> QED
  BY <1>1, <1>2, TurnNears

LEMMA RestingNears ==
    ASSUME TypeInv, TypeInv', NEW t \in Tickets, NEW d \in Classes, OnWay(d, t),
           NEW w \in Workers, NEW r, Turn(w, r), ~Busy(r), UNCHANGED Env,
           labels'[t] = labels[t], effect'[t] = effect[t], synced'[t] = synced[t]
    PROVE  Nears(d, t)
<1>1. Sound(d, labels[t], effect[t], r, r.mem[t])
  BY IdleSound DEF Busy
<1> QED
  BY <1>1, ApartNears

\* A run that starts, takes up another ticket, ends or dies.
LEMMA FreshNears ==
    ASSUME TypeInv, TypeInv', NEW t \in Tickets, NEW d \in Classes, OnWay(d, t),
           NEW w \in Workers, \A v \in Workers : v # w => run'[v] = run[v], ~Busy(run'[w]),
           UNCHANGED <<labels, effect, synced>>
    PROVE  Nears(d, t)
<1>1. Toward(d, labels[t], labels[t])
  BY TicketTypes, TowardItself
<1>2. Heads(d, labels[t], effect[t], synced[t])
  BY DEF OnWay
<1>3. Sound(d, labels[t], effect[t], run'[w], run'[w].mem[t])
  BY IdleSound DEF Busy
<1> QED
  BY <1>1, <1>2, <1>3, StepNears

\* What a worker at work on the ticket knows of it.
LEMMA AtWork ==
    ASSUME TypeInv, NEW t \in Tickets, NEW d \in Classes, OnWay(d, t),
           NEW w \in Workers, NEW r, SameHand(w, r), t = Tk(w)
    PROVE  /\ r.mem[t] = Mem(w) /\ r.winner = run[w].winner /\ r.at = t
           /\ Heads(d, labels[t], effect[t], synced[t])
           /\ Sound(d, labels[t], effect[t], run[w], Mem(w))
           /\ labels[t] \in SUBSET OWNED_LABELS
           /\ effect[t] \in Classes /\ synced[t] \in Classes
           /\ Mem(w) \in Images /\ r.winner \in Classes
<1>1. r.mem[t] = Mem(w) /\ r.winner = run[w].winner /\ r.at = t /\ run[w].mem[t] = Mem(w)
  BY DEF SameHand, SameRead, Tk, Mem
<1>2. run[w].at = t
  BY DEF Tk
<1> QED
  BY <1>1, <1>2, TicketTypes DEF OnWay

LEMMA DecideNears ==
    ASSUME TypeInv, TypeInv', NEW t \in Tickets, NEW d \in Classes, OnWay(d, t),
           NEW w \in Workers, Decide(w)
    PROVE  Nears(d, t)
<1>1. PICK r :
        /\ Turn(w, r)
        /\ \/ ~Busy(r)
           \/ /\ SameRead(w, r) /\ r.step = "labels" /\ r.winner = Winner(Mem(w))
              /\ effect[Tk(w)] = Mem(w).effect /\ synced[Tk(w)] = Mem(w).synced
  BY DecideTurn DEF Busy
<1>2. UNCHANGED <<labels, effect, synced>> /\ UNCHANGED Env
  BY DecideTurn DEF Surfaces
<1>3. CASE ~Busy(r)
  BY <1>1, <1>2, <1>3, RestingNears
<1>4. CASE /\ SameRead(w, r) /\ r.step = "labels" /\ r.winner = Winner(Mem(w))
           /\ effect[Tk(w)] = Mem(w).effect /\ synced[Tk(w)] = Mem(w).synced
  <2>1. ASSUME r.at = t
        PROVE  Sound(d, labels[t], effect[t], r, r.mem[t])
    <3>1. t = Tk(w) /\ r.mem[t] = Mem(w) /\ Mem(w) = run[w].mem[t]
      BY <1>4, <2>1 DEF Mem, Tk, SameRead
    <3>2. Checked(d, labels[t], effect[t], r, r.mem[t])
      BY <1>4, <3>1, TicketTypes, DecideSound DEF OnWay
    <3> QED
      BY <1>4, <3>2 DEF Sound
  <2> QED
    BY <1>1, <1>2, <2>1, ApartNears
<1> QED
  BY <1>1, <1>3, <1>4

LEMMA RecheckNears ==
    ASSUME TypeInv, TypeInv', NEW t \in Tickets, NEW d \in Classes, OnWay(d, t),
           NEW w \in Workers, RecheckLabels(w)
    PROVE  Nears(d, t)
<1>1. PICK r :
        /\ Turn(w, r)
        /\ \/ ~Busy(r)
           \/ SameHand(w, r) /\ r.step = FirstWrite(w) /\ labels[Tk(w)] = Mem(w).labels
  BY RecheckTurn DEF Busy
<1>2. UNCHANGED <<labels, effect, synced>> /\ UNCHANGED Env /\ run[w].step = "labels"
  BY RecheckTurn DEF RecheckLabels, At, Surfaces
<1>3. CASE ~Busy(r)
  BY <1>1, <1>2, <1>3, RestingNears
<1>4. CASE SameHand(w, r) /\ r.step = FirstWrite(w) /\ labels[Tk(w)] = Mem(w).labels
  <2>1. ASSUME r.at = t
        PROVE  Sound(d, labels[t], effect[t], r, r.mem[t])
    <3>0. t = Tk(w)
      BY <1>4, <2>1 DEF SameHand, SameRead, Tk
    <3>1. /\ r.mem[t] = Mem(w) /\ r.winner = run[w].winner
          /\ Sound(d, labels[t], effect[t], run[w], Mem(w))
          /\ labels[t] \in SUBSET OWNED_LABELS
          /\ effect[t] \in Classes /\ Mem(w) \in Images /\ r.winner \in Classes
      BY <1>4, <3>0, AtWork
    <3>2. Checked(d, labels[t], effect[t], r, Mem(w))
      BY <1>2, <3>1 DEF Sound, Checked
    <3>3. r.step = IF r.winner = Mem(w).effect
                   THEN IF Added(r.winner, Mem(w).labels) = {}
                        THEN IF Stripped(r.winner, Mem(w).labels) = {} THEN "state" ELSE "remove"
                        ELSE "add"
                   ELSE "field"
      BY <1>4, <3>1 DEF FirstWrite, AfterField, AfterAdd
    <3>4. Mem(w).labels = labels[t]
      BY <1>4, <3>0
    <3>5. Sound(d, labels[t], effect[t], r, Mem(w))
      BY <3>1, <3>2, <3>3, <3>4, RecheckSound
    <3> QED
      BY <3>1, <3>5
  <2> QED
    BY <1>1, <1>2, <2>1, ApartNears
<1> QED
  BY <1>1, <1>3, <1>4

LEMMA WriteFieldNears ==
    ASSUME TypeInv, TypeInv', NEW t \in Tickets, NEW d \in Classes, OnWay(d, t),
           NEW w \in Workers, WriteField(w)
    PROVE  Nears(d, t)
<1>1. PICK r : Turn(w, r) /\ SameHand(w, r) /\ r.step = AfterField(w)
  BY WriteFieldTurn
<1>2. /\ run[w].step = "field" /\ effect'[Tk(w)] = run[w].winner
      /\ \A u \in Tickets : u # Tk(w) => effect'[u] = effect[u]
      /\ UNCHANGED <<labels, synced, pending>> /\ UNCHANGED Env
  BY WriteFieldSurfaces
<1>3. r.at = Tk(w)
  BY <1>1 DEF SameHand, SameRead, Tk
<1>4. CASE t # Tk(w)
  BY <1>1, <1>2, <1>3, <1>4, ApartNears
<1>5. CASE t = Tk(w)
  <2>1. /\ r.mem[t] = Mem(w) /\ r.winner = run[w].winner
        /\ Heads(d, labels[t], effect[t], synced[t])
        /\ Sound(d, labels[t], effect[t], run[w], Mem(w))
        /\ labels[t] \in SUBSET OWNED_LABELS
        /\ effect[t] \in Classes /\ synced[t] \in Classes
        /\ Mem(w) \in Images /\ r.winner \in Classes
    BY <1>1, <1>5, AtWork
  <2>2. /\ Writes(d, labels[t], run[w], Mem(w))
        /\ LabelsDiffer(r.winner, Mem(w).labels) \/ ClassOf(labels[t]) = d
    BY <1>2, <2>1 DEF Sound
  <2>3. Writes(d, labels[t], r, Mem(w)) /\ Lasting(r.winner, labels[t]) = d
    BY <2>1, <2>2 DEF Writes
  <2>4. r.step = IF Added(r.winner, Mem(w).labels) = {}
                 THEN IF Stripped(r.winner, Mem(w).labels) = {} THEN "state" ELSE "remove"
                 ELSE "add"
    BY <1>1, <2>1 DEF AfterField, AfterAdd
  <2>5. Sound(d, labels[t], r.winner, r, Mem(w))
    BY <2>1, <2>2, <2>3, <2>4, AfterFieldSound
  <2>6. Heads(d, labels[t], r.winner, synced[t])
    BY <2>1, <2>3, HeadsField
  <2>7. Toward(d, labels[t], labels[t])
    BY <2>1, TowardItself
  <2>8. labels'[t] = labels[t] /\ synced'[t] = synced[t] /\ effect'[t] = r.winner
    BY <1>2, <1>5, <2>1
  <2> QED
    BY <1>1, <1>2, <2>1, <2>3, <2>5, <2>6, <2>7, <2>8, TurnNears
<1> QED
  BY <1>4, <1>5

LEMMA AddNears ==
    ASSUME TypeInv, TypeInv', NEW t \in Tickets, NEW d \in Classes, OnWay(d, t),
           NEW w \in Workers, AddLabels(w)
    PROVE  Nears(d, t)
<1>1. PICK r : Turn(w, r) /\ SameHand(w, r) /\ r.step = AfterAdd(w)
  BY AddTurn
<1>2. /\ run[w].step = "add"
      /\ labels'[Tk(w)] = labels[Tk(w)] \union Added(run[w].winner, Mem(w).labels)
      /\ \A u \in Tickets : u # Tk(w) => labels'[u] = labels[u]
      /\ UNCHANGED <<effect, synced>> /\ UNCHANGED Env
  BY AddSurfaces
<1>3. r.at = Tk(w) /\ effect'[t] = effect[t] /\ synced'[t] = synced[t]
  BY <1>1, <1>2 DEF SameHand, SameRead, Tk
<1>4. CASE t # Tk(w)
  BY <1>1, <1>2, <1>3, <1>4, ApartNears
<1>5. CASE t = Tk(w)
  <2>1. /\ r.mem[t] = Mem(w) /\ r.winner = run[w].winner
        /\ Heads(d, labels[t], effect[t], synced[t])
        /\ Sound(d, labels[t], effect[t], run[w], Mem(w))
        /\ labels[t] \in SUBSET OWNED_LABELS
        /\ effect[t] \in Classes /\ synced[t] \in Classes
        /\ Mem(w) \in Images /\ r.winner \in Classes
    BY <1>1, <1>5, AtWork
  <2>2. /\ Writes(d, labels[t], run[w], Mem(w)) /\ Lasting(effect[t], labels[t]) = d
        /\ LabelsDiffer(r.winner, Mem(w).labels)
    BY <1>2, <2>1 DEF Sound
  <2>3. Writes(d, labels[t], r, Mem(w))
    BY <2>1, <2>2 DEF Writes
  <2>4. PICK L : L = labels[t]
    OBVIOUS
  <2>5. PICK m : m = Mem(w)
    OBVIOUS
  <2>6. PICK L2 : L2 = Adding(L, r, m)
    OBVIOUS
  <2>7. labels'[t] = L2
    BY <1>2, <1>5, <2>1, <2>4, <2>5, <2>6 DEF Adding
  <2>8. L \in SUBSET OWNED_LABELS /\ m \in Images /\ r.winner \in Classes
    BY <2>1, <2>4, <2>5
  <2>9. Writes(d, L, r, m) /\ LabelsDiffer(r.winner, m.labels)
    BY <2>2, <2>3, <2>4, <2>5
  <2>10. Onward(d, L, r, L2)
    BY <2>6, <2>8, <2>9, AddOnward
  <2>11. /\ L2 \in SUBSET OWNED_LABELS /\ Toward(d, L, L2)
         /\ KeptClass(L2) = d \/ WRITEBACK_LABELS[r.winner] \subseteq L2
    BY <2>10 DEF Onward
  <2>12. Heads(d, L2, effect[t], synced[t]) /\ Lasting(effect[t], L2) = d
    BY <2>1, <2>2, <2>4, <2>8, <2>11, HeadsTowards, LastingTowards
  <2>13. Writes(d, L2, r, m)
    BY <2>8, <2>9, <2>11, WritesTowards
  <2>14. Placed(d, L2, r, m)
    BY <2>9, <2>11 DEF Placed
  <2>15. r.step = IF Stripped(r.winner, m.labels) = {} THEN "state" ELSE "remove"
    BY <1>1, <2>1, <2>5 DEF AfterAdd
  <2>16. Sound(d, L2, effect[t], r, m)
    BY <2>1, <2>8, <2>11, <2>12, <2>13, <2>14, <2>15, AfterAddSound
  <2> QED
    BY <1>1, <1>2, <1>3, <2>1, <2>4, <2>5, <2>7, <2>11, <2>12, <2>16, TurnNears
<1> QED
  BY <1>4, <1>5

LEMMA RemoveNears ==
    ASSUME TypeInv, TypeInv', NEW t \in Tickets, NEW d \in Classes, OnWay(d, t),
           NEW w \in Workers, RemoveLabels(w)
    PROVE  Nears(d, t)
<1>1. PICK r : Turn(w, r) /\ SameHand(w, r) /\ r.step = "state"
  BY RemoveTurn
<1>2. /\ run[w].step = "remove"
      /\ labels'[Tk(w)] = labels[Tk(w)] \ Stripped(run[w].winner, Mem(w).labels)
      /\ \A u \in Tickets : u # Tk(w) => labels'[u] = labels[u]
      /\ UNCHANGED <<effect, synced>> /\ UNCHANGED Env
  BY RemoveSurfaces
<1>3. r.at = Tk(w) /\ effect'[t] = effect[t] /\ synced'[t] = synced[t]
  BY <1>1, <1>2 DEF SameHand, SameRead, Tk
<1>4. CASE t # Tk(w)
  BY <1>1, <1>2, <1>3, <1>4, ApartNears
<1>5. CASE t = Tk(w)
  <2>1. /\ r.mem[t] = Mem(w) /\ r.winner = run[w].winner
        /\ Heads(d, labels[t], effect[t], synced[t])
        /\ Sound(d, labels[t], effect[t], run[w], Mem(w))
        /\ labels[t] \in SUBSET OWNED_LABELS
        /\ effect[t] \in Classes /\ synced[t] \in Classes
        /\ Mem(w) \in Images /\ r.winner \in Classes
    BY <1>1, <1>5, AtWork
  <2>2. /\ Writes(d, labels[t], run[w], Mem(w)) /\ Lasting(effect[t], labels[t]) = d
        /\ LabelsDiffer(r.winner, Mem(w).labels)
        /\ KeptClass(labels[t]) = d \/ WRITEBACK_LABELS[r.winner] \subseteq labels[t]
    BY <1>2, <2>1 DEF Sound
  <2>3. Writes(d, labels[t], r, Mem(w))
    BY <2>1, <2>2 DEF Writes
  <2>4. PICK L2 : L2 = labels[t] \ Stripped(r.winner, Mem(w).labels)
    OBVIOUS
  <2>5. labels'[t] = L2
    BY <1>2, <1>5, <2>1, <2>4
  <2>6. L2 \in SUBSET OWNED_LABELS /\ Toward(d, labels[t], L2) /\ ClassOf(L2) = d
    BY <2>1, <2>2, <2>3, <2>4, RemoveTowards
  <2>7. Heads(d, L2, effect[t], synced[t]) /\ Lasting(effect[t], L2) = d
    BY <2>1, <2>2, <2>6, HeadsTowards, LastingTowards
  <2>8. Writes(d, L2, r, Mem(w))
    BY <2>1, <2>3, <2>6, WritesTowards
  <2>9. Sound(d, L2, effect[t], r, Mem(w))
    BY <1>1, <2>6, <2>7, <2>8 DEF Sound
  <2> QED
    BY <1>1, <1>2, <1>3, <2>1, <2>5, <2>6, <2>7, <2>9, TurnNears
<1> QED
  BY <1>4, <1>5

LEMMA StateNears ==
    ASSUME TypeInv, TypeInv', NEW t \in Tickets, NEW d \in Classes, OnWay(d, t),
           NEW w \in Workers, WriteState(w)
    PROVE  Nears(d, t)
<1>1. PICK r : Turn(w, r) /\ r.step = "synced"
  BY StateTurn
<1>2. /\ run[w].step = "state"
      /\ synced'[Tk(w)] = run[w].winner \/ synced'[Tk(w)] = synced[Tk(w)]
      /\ \A u \in Tickets : u # Tk(w) => synced'[u] = synced[u]
      /\ UNCHANGED <<labels, effect, pending>> /\ UNCHANGED Env
  BY StateSurfaces
<1>3. Sound(d, labels[t], effect[t], r, r.mem[t]) /\ Toward(d, labels[t], labels[t])
  BY <1>1, IdleSound, TicketTypes, TowardItself
<1>4. Heads(d, labels[t], effect[t], synced'[t])
  <2>1. CASE synced'[t] = synced[t]
    BY <2>1 DEF OnWay
  <2>2. CASE t = Tk(w) /\ synced'[t] = run[w].winner
    <3>1. Sound(d, labels[t], effect[t], run[w], run[w].mem[t])
      BY <2>2 DEF OnWay, Tk
    <3>2. ClassOf(labels[t]) = d /\ Lasting(effect[t], labels[t]) = d
      BY <1>2, <3>1 DEF Sound
    <3>3. Heads(d, labels[t], effect[t], run[w].winner)
      BY <3>2, TicketTypes, HeadsState
    <3> QED
      BY <2>2, <3>3
  <2> QED
    BY <1>2, <2>1, <2>2
<1> QED
  BY <1>1, <1>2, <1>3, <1>4, TurnNears

LEMMA SyncNears ==
    ASSUME TypeInv, TypeInv', NEW t \in Tickets, NEW d \in Classes, OnWay(d, t),
           NEW w \in Workers, Sync(w)
    PROVE  Nears(d, t)
  BY DecideNears, RecheckNears, WriteFieldNears, AddNears, RemoveNears, StateNears DEF Sync

\* What a run inherits and spreads it writes to tickets of a pull request that
\* closes issues.
PushedTo(w, t) ==
    \/ Adopt(w) /\ Tk(w) = t
    \/ (LinkAdd(w) \/ LinkRemove(w)) /\ run[w].link = t

LEMMA PushNears ==
    ASSUME TypeInv, TypeInv', NEW t \in Tickets, NEW d \in Classes, OnWay(d, t),
           NEW w \in Workers, Push(w), ~PushedTo(w, t)
    PROVE  Nears(d, t)
<1>1. CASE Propagate(w) \/ RecheckInherit(w) \/ (\E i \in Issues : Spread(w, i)) \/ SpreadEnd(w)
  <2>1. UNCHANGED <<Surfaces, pending, Env>> /\ \E r : Turn(w, r) /\ ~Busy(r)
    BY <1>1, PropagateTurn, RecheckInheritTurn, SpreadTurn, SpreadEndTurn
  <2>2. UNCHANGED Env /\ UNCHANGED <<labels, effect, synced>>
    BY <2>1 DEF Surfaces
  <2> QED
    BY <2>1, <2>2, RestingNears
<1>2. CASE Adopt(w)
  <2>1. PICK u : u = Tk(w)
    OBVIOUS
  <2>2. PICK ls : ls = labels[u] \union (WRITEBACK_LABELS[run[w].winner] \ Mem(w).labels)
    OBVIOUS
  <2>3. /\ UNCHANGED <<effect, synced, Env>> /\ \E r : Turn(w, r) /\ ~Busy(r)
        /\ u \in PRs /\ ls \in SUBSET OWNED_LABELS /\ SetLabels(u, ls)
    BY <1>2, <2>1, <2>2, AdoptTurn
  <2>4. t # u
    BY <1>2, <2>1 DEF PushedTo
  <2>5. labels'[t] = labels[t]
    BY <2>3, <2>4, LabelsType DEF Tickets
  <2> QED
    BY <2>3, <2>5, RestingNears
<1>3. CASE LinkAdd(w) \/ LinkRemove(w)
  <2>1. PICK u : u = run[w].link
    OBVIOUS
  <2>2. /\ UNCHANGED <<effect, synced, Env>> /\ \E r : Turn(w, r) /\ ~Busy(r)
        /\ u \in Issues /\ \E ls \in SUBSET OWNED_LABELS : SetLabels(u, ls)
    BY <1>3, <2>1, LinkTurn
  <2>3. t # u
    BY <1>3, <2>1 DEF PushedTo
  <2>4. labels'[t] = labels[t]
    BY <2>2, <2>3, LabelsType DEF Tickets
  <2> QED
    BY <2>2, <2>4, RestingNears
<1> QED
  BY <1>1, <1>2, <1>3 DEF Push

\* A run that starts, takes up the next ticket, ends or dies writes nothing.
Passes(w) ==
    /\ \A v \in Workers : v # w => run'[v] = run[v]
    /\ ~Busy(run'[w])
    /\ UNCHANGED <<linked, labels, effect, synced, due>>

LEMMA SweepPasses ==
    ASSUME TypeInv,
           StartSweep \/ NextTicket("prs") \/ NextTicket("issues") \/ FetchIssues \/ EndSweep
    PROVE  Passes(Sweep)
<1>1. PICK r \in Runs : /\ run' = [run EXCEPT ![Sweep] = r]
                        /\ r.step \in {"idle", "prs", "issues", "decide"}
  BY TypeSweepTurns
<1>2. UNCHANGED <<linked, labels, effect, synced, due>>
  BY DEF StartSweep, NextTicket, FetchIssues, EndSweep, Surfaces, Env
<1>3. run'[Sweep] = r /\ \A v \in Workers : v # Sweep => run'[v] = run[v]
  BY <1>1 DEF TypeInv, TypeOK, Workers
<1>4. ~Busy(run'[Sweep])
  BY <1>1, <1>3 DEF Busy
<1> QED
  BY <1>2, <1>3, <1>4 DEF Passes

LEMMA StartEventPasses ==
    ASSUME TypeInv, NEW i \in Issues, StartEvent(i)
    PROVE  Passes(i) /\ run'[i].at = i
<1>1. UNCHANGED <<linked, labels, effect, synced, due>> /\ i \in Workers
  BY DEF StartEvent, Surfaces, Env, Workers
<1>2. run' = [run EXCEPT ![i] = [NoRun EXCEPT !.step = "decide", !.at = i,
                                             !.mem = Read({i}, {})]]
  BY DEF StartEvent
<1>3. run'[i].step = "decide" /\ run'[i].at = i /\ \A v \in Workers : v # i => run'[v] = run[v]
  BY <1>1, <1>2 DEF NoRun, TypeInv, TypeOK
<1>4. ~Busy(run'[i])
  BY <1>3 DEF Busy
<1> QED
  BY <1>1, <1>3, <1>4 DEF Passes

LEMMA KillPasses ==
    ASSUME TypeInv, NEW w \in Workers, Kill(w)
    PROVE  Passes(w) /\ run'[w] = NoRun
<1>1. UNCHANGED <<linked, labels, effect, synced, due>> /\ run' = [run EXCEPT ![w] = NoRun]
  BY KillType
<1>2. run'[w] = NoRun /\ \A v \in Workers : v # w => run'[v] = run[v]
  BY <1>1 DEF TypeInv, TypeOK
<1>3. ~Busy(run'[w])
  BY <1>2 DEF NoRun, Busy
<1> QED
  BY <1>1, <1>2, <1>3 DEF Passes

LEMMA PassesNears ==
    ASSUME TypeInv, TypeInv', NEW t \in Tickets, NEW d \in Classes, OnWay(d, t),
           NEW w \in Workers, Passes(w)
    PROVE  Nears(d, t)
  BY FreshNears DEF Passes

\* What is not done by people.
Works ==
    \/ SweepStep
    \/ \E i \in Issues : EventStep(i)
    \/ \E w \in Workers : Kill(w)

LEMMA WorksKinds ==
    ASSUME TypeInv, Works
    PROVE  \E w \in Workers : Sync(w) \/ Push(w) \/ Passes(w)
<1>1. Sweep \in Workers /\ Issues \subseteq Workers
  BY DEF Workers
<1>2. CASE SweepStep
  BY <1>1, <1>2, SweepPasses DEF SweepStep
<1>3. ASSUME NEW i \in Issues, EventStep(i) PROVE \E w \in Workers : Sync(w) \/ Push(w) \/ Passes(w)
  BY <1>1, <1>3, StartEventPasses DEF EventStep
<1>4. ASSUME NEW w \in Workers, Kill(w) PROVE Passes(w)
  BY <1>4, KillPasses
<1> QED
  BY <1>2, <1>3, <1>4 DEF Works

LEMMA WorksNears ==
    ASSUME TypeInv, TypeInv', NEW t \in Tickets, NEW d \in Classes, OnWay(d, t),
           Works, \A w \in Workers : ~PushedTo(w, t)
    PROVE  Nears(d, t)
  BY WorksKinds, SyncNears, PushNears, PassesNears

LEMMA WorksEnv ==
    ASSUME TypeInv, Works
    PROVE  linked' = linked /\ due' = due
<1>1. PICK w \in Workers : Sync(w) \/ Push(w) \/ Passes(w)
  BY WorksKinds
<1>2. CASE Passes(w)
  BY <1>2 DEF Passes
<1>3. CASE Sync(w)
  <2>1. UNCHANGED Env
    BY <1>3 DEF Sync, Decide, RecheckLabels, WriteField, AddLabels, RemoveLabels, WriteState
  <2> QED
    BY <2>1 DEF Env
<1>4. CASE Push(w)
  <2>1. UNCHANGED Env
    BY <1>4 DEF Push, Propagate, RecheckInherit, Adopt, Spread, LinkAdd, LinkRemove, SpreadEnd
  <2> QED
    BY <2>1 DEF Env
<1> QED
  BY <1>1, <1>2, <1>3, <1>4

LEMMA NextKinds ==
    ASSUME [Next]_vars
    PROVE  Works \/ (\E t \in Tickets : People(t)) \/ UNCHANGED vars
  BY DEF Next, Works

\* An edit of ticket t, which then has the labels ls and the field f.
Edited(t, ls, f) ==
    /\ Edit(t, ls, f) /\ labels'[t] = ls /\ effect'[t] = f
    /\ \A u \in Tickets : u # t => labels'[u] = labels[u] /\ effect'[u] = effect[u]
    /\ ls = labels[t] \/ f = effect[t]

LEMMA PeopleEdit ==
    ASSUME TypeInv, NEW t \in Tickets, People(t)
    PROVE  \E ls \in SUBSET OWNED_LABELS, f \in Classes : Edited(t, ls, f)
<1>1. labels[t] \in SUBSET OWNED_LABELS /\ effect[t] \in Classes
  BY TicketTypes
<1>2. CASE \E l \in LabelEdits : EditLabels(t, l)
  <2>1. PICK l \in LabelEdits : EditLabels(t, l)
    BY <1>2
  <2>2. /\ labels'[t] \in SUBSET OWNED_LABELS /\ Edit(t, labels'[t], effect[t])
        /\ \A u \in Tickets : u # t => labels'[u] = labels[u]
        /\ UNCHANGED effect
    BY <2>1, EditLabelsIs
  <2>3. PICK ls : ls = labels'[t]
    OBVIOUS
  <2>4. PICK f : f = effect[t]
    OBVIOUS
  <2>5. Edited(t, ls, f)
    BY <2>2, <2>3, <2>4 DEF Edited
  <2> QED
    BY <1>1, <2>2, <2>3, <2>4, <2>5
<1>3. CASE \E c \in Picks : EditField(t, c)
  <2>1. PICK c \in Picks : EditField(t, c)
    BY <1>3
  <2>2. /\ c \in Classes /\ Edit(t, labels[t], c) /\ effect'[t] = c
        /\ \A u \in Tickets : u # t => effect'[u] = effect[u]
        /\ UNCHANGED labels
    BY <2>1, EditFieldIs
  <2>3. PICK ls : ls = labels[t]
    OBVIOUS
  <2>4. Edited(t, ls, c)
    BY <2>2, <2>3 DEF Edited
  <2> QED
    BY <1>1, <2>2, <2>3, <2>4
<1> QED
  BY <1>2, <1>3 DEF People

LEMMA EditedIs ==
    ASSUME TypeInv, NEW t, NEW ls, NEW f, Edited(t, ls, f)
    PROVE  /\ UNCHANGED <<linked, synced, run>>
           /\ \A u \in Tickets : due'[u] = IF u \notin Group(t) THEN due[u]
                                           ELSE IF Quiet(t) THEN Wanted(t, ls, f) ELSE Free
  BY DEF Edited, Edit

\* A ticket that no run is writing to.
LEMMA QuietOnWay ==
    ASSUME NEW d, NEW t, NEW u, Quiet(u), u \in Group(t), UNCHANGED run,
           Heads(d, labels'[t], effect'[t], synced'[t])
    PROVE  OnWay(d, t)'
<1>1. ASSUME NEW v \in Workers, run'[v].at = t
      PROVE  Sound(d, labels'[t], effect'[t], run'[v], run'[v].mem[t])
  <2>1. run'[v] = run[v] /\ Tk(v) = t
    BY <1>1 DEF Tk
  <2>2. run[v].step \notin Writing
    BY <2>1 DEF Quiet
  <2>3. run'[v].step \notin {"labels", "field", "add", "remove", "state"}
    BY <2>1, <2>2 DEF Writing
  <2> QED
    BY <2>3, IdleSound
<1> QED
  BY <1>1 DEF OnWay

\* An edit elsewhere.
LEMMA StillOnWay ==
    ASSUME NEW d, NEW t, OnWay(d, t), UNCHANGED run,
           labels'[t] = labels[t], effect'[t] = effect[t], synced'[t] = synced[t]
    PROVE  OnWay(d, t)'
  BY DEF OnWay

LEMMA HeadsSettled ==
    ASSUME TypeInv, NEW t \in Tickets, Settled(t)
    PROVE  /\ effect[t] = ClassOf(labels[t]) /\ synced[t] = effect[t]
           /\ \A d : Heads(d, labels[t], effect[t], synced[t]) <=> d = effect[t]
<1>1. effect[t] = ClassOf(labels[t]) /\ synced[t] = effect[t]
  BY DEF Settled
<1>2. Resolve(ClassOf(labels[t]), effect[t], synced[t]) = ClassOf(labels[t])
  BY <1>1 DEF Resolve
<1> QED
  BY <1>1, <1>2, TicketTypes, LastingOfClass DEF Heads

-----------------------------------------------------------------------------
(* Unlinked tickets.                                                       *)

\* An unlinked ticket whose last edit came while no run was writing it is on
\* its way to what the edit asked for.
SyncInv == \A t \in Tickets : Unlinked(t) /\ due[t] # Free => OnWay(due[t], t)

LEMMA GroupStays ==
    ASSUME linked' = linked, NEW t
    PROVE  Group(t)' = Group(t) /\ (Unlinked(t)' <=> Unlinked(t))
  BY DEF Unlinked, Group, LinksOf

LEMMA UnlinkedIs ==
    ASSUME TypeInv, NEW t \in Tickets, Unlinked(t)
    PROVE  /\ t \in PRs => linked[t] = {}
           /\ \A p \in PRs : t \notin linked[p]
           /\ \A u \in Tickets : t \in Group(u) => u = t
<1>1. Group(t) = {t}
  BY DEF Unlinked
<1>2. ASSUME t \in PRs PROVE linked[t] = {}
  <2>1. linked[t] \subseteq Issues /\ linked[t] \subseteq Group(t)
    BY <1>2 DEF Group, LinksOf, TypeInv, TypeOK
  <2>2. t \notin Issues
    BY <1>2, TicketsAssumption
  <2> QED
    BY <1>1, <2>1, <2>2
<1>3. ASSUME NEW p \in PRs, t \in linked[p] PROVE FALSE
  <2>1. p \in Group(t) /\ t \in Issues
    BY <1>3 DEF Group, TypeInv, TypeOK
  <2> QED
    BY <1>1, <2>1, TicketsAssumption
<1>4. ASSUME NEW u \in Tickets, t \in Group(u) PROVE u = t
  <2>1. t = u \/ (u \in PRs /\ t \in linked[u]) \/ (t \in PRs /\ u \in linked[t])
    BY <1>4 DEF Group, LinksOf
  <2> QED
    BY <2>1, <1>2, <1>3
<1> QED
  BY <1>2, <1>3, <1>4

LEMMA PushedToPaired ==
    ASSUME TypeInv, NEW w \in Workers, NEW t \in Tickets, PushedTo(w, t)
    PROVE  \/ /\ t \in PRs /\ Tk(w) = t /\ linked[t] # {} /\ run[w].step = "adopt" /\ Adopt(w)
           \/ /\ t \in Issues /\ Tk(w) \in PRs /\ t \in linked[Tk(w)] /\ run[w].link = t
              /\ LinkAdd(w) \/ LinkRemove(w)
  BY AdoptTurn, LinkTurn DEF PushedTo

LEMMA StartOnWay ==
    ASSUME Init, NEW t \in Tickets PROVE OnWay(None, t)
<1>1. labels[t] = {} /\ effect[t] = None /\ synced[t] = None
  BY DEF Init
<1>2. ClassOf({}) = None /\ Lasting(ClassOf({}), {}) = ClassOf({})
  BY ClassIs, LastingOfClass
<1>3. Heads(None, {}, None, None)
  BY <1>2 DEF Heads, Resolve
<1>4. \A w \in Workers : run[w].step = "idle"
  BY DEF Init, NoRun
<1>5. \A w \in Workers : Sound(None, labels[t], effect[t], run[w], run[w].mem[t])
  BY <1>4, IdleSound
<1> QED
  BY <1>1, <1>3, <1>5 DEF OnWay

LEMMA SyncInit == Init => SyncInv
<1> SUFFICES ASSUME Init, NEW t \in Tickets, due[t] # Free PROVE OnWay(due[t], t)
  BY DEF SyncInv
<1>1. due[t] = None
  BY DEF Init
<1> QED
  BY <1>1, StartOnWay DEF OnWay

LEMMA SyncWorks ==
    ASSUME TypeInv, TypeInv', SyncInv, Works PROVE SyncInv'
<1> SUFFICES ASSUME NEW t \in Tickets, Unlinked(t)', due'[t] # Free
             PROVE  OnWay(due[t], t)'
  BY WorksEnv DEF SyncInv
<1>1. Unlinked(t) /\ due'[t] = due[t]
  BY WorksEnv, GroupStays
<1>2. PICK d : d = due[t]
  OBVIOUS
<1>3. d \in Classes
  BY <1>1, <1>2 DEF TypeInv, TypeOK
<1>4. OnWay(d, t)
  BY <1>1, <1>2 DEF SyncInv
<1>5. \A w \in Workers : ~PushedTo(w, t)
  BY <1>1, UnlinkedIs, PushedToPaired
<1>6. OnWay(d, t)'
  BY <1>3, <1>4, <1>5, WorksNears DEF Nears
<1> QED
  BY <1>1, <1>2, <1>6

LEMMA SyncEdited ==
    ASSUME TypeInv, TypeInv', SyncInv, NEW u \in Tickets,
           NEW ls \in SUBSET OWNED_LABELS, NEW f \in Classes, Edited(u, ls, f)
    PROVE  SyncInv'
<1>1. /\ UNCHANGED <<linked, synced, run>>
      /\ \A t \in Tickets : due'[t] = IF t \notin Group(u) THEN due[t]
                                      ELSE IF Quiet(u) THEN Wanted(u, ls, f) ELSE Free
  BY EditedIs
<1> SUFFICES ASSUME NEW t \in Tickets, Unlinked(t)', due'[t] # Free
             PROVE  OnWay(due[t], t)'
  BY DEF SyncInv
<1>2. Unlinked(t)
  BY <1>1, GroupStays
<1>3. t \in Group(u) <=> t = u
  BY <1>2, UnlinkedIs DEF Group
<1>4. PICK d : d = due'[t]
  OBVIOUS
<1>5. CASE t # u
  <2>1. /\ d = due[t] /\ labels'[t] = labels[t] /\ effect'[t] = effect[t]
        /\ synced'[t] = synced[t]
    BY <1>1, <1>3, <1>4, <1>5 DEF Edited
  <2>2. OnWay(d, t)
    BY <1>2, <1>4, <2>1 DEF SyncInv
  <2>3. OnWay(d, t)'
    BY <1>1, <2>1, <2>2, StillOnWay
  <2> QED
    BY <1>4, <2>3
<1>6. CASE t = u
  <2>1. Quiet(t) /\ d = Wanted(t, ls, f)
    BY <1>1, <1>3, <1>4, <1>6
  <2>2. d = Lasting(Resolve(ClassOf(ls), f, synced[t]), ls)
    BY <1>2, <2>1 DEF Wanted
  <2>3. Heads(d, labels'[t], effect'[t], synced'[t])
    BY <1>1, <1>6, <2>2 DEF Heads, Edited
  <2>4. t \in Group(t)
    BY DEF Group
  <2>5. OnWay(d, t)'
    BY <1>1, <2>1, <2>3, <2>4, QuietOnWay
  <2> QED
    BY <1>4, <2>5
<1> QED
  BY <1>5, <1>6

-----------------------------------------------------------------------------
(* The sweep and pull requests.                                            *)

\* r has p in hand or before it.
Ahead(r, p) == p \in r.todo \/ r.at = p

\* All pull requests come first, then all issues.
Phases(r) ==
    /\ r.at \notin r.todo
    /\ r.step = "prs" \/ r.at \in PRs => r.todo \subseteq PRs
    /\ r.step = "issues" \/ r.at \in Issues => r.todo \subseteq Issues

\* What the sweep knows of pull request p, which nobody else writes: its state
\* S, and in propagate_pr_to_issues where the class to spread comes from.
Reading(r, p, S, lk) ==
    /\ Ahead(r, p) => r.mem[p].synced = S
    /\ r.at = p =>
       /\ r.step \in {"synced", "inherit", "adopt"} /\ ClassOf(r.mem[p].labels) = None
            => r.mem[p].synced = None
       /\ r.step \in {"inherit", "adopt"} =>
            /\ ClassOf(r.mem[p].labels) = None /\ r.winner # None
            /\ \E i \in lk : r.winner = ClassOf(r.mem[i].labels)
       /\ r.step \in {"spread", "linkAdd", "linkRemove"} =>
            r.winner = ClassOf(r.mem[p].labels) /\ r.winner # None

SweepInv ==
    /\ Phases(run[Sweep])
    /\ \A p \in PRs : Reading(run[Sweep], p, synced[p], linked[p])
    /\ \A i \in Issues : run[i].at \notin PRs

\* The cases in which there is nothing to know.
LEMMA Elsewhere ==
    ASSUME NEW r, NEW p, NEW S, NEW lk, r.at # p, p \notin r.todo \/ r.mem[p].synced = S
    PROVE  Reading(r, p, S, lk)
  BY DEF Reading, Ahead

LEMMA Apart ==
    /\ Sweep \in Workers /\ Sweep \notin Tickets /\ Issues \subseteq Workers
    /\ PRs \subseteq Tickets /\ Issues \subseteq Tickets /\ Tickets = PRs \union Issues
    /\ PRs \intersect Issues = {}
    /\ \A w \in Workers : w # Sweep => w \in Issues
  BY TicketsAssumption, NamesAssumption DEF Workers, Tickets

\* A run that works leaves its ticket or goes on with it.
LEMMA WorkTurn ==
    ASSUME TypeInv, NEW w \in Workers, Sync(w) \/ Push(w)
    PROVE  /\ run[w].step \notin {"idle", "prs", "issues"}
           /\ Tk(w) \in Tickets
           /\ \E r : /\ Turn(w, r)
                     /\ \/ Done(w, r)
                        \/ Stays(w, r) /\ r.step \notin {"idle", "prs", "issues"}
<1>1. run[w].step \notin {"idle", "prs", "issues"}
  BY DEF Sync, Push, Decide, RecheckLabels, WriteField, AddLabels, RemoveLabels, WriteState,
         Propagate, RecheckInherit, Adopt, Spread, LinkAdd, LinkRemove, SpreadEnd, At
<1>2. Tk(w) \in Tickets
  BY <1>1, HandType
<1>3. {AfterAdd(w), AfterField(w), FirstWrite(w)} \subseteq {"field", "add", "remove", "state"}
  BY <1>1, WriteSteps
<1> DEFINE Moved(r) == \/ Done(w, r)
                       \/ Stays(w, r) /\ r.step \notin {"idle", "prs", "issues"}
<1>4. CASE Decide(w)
  <2>1. PICK r : /\ Turn(w, r)
                 /\ \/ Done(w, r)
                    \/ SameRead(w, r) /\ r.step \in {"labels", "synced"}
    BY <1>4, DecideTurn
  <2> QED
    BY <1>1, <1>2, <2>1, SameStays
<1>5. CASE RecheckLabels(w)
  <2>1. PICK r : /\ Turn(w, r)
                 /\ \/ Done(w, r)
                    \/ SameHand(w, r) /\ r.step \in {FirstWrite(w), "synced"}
    BY <1>5, RecheckTurn
  <2>2. Moved(r)
    BY <1>3, <2>1, SameStays DEF SameHand
  <2> QED
    BY <1>1, <1>2, <2>1, <2>2
<1>6. CASE WriteField(w) \/ AddLabels(w) \/ RemoveLabels(w)
  <2>1. PICK r : /\ Turn(w, r) /\ SameHand(w, r)
                 /\ r.step \in {AfterField(w), AfterAdd(w), "state"}
    BY <1>6, WriteFieldTurn, AddTurn, RemoveTurn
  <2>2. Moved(r)
    BY <1>3, <2>1, SameStays DEF SameHand
  <2> QED
    BY <1>1, <1>2, <2>1, <2>2
<1>7. CASE WriteState(w)
  <2>1. PICK r : Turn(w, r) /\ Stays(w, r) /\ r.step = "synced"
    BY <1>7, StateTurn
  <2> QED
    BY <1>1, <1>2, <2>1
<1>8. CASE Propagate(w)
  <2>1. PICK r : /\ Turn(w, r)
                 /\ \/ Done(w, r)
                    \/ SameRead(w, r) /\ r.step \in {"inherit", "spread"}
    BY <1>8, PropagateTurn
  <2> QED
    BY <1>1, <1>2, <2>1, SameStays
<1>9. CASE RecheckInherit(w) \/ SpreadEnd(w)
  <2>1. PICK r : /\ Turn(w, r)
                 /\ \/ Done(w, r)
                    \/ SameHand(w, r) /\ r.step \in {"adopt", "decide"}
    BY <1>9, RecheckInheritTurn, SpreadEndTurn
  <2> QED
    BY <1>1, <1>2, <2>1, SameStays DEF SameHand
<1>10. CASE Adopt(w)
  <2>1. PICK r : Turn(w, r) /\ Stays(w, r) /\ r.step = "spread"
    BY <1>10, AdoptTurn
  <2> QED
    BY <1>1, <1>2, <2>1
<1>11. CASE \E i \in Issues : Spread(w, i)
  <2>1. PICK r : /\ Turn(w, r) /\ SameHand(w, r)
                 /\ r.step \in {"spread", "linkAdd", "linkRemove"}
    BY <1>11, SpreadTurn
  <2> QED
    BY <1>1, <1>2, <2>1, SameStays DEF SameHand
<1>12. CASE LinkAdd(w)
  <2>1. PICK i : i = run[w].link
    OBVIOUS
  <2>2. PICK L : L = labels[i] \union Added(run[w].winner, LinkRead(w, i))
    OBVIOUS
  <2>3. PICK r : /\ Turn(w, r) /\ SameHand(w, r)
                 /\ r.step \in {"spread", "linkRemove"}
    BY <1>12, <2>1, <2>2, LinkAddTurn
  <2> QED
    BY <1>1, <1>2, <2>3, SameStays DEF SameHand
<1>13. CASE LinkRemove(w)
  <2>1. PICK i : i = run[w].link
    OBVIOUS
  <2>2. PICK L : L = labels[i] \ Stripped(run[w].winner, LinkRead(w, i))
    OBVIOUS
  <2>3. PICK r : Turn(w, r) /\ SameHand(w, r) /\ r.step = "spread"
    BY <1>13, <2>1, <2>2, LinkRemoveTurn
  <2> QED
    BY <1>1, <1>2, <2>3, SameStays DEF SameHand
<1> QED
  BY <1>4, <1>5, <1>6, <1>7, <1>8, <1>9, <1>10, <1>11, <1>12, <1>13 DEF Sync, Push

\* What it leaves of the tickets it does not have in hand.
LEMMA WorkSurfaces ==
    ASSUME TypeInv, NEW w \in Workers, Sync(w) \/ Push(w), NEW t \in Tickets, t # Tk(w)
    PROVE  /\ effect'[t] = effect[t] /\ synced'[t] = synced[t]
           /\ ~PushedTo(w, t) => labels'[t] = labels[t]
<1>1. CASE Decide(w) \/ RecheckLabels(w)
  <2>1. UNCHANGED <<Surfaces, pending, Env>>
    BY <1>1, DecideTurn, RecheckTurn
  <2> QED
    BY <2>1 DEF Surfaces
<1>2. CASE Propagate(w) \/ RecheckInherit(w) \/ (\E i \in Issues : Spread(w, i)) \/ SpreadEnd(w)
  <2>1. UNCHANGED <<Surfaces, pending, Env>>
    BY <1>2, PropagateTurn, RecheckInheritTurn, SpreadTurn, SpreadEndTurn
  <2> QED
    BY <2>1 DEF Surfaces
<1>3. CASE WriteField(w)
  BY <1>3, WriteFieldSurfaces
<1>4. CASE AddLabels(w)
  BY <1>4, AddSurfaces
<1>5. CASE RemoveLabels(w)
  BY <1>5, RemoveSurfaces
<1>6. CASE WriteState(w)
  BY <1>6, StateSurfaces
<1>7. CASE Adopt(w)
  <2>1. PICK u : u = Tk(w)
    OBVIOUS
  <2>2. PICK ls : ls = labels[u] \union (WRITEBACK_LABELS[run[w].winner] \ Mem(w).labels)
    OBVIOUS
  <2>3. /\ UNCHANGED <<effect, synced, Env>>
        /\ u \in PRs /\ ls \in SUBSET OWNED_LABELS /\ SetLabels(u, ls)
    BY <1>7, <2>1, <2>2, AdoptTurn
  <2> QED
    BY <2>1, <2>3, LabelsType DEF Tickets
<1>8. CASE LinkAdd(w) \/ LinkRemove(w)
  <2>1. PICK u : u = run[w].link
    OBVIOUS
  <2>2. /\ UNCHANGED <<effect, synced, Env>>
        /\ u \in Issues /\ \E ls \in SUBSET OWNED_LABELS : SetLabels(u, ls)
    BY <1>8, <2>1, LinkTurn
  <2>3. ~PushedTo(w, t) => t # u
    BY <1>8, <2>1 DEF PushedTo
  <2>4. t # u => labels'[t] = labels[t]
    BY <2>2, LabelsType DEF Tickets
  <2> QED
    BY <2>2, <2>3, <2>4
<1> QED
  BY <1>1, <1>2, <1>3, <1>4, <1>5, <1>6, <1>7, <1>8 DEF Sync, Push

LEMMA NoClass ==
    ASSUME NEW L \in SUBSET OWNED_LABELS, ClassOf(L) = None
    PROVE  L = {}
<1> SUFFICES ASSUME NEW l \in L PROVE FALSE
  OBVIOUS
<1>1. LabelRank[l] \in 1..8 /\ Rank[None] = 9
  BY KeptRank, RankOrder
<1>2. Rank[ClassOf(L)] <= LabelRank[l]
  BY ClassIs
<1> QED
  BY <1>1, <1>2

LEMMA ClassOfWriteback ==
    ASSUME NEW c \in Classes
    PROVE  ClassOf(WRITEBACK_LABELS[c]) = c
<1>1. /\ WRITEBACK_LABELS[c] \in SUBSET OWNED_LABELS
      /\ \A l \in WRITEBACK_LABELS[c] : Rank[c] <= LabelRank[l]
      /\ c = None \/ \E l \in WRITEBACK_LABELS[c] : LabelRank[l] = Rank[c]
  BY WritebackRank
<1> QED
  BY <1>1, ClassByRank

LEMMA NothingToWrite ==
    ASSUME NEW m, NEW c, ~NeedsWrite(c, m)
    PROVE  c = ClassOf(m.labels) /\ c = m.synced
  BY DEF NeedsWrite, LabelsDiffer

\* The sweep's work on a pull request keeps what it knows of it.
LEMMA SyncReading ==
    ASSUME TypeInv, SweepInv, NEW p \in PRs, p = Tk(Sweep), Sync(Sweep)
    PROVE  \E r : Turn(Sweep, r) /\ Reading(r, p, synced'[p], linked[p])
<1>1. /\ Sweep \in Workers /\ p \in Tickets /\ Sweep # p
      /\ Reading(run[Sweep], p, synced[p], linked[p])
      /\ run[Sweep].at = p /\ p \notin run[Sweep].todo
      /\ run[Sweep].mem[p] = Mem(Sweep)
      /\ Mem(Sweep).synced = synced[p]
  BY Apart DEF SweepInv, Phases, Tk, Mem, Reading, Ahead
<1> DEFINE Goal == \E r : Turn(Sweep, r) /\ Reading(r, p, synced'[p], linked[p])
<1>2. ASSUME NEW r, Turn(Sweep, r), Done(Sweep, r) PROVE Goal
  <2>1. Reading(r, p, synced'[p], linked[p])
    BY <1>1, <1>2, Elsewhere DEF Done
  <2> QED
    BY <1>2, <2>1
<1>3. ASSUME NEW r, Turn(Sweep, r), SameRead(Sweep, r), synced'[p] = synced[p],
             r.step \in {"labels", "field", "add", "remove", "state"}
      PROVE  Goal
  <2>1. Reading(r, p, synced'[p], linked[p])
    BY <1>1, <1>3 DEF SameRead, Reading
  <2> QED
    BY <1>3, <2>1
<1>4. ASSUME NEW r, Turn(Sweep, r), SameRead(Sweep, r), synced'[p] = synced[p],
             r.step = "synced", NEW c, ~NeedsWrite(c, Mem(Sweep))
      PROVE  Goal
  <2>1. c = ClassOf(Mem(Sweep).labels) /\ c = Mem(Sweep).synced
    BY <1>4, NothingToWrite
  <2>2. Reading(r, p, synced'[p], linked[p])
    BY <1>1, <1>4, <2>1 DEF SameRead, Reading
  <2> QED
    BY <1>4, <2>2
<1>5. {AfterAdd(Sweep), AfterField(Sweep), FirstWrite(Sweep)}
        \subseteq {"field", "add", "remove", "state"}
  BY DEF AfterAdd, AfterField, FirstWrite
<1>6. CASE Decide(Sweep)
  <2>1. synced'[p] = synced[p]
    BY <1>1, <1>6, DecideTurn DEF Surfaces
  <2>2. PICK r :
          /\ Turn(Sweep, r)
          /\ \/ Done(Sweep, r)
             \/ SameRead(Sweep, r) /\ r.step = "labels"
             \/ /\ SameRead(Sweep, r) /\ r.step = "synced"
                /\ ~NeedsWrite(Winner(Mem(Sweep)), Mem(Sweep))
    BY <1>1, <1>6, DecideTurn
  <2>3. PICK c : c = Winner(Mem(Sweep))
    OBVIOUS
  <2> QED
    BY <1>2, <1>3, <1>4, <2>1, <2>2, <2>3
<1>7. CASE RecheckLabels(Sweep)
  <2>1. synced'[p] = synced[p]
    BY <1>1, <1>7, RecheckTurn DEF Surfaces
  <2>2. PICK r :
          /\ Turn(Sweep, r)
          /\ \/ Done(Sweep, r)
             \/ SameRead(Sweep, r) /\ r.step = FirstWrite(Sweep)
             \/ /\ SameRead(Sweep, r) /\ r.step = "synced"
                /\ ~NeedsWrite(run[Sweep].winner, Mem(Sweep))
    BY <1>1, <1>7, RecheckTurn DEF SameHand
  <2>3. PICK c : c = run[Sweep].winner
    OBVIOUS
  <2> QED
    BY <1>2, <1>3, <1>4, <1>5, <2>1, <2>2, <2>3
<1>8. CASE WriteField(Sweep)
  BY <1>1, <1>3, <1>5, <1>8, WriteFieldTurn, WriteFieldSurfaces DEF SameHand
<1>9. CASE AddLabels(Sweep)
  BY <1>1, <1>3, <1>5, <1>9, AddTurn, AddSurfaces DEF SameHand
<1>10. CASE RemoveLabels(Sweep)
  BY <1>1, <1>3, <1>10, RemoveTurn, RemoveSurfaces DEF SameHand
<1>11. CASE WriteState(Sweep)
  <2>1. PICK c : c = run[Sweep].winner
    OBVIOUS
  <2>2. PICK kept : kept = Mem(Sweep).labels \ (OWNED_LABELS \ KEEP_ALWAYS)
    OBVIOUS
  <2>3. PICK r : /\ Turn(Sweep, r) /\ Stays(Sweep, r) /\ r.step = "synced"
                 /\ r.mem[p] = [labels |-> kept \union WRITEBACK_LABELS[c],
                                effect |-> c, synced |-> c]
    BY <1>1, <1>11, <2>1, <2>2, StateTurn
  <2>4. synced'[p] = IF c # Mem(Sweep).synced THEN c ELSE synced[p]
    BY <1>1, <1>11, <2>1, StateSurfaces
  <2>5. run[Sweep].step = "state"
    BY <1>1, <1>11, StateSurfaces
  <2>6. c \in Classes /\ Mem(Sweep).labels \in SUBSET OWNED_LABELS
    BY <1>1, <2>1, <2>5, HandType DEF Images
  <2>7. kept \union WRITEBACK_LABELS[c] \in SUBSET OWNED_LABELS
    BY <2>2, <2>6, WritebackRank
  <2>8. ASSUME ClassOf(kept \union WRITEBACK_LABELS[c]) = None PROVE c = None
    <3>1. WRITEBACK_LABELS[c] = {}
      BY <2>7, <2>8, NoClass
    <3> QED
      BY <2>6, <3>1, WritebackRank
  <2>9. synced'[p] = c
    BY <1>1, <2>4
  <2>10. r.mem[p].labels = kept \union WRITEBACK_LABELS[c] /\ r.mem[p].synced = c
    BY <2>3
  <2>11. Reading(r, p, synced'[p], linked[p])
    BY <2>3, <2>8, <2>9, <2>10 DEF Reading
  <2> QED
    BY <2>3, <2>11
<1> QED
  BY <1>6, <1>7, <1>8, <1>9, <1>10, <1>11 DEF Sync

LEMMA PushReading ==
    ASSUME TypeInv, SweepInv, NEW p \in PRs, p = Tk(Sweep), Push(Sweep)
    PROVE  \E r : Turn(Sweep, r) /\ Reading(r, p, synced'[p], linked[p])
<1>1. /\ Sweep \in Workers /\ p \in Tickets /\ Sweep # p
      /\ Reading(run[Sweep], p, synced[p], linked[p])
      /\ run[Sweep].at = p /\ p \notin run[Sweep].todo
      /\ run[Sweep].mem[p] = Mem(Sweep)
      /\ Mem(Sweep).synced = synced[p]
      /\ LinksOf(p) = linked[p]
  BY Apart DEF SweepInv, Phases, Tk, Mem, Reading, Ahead, LinksOf
<1> DEFINE Goal == \E r : Turn(Sweep, r) /\ Reading(r, p, synced'[p], linked[p])
<1>2. ASSUME NEW r, Turn(Sweep, r), Done(Sweep, r) PROVE Goal
  <2>1. Reading(r, p, synced'[p], linked[p])
    BY <1>1, <1>2, Elsewhere DEF Done
  <2> QED
    BY <1>2, <2>1
<1>3. CASE Propagate(Sweep)
  <2>1. run[Sweep].step = "synced" /\ synced'[p] = synced[p]
    BY <1>1, <1>3, PropagateTurn DEF Propagate, At, Surfaces
  <2>2. PICK r : /\ Turn(Sweep, r)
                 /\ \/ Done(Sweep, r)
                    \/ /\ SameRead(Sweep, r) /\ r.winner # None
                       /\ \/ /\ r.step = "inherit" /\ ClassOf(Mem(Sweep).labels) = None
                             /\ \E i \in LinksOf(Tk(Sweep)) :
                                  r.winner = ClassOf(run[Sweep].mem[i].labels)
                          \/ r.step = "spread" /\ r.winner = ClassOf(Mem(Sweep).labels)
    BY <1>1, <1>3, PropagateTurn
  <2>3. CASE /\ SameRead(Sweep, r) /\ r.winner # None
             /\ r.step = "inherit" /\ ClassOf(Mem(Sweep).labels) = None
             /\ \E i \in LinksOf(Tk(Sweep)) : r.winner = ClassOf(run[Sweep].mem[i].labels)
    <3>1. Reading(r, p, synced'[p], linked[p])
      BY <1>1, <2>1, <2>3 DEF SameRead, Reading, Ahead
    <3> QED
      BY <2>2, <3>1
  <2>4. CASE /\ SameRead(Sweep, r) /\ r.winner # None
             /\ r.step = "spread" /\ r.winner = ClassOf(Mem(Sweep).labels)
    <3>1. Reading(r, p, synced'[p], linked[p])
      BY <1>1, <2>1, <2>4 DEF SameRead, Reading, Ahead
    <3> QED
      BY <2>2, <3>1
  <2> QED
    BY <1>2, <2>2, <2>3, <2>4
<1>4. CASE RecheckInherit(Sweep)
  <2>1. run[Sweep].step = "inherit" /\ synced'[p] = synced[p]
    BY <1>1, <1>4, RecheckInheritTurn DEF RecheckInherit, At, Surfaces
  <2>2. PICK r : /\ Turn(Sweep, r)
                 /\ \/ Done(Sweep, r)
                    \/ SameHand(Sweep, r) /\ r.step = "adopt"
    BY <1>1, <1>4, RecheckInheritTurn
  <2>3. CASE SameHand(Sweep, r) /\ r.step = "adopt"
    <3>1. Reading(r, p, synced'[p], linked[p])
      BY <1>1, <2>1, <2>3 DEF SameHand, SameRead, Reading, Ahead
    <3> QED
      BY <2>2, <3>1
  <2> QED
    BY <1>2, <2>2, <2>3
<1>5. CASE Adopt(Sweep)
  <2>1. PICK c : c = run[Sweep].winner
    OBVIOUS
  <2>2. PICK r : /\ Turn(Sweep, r) /\ Stays(Sweep, r) /\ r.step = "spread"
                 /\ r.winner = run[Sweep].winner
                 /\ r.mem[Tk(Sweep)] = [Mem(Sweep) EXCEPT !.labels =
                                           @ \union WRITEBACK_LABELS[run[Sweep].winner]]
    BY <1>1, <1>5, AdoptTurn
  <2>3. synced'[p] = synced[p] /\ run[Sweep].step = "adopt"
    BY <1>1, <1>5, AdoptTurn
  <2>4. c \in Classes /\ Mem(Sweep) \in Images
    BY <1>1, <2>1, <2>3, HandType
  <2>5. ClassOf(Mem(Sweep).labels) = None /\ c # None
    BY <1>1, <2>1, <2>3 DEF Reading
  <2>6. Mem(Sweep).labels = {}
    BY <2>4, <2>5, NoClass DEF Images
  <2>7. r.mem[p].labels = WRITEBACK_LABELS[c] /\ r.mem[p].synced = Mem(Sweep).synced
    BY <2>1, <2>2, <2>4, <2>6 DEF Images
  <2>8. ClassOf(r.mem[p].labels) = c
    BY <2>4, <2>7, ClassOfWriteback
  <2>9. Reading(r, p, synced'[p], linked[p])
    BY <1>1, <2>1, <2>2, <2>3, <2>5, <2>7, <2>8 DEF Reading
  <2> QED
    BY <2>2, <2>9
<1>6. ASSUME NEW r, Turn(Sweep, r), SameHand(Sweep, r), synced'[p] = synced[p],
             r.step \in {"spread", "linkAdd", "linkRemove", "decide"},
             run[Sweep].step \in {"spread", "linkAdd", "linkRemove"}
      PROVE  Goal
  <2>1. Reading(r, p, synced'[p], linked[p])
    BY <1>1, <1>6 DEF SameHand, SameRead, Reading, Ahead
  <2> QED
    BY <1>6, <2>1
<1>7. CASE \E i \in Issues : Spread(Sweep, i)
  <2>1. PICK i \in Issues : Spread(Sweep, i)
    BY <1>7
  <2>2. run[Sweep].step = "spread" /\ synced'[p] = synced[p]
    BY <1>1, <2>1, SpreadTurn DEF Surfaces
  <2>3. PICK r : /\ Turn(Sweep, r) /\ SameHand(Sweep, r)
                 /\ r.step \in {"spread", "linkAdd", "linkRemove"}
    BY <1>1, <2>1, SpreadTurn
  <2> QED
    BY <1>6, <2>2, <2>3
<1>8. CASE LinkAdd(Sweep)
  <2>1. PICK i : i = run[Sweep].link
    OBVIOUS
  <2>2. PICK L : L = labels[i] \union Added(run[Sweep].winner, LinkRead(Sweep, i))
    OBVIOUS
  <2>3. /\ run[Sweep].step = "linkAdd" /\ synced'[p] = synced[p]
        /\ \E r : Turn(Sweep, r) /\ SameHand(Sweep, r) /\ r.step \in {"spread", "linkRemove"}
    BY <1>1, <1>8, <2>1, <2>2, LinkAddTurn
  <2> QED
    BY <1>6, <2>3
<1>9. CASE LinkRemove(Sweep)
  <2>1. PICK i : i = run[Sweep].link
    OBVIOUS
  <2>2. PICK L : L = labels[i] \ Stripped(run[Sweep].winner, LinkRead(Sweep, i))
    OBVIOUS
  <2>3. /\ run[Sweep].step = "linkRemove" /\ synced'[p] = synced[p]
        /\ \E r : Turn(Sweep, r) /\ SameHand(Sweep, r) /\ r.step = "spread"
    BY <1>1, <1>9, <2>1, <2>2, LinkRemoveTurn
  <2> QED
    BY <1>6, <2>3
<1>10. CASE SpreadEnd(Sweep)
  <2>1. run[Sweep].step = "spread" /\ synced'[p] = synced[p]
    BY <1>1, <1>10, SpreadEndTurn DEF SpreadEnd, At, Surfaces
  <2>2. PICK r : /\ Turn(Sweep, r)
                 /\ \/ Done(Sweep, r)
                    \/ SameHand(Sweep, r) /\ r.step = "decide"
    BY <1>1, <1>10, SpreadEndTurn
  <2> QED
    BY <1>2, <1>6, <2>1, <2>2
<1> QED
  BY <1>3, <1>4, <1>5, <1>7, <1>8, <1>9, <1>10 DEF Push


LEMMA TurnIs ==
    ASSUME TypeInv, NEW w \in Workers, NEW r, Turn(w, r)
    PROVE  run'[w] = r /\ \A v \in Workers : v # w => run'[v] = run[v]
  BY DEF TypeInv, TypeOK, Turn

\* What starts the sweep, and what leads it from ticket to ticket.
LEMMA StartReads ==
    ASSUME TypeInv, StartSweep
    PROVE  /\ run'[Sweep].step = "prs" /\ run'[Sweep].at = Sweep /\ run'[Sweep].todo = PRs
           /\ \A t \in Tickets : run'[Sweep].mem[t].labels = labels[t]
           /\ \A p \in PRs : run'[Sweep].mem[p].synced = synced[p]
<1>1. run'[Sweep] = [NoRun EXCEPT !.step = "prs", !.mem = Read(PRs, Issues), !.todo = PRs]
  BY Apart DEF StartSweep, TypeInv, TypeOK
<1>2. /\ run'[Sweep].step = "prs" /\ run'[Sweep].at = Sweep /\ run'[Sweep].todo = PRs
      /\ run'[Sweep].mem = Read(PRs, Issues)
  BY <1>1 DEF NoRun
<1>3. \A t \in Tickets : Read(PRs, Issues)[t].labels = labels[t]
  BY Apart DEF Read
<1>4. \A p \in PRs : Read(PRs, Issues)[p].synced = synced[p]
  BY Apart DEF Read
<1> QED
  BY <1>2, <1>3, <1>4

LEMMA NextTakes ==
    ASSUME TypeInv, NEW phase, NextTicket(phase)
    PROVE  \E t \in run[Sweep].todo :
             /\ run[Sweep].step = phase /\ run'[Sweep].step = "decide"
             /\ run'[Sweep].at = t /\ run'[Sweep].todo = run[Sweep].todo \ {t}
             /\ run'[Sweep].mem = run[Sweep].mem
<1>1. Sweep \in Workers /\ run[Sweep] \in Runs /\ run \in [Workers -> Runs]
  BY Apart DEF TypeInv, TypeOK
<1>2. PICK t \in run[Sweep].todo :
        run' = [run EXCEPT ![Sweep].step = "decide", ![Sweep].at = t, ![Sweep].todo = @ \ {t}]
  BY DEF NextTicket
<1>3. run'[Sweep] = [run[Sweep] EXCEPT !.step = "decide", !.at = t, !.todo = @ \ {t}]
  BY <1>1, <1>2
<1>4. /\ run'[Sweep].step = "decide" /\ run'[Sweep].at = t
      /\ run'[Sweep].todo = run[Sweep].todo \ {t} /\ run'[Sweep].mem = run[Sweep].mem
  BY <1>1, <1>3 DEF Runs
<1> QED
  BY <1>2, <1>4 DEF NextTicket, At

LEMMA FetchReads ==
    ASSUME TypeInv, FetchIssues
    PROVE  run'[Sweep].step = "issues" /\ run'[Sweep].at = Sweep /\ run'[Sweep].todo = Issues
<1>1. run'[Sweep] = [NoRun EXCEPT !.step = "issues", !.mem = Read(Issues, {}), !.todo = Issues]
  BY Apart DEF FetchIssues, TypeInv, TypeOK
<1> QED
  BY <1>1 DEF NoRun

LEMMA NoRunIs == NoRun.step = "idle" /\ NoRun.at = Sweep /\ NoRun.todo = {}
  BY DEF NoRun

\* A run that passes ends, or dies; or is an event's that starts; or the sweep's.
Moves(w) ==
    \/ run'[w] = NoRun
    \/ w # Sweep /\ run'[w].at = w
    \/ w = Sweep /\ (StartSweep \/ NextTicket("prs") \/ NextTicket("issues") \/ FetchIssues)

LEMMA WorksMoves ==
    ASSUME TypeInv, Works
    PROVE  \E w \in Workers : /\ \A v \in Workers : v # w => run'[v] = run[v]
                              /\ Sync(w) \/ Push(w) \/ (Passes(w) /\ Moves(w))
<1>1. ASSUME NEW w \in Workers, Sync(w) \/ Push(w)
      PROVE  \A v \in Workers : v # w => run'[v] = run[v]
  BY <1>1, WorkTurn, TurnIs
<1>2. CASE SweepStep
  <2>1. CASE EndSweep
    <3>1. run'[Sweep] = NoRun
      BY <2>1, Apart DEF EndSweep, TypeInv, TypeOK
    <3> QED
      BY <2>1, <3>1, SweepPasses, Apart DEF Moves, Passes
  <2>2. CASE StartSweep \/ NextTicket("prs") \/ NextTicket("issues") \/ FetchIssues
    BY <2>2, SweepPasses, Apart DEF Moves, Passes
  <2>3. CASE Sync(Sweep) \/ Push(Sweep)
    BY <2>3, <1>1, Apart
  <2> QED
    BY <1>2, <2>1, <2>2, <2>3 DEF SweepStep
<1>3. CASE \E i \in Issues : EventStep(i)
  <2>1. PICK i \in Issues : StartEvent(i) \/ Sync(i) \/ Push(i)
    BY <1>3 DEF EventStep
  <2>2. CASE StartEvent(i)
    BY <2>2, StartEventPasses, Apart DEF Moves, Passes
  <2> QED
    BY <2>1, <2>2, <1>1, Apart
<1>4. CASE \E w \in Workers : Kill(w)
  BY <1>4, KillPasses DEF Moves, Passes
<1> QED
  BY <1>2, <1>3, <1>4 DEF Works

LEMMA SweepInit == Init => SweepInv
<1> SUFFICES ASSUME Init PROVE SweepInv
  OBVIOUS
<1>1. \A w \in Workers : run[w] = NoRun
  BY DEF Init
<1>2. run[Sweep] = NoRun /\ Sweep \notin PRs /\ \A i \in Issues : run[i] = NoRun
  BY <1>1, Apart
<1>3. \A p \in PRs : Reading(NoRun, p, synced[p], linked[p])
  BY <1>2, NoRunIs, Elsewhere
<1>4. Phases(NoRun)
  BY NoRunIs DEF Phases
<1> QED
  BY <1>2, <1>3, <1>4, NoRunIs DEF SweepInv

\* The sweep's own steps.
LEMMA SweepPhases ==
    ASSUME TypeInv, SweepInv, Sync(Sweep) \/ Push(Sweep)
    PROVE  Phases(run'[Sweep])
<1>1. /\ Tk(Sweep) \in Tickets
      /\ \E r : /\ Turn(Sweep, r)
                /\ \/ Done(Sweep, r)
                   \/ Stays(Sweep, r) /\ r.step \notin {"idle", "prs", "issues"}
  BY WorkTurn, Apart
<1>2. PICK r : /\ Turn(Sweep, r)
               /\ \/ Done(Sweep, r)
                  \/ Stays(Sweep, r) /\ r.step \notin {"idle", "prs", "issues"}
  BY <1>1
<1>3. run'[Sweep] = r
  BY <1>2, TurnIs, Apart
<1>4. run[Sweep].todo \subseteq Tickets
  BY Apart DEF TypeInv, TypeOK, Runs
<1>5. Phases(run[Sweep])
  BY DEF SweepInv
<1>6. CASE Done(Sweep, r)
  <2>1. r.at = Sweep /\ r.todo = run[Sweep].todo
        /\ r.step = IF Tk(Sweep) \in PRs THEN "prs" ELSE "issues"
    BY <1>6 DEF Done
  <2>2. Tk(Sweep) \in PRs => r.todo \subseteq PRs
    BY <1>5, <2>1 DEF Phases, Tk
  <2>3. Tk(Sweep) \notin PRs => r.todo \subseteq Issues
    BY <1>1, <1>5, <2>1, Apart DEF Phases, Tk
  <2> QED
    BY <1>3, <1>4, <2>1, <2>2, <2>3, Apart DEF Phases
<1>7. CASE Stays(Sweep, r) /\ r.step \notin {"idle", "prs", "issues"}
  BY <1>3, <1>5, <1>7 DEF Phases, Stays
<1> QED
  BY <1>2, <1>6, <1>7

LEMMA SweepReadings ==
    ASSUME TypeInv, SweepInv, Sync(Sweep) \/ Push(Sweep), NEW p \in PRs
    PROVE  Reading(run'[Sweep], p, synced'[p], linked[p])
<1>1. PICK r : /\ Turn(Sweep, r)
               /\ \/ Done(Sweep, r)
                  \/ Stays(Sweep, r) /\ r.step \notin {"idle", "prs", "issues"}
  BY WorkTurn, Apart
<1>2. run'[Sweep] = r
  BY <1>1, TurnIs, Apart
<1>3. CASE p = Tk(Sweep)
  <2>1. PICK q : Turn(Sweep, q) /\ Reading(q, p, synced'[p], linked[p])
    BY <1>3, SyncReading, PushReading
  <2>2. run'[Sweep] = q
    BY <2>1, TurnIs, Apart
  <2> QED
    BY <2>1, <2>2
<1>4. CASE p # Tk(Sweep)
  <2>1. synced'[p] = synced[p]
    BY <1>4, WorkSurfaces, Apart
  <2>2. r.at # p /\ r.todo = run[Sweep].todo /\ r.mem[p] = run[Sweep].mem[p]
    BY <1>1, <1>4, Apart DEF Done, Stays, Tk
  <2>3. p \notin run[Sweep].todo \/ run[Sweep].mem[p].synced = synced[p]
    BY DEF SweepInv, Reading, Ahead
  <2> QED
    BY <1>2, <2>1, <2>2, <2>3, Elsewhere
<1> QED
  BY <1>3, <1>4

LEMMA SweepWorks ==
    ASSUME TypeInv, TypeInv', SweepInv, Works PROVE SweepInv'
<1>1. linked' = linked
  BY WorksEnv
<1>2. PICK w \in Workers : /\ \A v \in Workers : v # w => run'[v] = run[v]
                           /\ Sync(w) \/ Push(w) \/ (Passes(w) /\ Moves(w))
  BY WorksMoves
<1>3. \A i \in Issues : run[i].at \notin PRs
  BY DEF SweepInv
<1>4. ASSUME NEW i \in Issues PROVE run'[i].at \notin PRs
  <2>1. i # Sweep /\ i \in Workers /\ i \notin PRs /\ Sweep \notin PRs
    BY Apart
  <2>2. CASE i # w
    BY <1>2, <1>3, <2>1, <2>2
  <2>3. CASE i = w /\ (Sync(w) \/ Push(w))
    <3>1. PICK r : Turn(i, r) /\ (Done(i, r) \/ Stays(i, r))
      BY <2>1, <2>3, WorkTurn
    <3>2. r.at \in {Sweep, run[i].at}
      BY <3>1 DEF Done, Stays
    <3> QED
      BY <1>3, <2>1, <3>1, <3>2, TurnIs
  <2>4. CASE i = w /\ Moves(w)
    BY <2>1, <2>4, NoRunIs DEF Moves
  <2> QED
    BY <1>2, <2>2, <2>3, <2>4
<1>5. CASE w # Sweep
  <2>1. run'[Sweep] = run[Sweep]
    BY <1>2, <1>5, Apart
  <2>2. ASSUME NEW p \in PRs PROVE synced'[p] = synced[p]
    <3>1. CASE Passes(w)
      BY <3>1 DEF Passes
    <3>2. CASE Sync(w) \/ Push(w)
      <4>1. w \in Issues
        BY <1>5, Apart
      <4>2. Tk(w) # p
        BY <1>3, <4>1 DEF Tk
      <4> QED
        BY <3>2, <4>2, WorkSurfaces, Apart
    <3> QED
      BY <1>2, <3>1, <3>2
  <2> QED
    BY <1>1, <1>4, <2>1, <2>2 DEF SweepInv
<1>6. CASE w = Sweep /\ (Sync(w) \/ Push(w))
  BY <1>1, <1>4, <1>6, SweepPhases, SweepReadings DEF SweepInv
<1>7. CASE w = Sweep /\ Passes(w) /\ Moves(w)
  <2>1. synced' = synced
    BY <1>7 DEF Passes
  <2> SUFFICES Phases(run'[Sweep])
               /\ \A p \in PRs : Reading(run'[Sweep], p, synced[p], linked[p])
    BY <1>1, <1>4, <2>1 DEF SweepInv
  <2>2. CASE run'[Sweep] = NoRun
    BY <2>2, NoRunIs, Elsewhere, Apart DEF Phases
  <2>3. CASE StartSweep
    BY <2>3, StartReads, Elsewhere, Apart DEF Phases
  <2>4. CASE FetchIssues
    BY <2>4, FetchReads, Elsewhere, Apart DEF Phases
  <2>5. ASSUME NEW phase \in {"prs", "issues"}, NextTicket(phase)
        PROVE  Phases(run'[Sweep])
               /\ \A p \in PRs : Reading(run'[Sweep], p, synced[p], linked[p])
    <3>1. PICK t \in run[Sweep].todo :
            /\ run[Sweep].step = phase /\ run'[Sweep].step = "decide"
            /\ run'[Sweep].at = t /\ run'[Sweep].todo = run[Sweep].todo \ {t}
            /\ run'[Sweep].mem = run[Sweep].mem
      BY <2>5, NextTakes
    <3>2. Phases(run'[Sweep])
      <4>1. Phases(run[Sweep])
        BY DEF SweepInv
      <4>2. phase = "prs" => run[Sweep].todo \subseteq PRs
        BY <3>1, <4>1 DEF Phases
      <4>3. phase = "issues" => run[Sweep].todo \subseteq Issues
        BY <3>1, <4>1 DEF Phases
      <4> QED
        BY <2>5, <3>1, <4>2, <4>3, Apart DEF Phases
    <3>3. ASSUME NEW p \in PRs PROVE Reading(run'[Sweep], p, synced[p], linked[p])
      <4>1. Reading(run[Sweep], p, synced[p], linked[p])
        BY DEF SweepInv
      <4>2. Ahead(run'[Sweep], p) => p \in run[Sweep].todo
        BY <3>1 DEF Ahead
      <4> QED
        BY <3>1, <4>1, <4>2 DEF Reading, Ahead
    <3> QED
      BY <3>2, <3>3
  <2> QED
    BY <1>7, <2>2, <2>3, <2>4, <2>5 DEF Moves
<1> QED
  BY <1>2, <1>5, <1>6, <1>7

LEMMA SweepEdited ==
    ASSUME TypeInv, SweepInv, NEW u, NEW ls, NEW f, Edited(u, ls, f) PROVE SweepInv'
  BY EditedIs DEF SweepInv
-----------------------------------------------------------------------------
(* A pull request and its one issue.                                       *)

Couple(p, i) == Group(p) = {p, i} /\ Group(i) = {p, i}

LEMMA CoupleIs ==
    ASSUME TypeInv, NEW p \in PRs, NEW i \in Issues, Couple(p, i)
    PROVE  /\ p # i /\ linked[p] = {i}
           /\ \A q \in PRs : i \in linked[q] => q = p
           /\ \A u \in Tickets : p \in Group(u) \/ i \in Group(u) <=> u \in {p, i}
           /\ \A u \in {p, i} : Group(u) = {p, i} /\ ~Unlinked(u) /\ Paired(u)
<1>1. p # i /\ p \in Tickets /\ i \in Tickets /\ p \notin Issues /\ i \notin PRs
  BY TicketsAssumption DEF Tickets
<1>2. Group(p) = {p, i} /\ Group(i) = {p, i}
  BY DEF Couple
<1>3. linked[p] \subseteq Issues /\ linked[p] \subseteq Group(p)
  BY DEF Group, LinksOf, TypeInv, TypeOK
<1>4. p \notin linked[p] /\ \A q \in PRs : p \notin linked[q]
  BY <1>1 DEF TypeInv, TypeOK
<1>5. i \in linked[p]
  <2>1. p = i \/ p \in LinksOf(i) \/ p \in {q \in PRs : i \in linked[q]}
    BY <1>2 DEF Group
  <2>2. LinksOf(i) = {}
    BY <1>1 DEF LinksOf
  <2> QED
    BY <1>1, <2>1, <2>2
<1>6. linked[p] = {i}
  BY <1>2, <1>3, <1>4, <1>5
<1>7. ASSUME NEW q \in PRs, i \in linked[q] PROVE q = p
  <2>1. q \in Group(i)
    BY <1>7 DEF Group
  <2> QED
    BY <1>1, <1>2, <2>1
<1>8. ASSUME NEW u \in Tickets, p \in Group(u) \/ i \in Group(u) PROVE u \in {p, i}
  <2>1. CASE p \in Group(u)
    <3>1. p = u \/ (u \in PRs /\ p \in linked[u]) \/ u \in linked[p]
      BY <2>1 DEF Group, LinksOf
    <3> QED
      BY <1>4, <1>6, <3>1
  <2>2. CASE i \in Group(u)
    <3>1. i = u \/ (u \in PRs /\ i \in linked[u])
      BY <1>1, <2>2 DEF Group, LinksOf
    <3> QED
      BY <1>7, <3>1
  <2> QED
    BY <1>8, <2>1, <2>2
<1>9. \A u \in {p, i} : Group(u) = {p, i} /\ ~Unlinked(u) /\ Paired(u)
  BY <1>1, <1>2 DEF Unlinked, Paired
<1> QED
  BY <1>1, <1>2, <1>6, <1>7, <1>8, <1>9

LEMMA PairedIs ==
    ASSUME TypeInv, NEW t \in Tickets, Paired(t)
    PROVE  \E p \in PRs, i \in Issues : Couple(p, i) /\ t \in {p, i}
<1>1. PICK u \in Tickets : u # t /\ Group(t) = {t, u} /\ Group(u) = {t, u}
  BY DEF Paired
<1>2. u \in LinksOf(t) \/ (u \in PRs /\ t \in linked[u])
  BY <1>1 DEF Group
<1>3. CASE u \in LinksOf(t)
  <2>1. t \in PRs /\ u \in Issues
    BY <1>3 DEF LinksOf, TypeInv, TypeOK
  <2> QED
    BY <1>1, <2>1 DEF Couple
<1>4. CASE u \in PRs /\ t \in linked[u]
  <2>1. t \in Issues
    BY <1>4 DEF TypeInv, TypeOK
  <2>2. Group(u) = {u, t} /\ Group(t) = {u, t}
    BY <1>1
  <2> QED
    BY <1>4, <2>1, <2>2 DEF Couple
<1> QED
  BY <1>2, <1>3, <1>4

LEMMA CoupleStays ==
    ASSUME linked' = linked, NEW p, NEW i
    PROVE  Couple(p, i)' <=> Couple(p, i)
  BY GroupStays DEF Couple

\* Something is asked of unlinked tickets and of couples only.
GroupInv == \A t \in Tickets : due[t] # Free => Unlinked(t) \/ Paired(t)

LEMMA PairedStays ==
    ASSUME linked' = linked, NEW t
    PROVE  Paired(t)' <=> Paired(t)
  BY GroupStays DEF Paired

LEMMA GroupInit == Init => GroupInv
<1> SUFFICES ASSUME Init, NEW t \in Tickets, due[t] # Free PROVE Unlinked(t) \/ Paired(t)
  BY DEF GroupInv
<1>1. due[t] = IF Unlinked(t) \/ Paired(t) THEN None ELSE Free
  BY DEF Init
<1> QED
  BY <1>1

LEMMA GroupWorks ==
    ASSUME TypeInv, GroupInv, Works PROVE GroupInv'
  BY WorksEnv, GroupStays, PairedStays DEF GroupInv

LEMMA GroupEdited ==
    ASSUME TypeInv, GroupInv, NEW u \in Tickets, NEW ls, NEW f, Edited(u, ls, f)
    PROVE  GroupInv'
<1>1. /\ UNCHANGED <<linked, synced, run>>
      /\ \A t \in Tickets : due'[t] = IF t \notin Group(u) THEN due[t]
                                      ELSE IF Quiet(u) THEN Wanted(u, ls, f) ELSE Free
  BY EditedIs
<1> SUFFICES ASSUME NEW t \in Tickets, due'[t] # Free PROVE Unlinked(t) \/ Paired(t)
  BY <1>1, GroupStays, PairedStays DEF GroupInv
<1>2. CASE t \notin Group(u)
  BY <1>1, <1>2 DEF GroupInv
<1>3. CASE t \in Group(u)
  <2>1. Wanted(u, ls, f) # Free
    BY <1>1, <1>3
  <2>2. CASE Unlinked(u)
    BY <1>3, <2>2 DEF Unlinked
  <2>3. CASE ~Unlinked(u)
    <3>1. Paired(u)
      BY <2>1, <2>3 DEF Wanted
    <3>2. PICK p \in PRs, i \in Issues : Couple(p, i) /\ u \in {p, i}
      BY <3>1, PairedIs
    <3> QED
      BY <1>3, <3>2, CoupleIs
  <2> QED
    BY <2>2, <2>3
<1> QED
  BY <1>2, <1>3

\* The pull request has the class, or is on its way to it; only an issue that
\* was read without one lets it inherit.
Leading(r, p, i, Lp) ==
    r.at = p =>
      /\ r.step # "adopt"
      /\ /\ r.step \in {"synced", "inherit"} /\ ClassOf(r.mem[p].labels) = None
         /\ ClassOf(r.mem[i].labels) # None
         => ClassOf(Lp) # None

Leads(p, i, d) == d # None /\ OnWay(d, p) /\ Leading(run[Sweep], p, i, labels[p])

\* The issue has it, and the pull request, which has none, inherits it if any:
\* nothing else is known of either, on the board or to the sweep.
Linking(d, L, r, m) ==
    /\ Writes(d, L, r, m) /\ LabelsDiffer(r.winner, m.labels)
    /\ r.step = "linkRemove" => KeptClass(L) = d \/ WRITEBACK_LABELS[r.winner] \subseteq L

Following(r, p, i, d, Lp, Li) ==
    /\ ClassOf(Lp) \in {None, d} /\ ClassOf(Li) \in {None, d}
    /\ Ahead(r, p) =>
         ClassOf(r.mem[p].labels) \in {None, d} /\ ClassOf(r.mem[i].labels) \in {None, d}
    /\ r.at = p =>
         /\ r.step \in {"field", "add", "remove", "state"} =>
              r.mem[p].labels \intersect KEEP_ALWAYS \subseteq Lp
         /\ r.step = "adopt" => Lp = r.mem[p].labels
         /\ r.step \in {"linkAdd", "linkRemove"} => Linking(d, Li, r, r.mem[i])

Follows(p, i, d) ==
    /\ OnWay(None, p) /\ OnWay(d, i)
    /\ Following(run[Sweep], p, i, d, labels[p], labels[i])

\* What is asked of a couple is asked of both, and comes from one or the other.
PairInv ==
    \A p \in PRs, i \in Issues : Couple(p, i) =>
        /\ due[i] = due[p]
        /\ due[p] # Free => Leads(p, i, due[p]) \/ Follows(p, i, due[p])

LEMMA PairInit == Init => PairInv
<1> SUFFICES ASSUME Init, NEW p \in PRs, NEW i \in Issues, Couple(p, i)
             PROVE  due[i] = None /\ due[p] = None /\ Follows(p, i, None)
  BY DEF PairInv
<1>1. TypeInv
  BY TypeInit
<1>2. Paired(p) /\ Paired(i) /\ p \in Tickets /\ i \in Tickets
  BY <1>1, CoupleIs, Apart
<1>3. due[i] = None /\ due[p] = None
  BY <1>2 DEF Init
<1>4. OnWay(None, p) /\ OnWay(None, i)
  BY <1>2, StartOnWay
<1>5. labels[p] = {} /\ labels[i] = {} /\ ClassOf({}) = None
  BY <1>2, ClassIs DEF Init
<1>6. run[Sweep] = NoRun /\ Sweep # p
  BY Apart DEF Init
<1>7. Following(NoRun, p, i, None, {}, {})
  BY <1>5, <1>6, NoRunIs DEF Following, Ahead
<1> QED
  BY <1>3, <1>4, <1>5, <1>6, <1>7 DEF Follows

\* Only the sweep has pull requests in hand.
LEMMA OnlySweep ==
    ASSUME SweepInv, NEW p \in PRs, NEW w \in Workers, run[w].at = p
    PROVE  w = Sweep
  BY Apart DEF SweepInv

LEMMA LeadingAway ==
    ASSUME NEW r, NEW p, NEW i, NEW L,
           r.at # p \/ r.step \notin {"synced", "inherit", "adopt"}
    PROVE  Leading(r, p, i, L)
  BY DEF Leading

\* The sweep's work on a pull request that is on its way to a class.
LEMMA LeadingWork ==
    ASSUME TypeInv, SweepInv, NEW p \in PRs, NEW i \in Issues, Couple(p, i),
           NEW d \in Classes, Leads(p, i, d), Sync(Sweep) \/ Push(Sweep), p = Tk(Sweep),
           ClassOf(labels[p]) # None => ClassOf(labels'[p]) # None
    PROVE  \E r : Turn(Sweep, r) /\ Leading(r, p, i, labels'[p])
<1>1. /\ Sweep \in Workers /\ p \in Tickets /\ Sweep # p
      /\ run[Sweep].at = p /\ run[Sweep].mem[p] = Mem(Sweep)
      /\ LinksOf(p) = {i}
  BY Apart, CoupleIs DEF Tk, Mem, LinksOf
<1>2. d # None /\ OnWay(d, p) /\ Leading(run[Sweep], p, i, labels[p])
  BY DEF Leads
<1> DEFINE Goal == \E r : Turn(Sweep, r) /\ Leading(r, p, i, labels'[p])
<1>3. ASSUME NEW r, Turn(Sweep, r),
             Done(Sweep, r) \/ r.step \notin {"synced", "inherit", "adopt"}
      PROVE  Goal
  <2>1. Leading(r, p, i, labels'[p])
    BY <1>1, <1>3, LeadingAway DEF Done
  <2> QED
    BY <1>3, <2>1
<1>4. ASSUME NEW r, Turn(Sweep, r), r.step = "synced", SameRead(Sweep, r),
             ClassOf(Mem(Sweep).labels) # None
      PROVE  Goal
  <2>1. Leading(r, p, i, labels'[p])
    BY <1>1, <1>4 DEF Leading, SameRead
  <2> QED
    BY <1>4, <2>1
<1>5. {AfterAdd(Sweep), AfterField(Sweep), FirstWrite(Sweep)}
        \subseteq {"field", "add", "remove", "state"}
  BY DEF AfterAdd, AfterField, FirstWrite
<1>6. CASE Decide(Sweep)
  <2>1. PICK r :
          /\ Turn(Sweep, r)
          /\ \/ Done(Sweep, r)
             \/ SameRead(Sweep, r) /\ r.step = "labels"
             \/ /\ SameRead(Sweep, r) /\ r.step = "synced"
                /\ ~NeedsWrite(Winner(Mem(Sweep)), Mem(Sweep))
                /\ LinksOf(Tk(Sweep)) # {} => Winner(Mem(Sweep)) # None
    BY <1>1, <1>6, DecideTurn
  <2>2. PICK c : c = Winner(Mem(Sweep))
    OBVIOUS
  <2>3. ~NeedsWrite(c, Mem(Sweep)) => c = ClassOf(Mem(Sweep).labels)
    BY NothingToWrite
  <2> QED
    BY <1>1, <1>3, <1>4, <2>1, <2>2, <2>3
<1>7. CASE RecheckLabels(Sweep)
  <2>1. PICK r :
          /\ Turn(Sweep, r)
          /\ \/ Done(Sweep, r)
             \/ SameHand(Sweep, r) /\ r.step = FirstWrite(Sweep)
             \/ /\ SameHand(Sweep, r) /\ r.step = "synced"
                /\ labels[Tk(Sweep)] = Mem(Sweep).labels
                /\ ~NeedsWrite(run[Sweep].winner, Mem(Sweep))
    BY <1>1, <1>7, RecheckTurn
  <2>2. PICK c : c = run[Sweep].winner
    OBVIOUS
  <2>3. PICK L : L = labels[p]
    OBVIOUS
  <2>4. run[Sweep].step = "labels" /\ L \in SUBSET OWNED_LABELS
    BY <1>1, <1>7, <2>3, TicketTypes DEF RecheckLabels, At
  <2>5. Checked(d, L, effect[p], run[Sweep], Mem(Sweep))
    BY <1>1, <1>2, <2>3, <2>4 DEF OnWay, Sound
  <2>6. ASSUME L = Mem(Sweep).labels, ~NeedsWrite(c, Mem(Sweep))
        PROVE  ClassOf(Mem(Sweep).labels) # None
    <3>1. c = ClassOf(Mem(Sweep).labels)
      BY <2>6, NothingToWrite
    <3>2. Lasting(c, L) = d
      BY <2>2, <2>5, <2>6 DEF Checked
    <3>3. Lasting(c, L) = c
      BY <2>4, <2>6, <3>1, LastingOfClass
    <3> QED
      BY <1>2, <3>1, <3>2, <3>3
  <2>7. CASE /\ SameHand(Sweep, r) /\ r.step = "synced"
             /\ labels[Tk(Sweep)] = Mem(Sweep).labels
             /\ ~NeedsWrite(run[Sweep].winner, Mem(Sweep))
    BY <1>4, <2>1, <2>2, <2>3, <2>6, <2>7 DEF SameHand
  <2>8. CASE r.step = FirstWrite(Sweep)
    <3>1. r.step \notin {"synced", "inherit", "adopt"}
      BY <1>5, <2>8
    <3> QED
      BY <1>3, <2>1, <3>1
  <2> QED
    BY <1>3, <2>1, <2>7, <2>8
<1>8. CASE WriteField(Sweep) \/ AddLabels(Sweep) \/ RemoveLabels(Sweep)
  <2>1. PICK r : Turn(Sweep, r) /\ r.step \in {AfterField(Sweep), AfterAdd(Sweep), "state"}
    BY <1>1, <1>8, WriteFieldTurn, AddTurn, RemoveTurn
  <2>2. r.step \notin {"synced", "inherit", "adopt"}
    BY <1>5, <2>1
  <2> QED
    BY <1>3, <2>1, <2>2
<1>9. CASE WriteState(Sweep)
  <2>1. run[Sweep].step = "state" /\ labels' = labels
    BY <1>1, <1>9, StateSurfaces
  <2>2. Sound(d, labels[p], effect[p], run[Sweep], Mem(Sweep))
    BY <1>1, <1>2 DEF OnWay
  <2>3. ClassOf(labels'[p]) # None
    BY <1>2, <2>1, <2>2 DEF Sound
  <2>4. PICK r : Turn(Sweep, r) /\ r.step = "synced"
    BY <1>1, <1>9, StateTurn
  <2>5. Leading(r, p, i, labels'[p])
    BY <2>3, <2>4 DEF Leading
  <2> QED
    BY <2>4, <2>5
<1>10. CASE Propagate(Sweep)
  <2>1. run[Sweep].step = "synced" /\ labels'[p] = labels[p]
    BY <1>1, <1>10, PropagateTurn DEF Propagate, At, Surfaces
  <2>2. PICK r : /\ Turn(Sweep, r)
                 /\ \/ Done(Sweep, r)
                    \/ SameRead(Sweep, r) /\ r.step \in {"inherit", "spread"}
    BY <1>1, <1>10, PropagateTurn
  <2>3. CASE SameRead(Sweep, r) /\ r.step \in {"inherit", "spread"}
    <3>1. Leading(r, p, i, labels'[p])
      BY <1>1, <1>2, <2>1, <2>3 DEF Leading, SameRead
    <3> QED
      BY <2>2, <3>1
  <2> QED
    BY <1>3, <2>2, <2>3
<1>11. CASE RecheckInherit(Sweep)
  <2>1. run[Sweep].step = "inherit"
    BY <1>11 DEF RecheckInherit, At
  <2>2. PICK r : /\ Turn(Sweep, r)
                 /\ \/ Done(Sweep, r)
                    \/ SameHand(Sweep, r) /\ labels[Tk(Sweep)] = Mem(Sweep).labels
    BY <1>1, <1>11, RecheckInheritTurn
  <2>3. Reading(run[Sweep], p, synced[p], linked[p]) /\ linked[p] = {i}
    BY CoupleIs DEF SweepInv
  <2>4. /\ ClassOf(Mem(Sweep).labels) = None
        /\ ClassOf(run[Sweep].mem[i].labels) # None
    BY <1>1, <2>1, <2>3 DEF Reading
  <2>5. ClassOf(labels[p]) # None
    BY <1>1, <1>2, <2>1, <2>4 DEF Leading
  <2>6. labels[Tk(Sweep)] # Mem(Sweep).labels
    BY <2>4, <2>5
  <2> QED
    BY <1>3, <2>2, <2>6
<1>12. CASE Adopt(Sweep)
  <2>1. run[Sweep].step = "adopt"
    BY <1>12 DEF Adopt, At
  <2> QED
    BY <1>1, <1>2, <2>1 DEF Leading
<1>13. CASE (\E j \in Issues : Spread(Sweep, j)) \/ SpreadEnd(Sweep)
  <2>1. PICK r : /\ Turn(Sweep, r)
                 /\ \/ Done(Sweep, r)
                    \/ r.step \in {"spread", "linkAdd", "linkRemove", "decide"}
    BY <1>1, <1>13, SpreadTurn, SpreadEndTurn
  <2> QED
    BY <1>3, <2>1
<1>14. CASE LinkAdd(Sweep) \/ LinkRemove(Sweep)
  <2>1. PICK j : j = run[Sweep].link
    OBVIOUS
  <2>2. PICK L : L = labels[j] \union Added(run[Sweep].winner, LinkRead(Sweep, j))
    OBVIOUS
  <2>3. PICK K : K = labels[j] \ Stripped(run[Sweep].winner, LinkRead(Sweep, j))
    OBVIOUS
  <2>4. PICK r : Turn(Sweep, r) /\ r.step \in {"spread", "linkRemove"}
    BY <1>1, <1>14, <2>1, <2>2, <2>3, LinkAddTurn, LinkRemoveTurn
  <2> QED
    BY <1>3, <2>4
<1> QED
  BY <1>6, <1>7, <1>8, <1>9, <1>10, <1>11, <1>12, <1>13, <1>14 DEF Sync, Push

LEMMA LeadsWorks ==
    ASSUME TypeInv, TypeInv', SweepInv, Works,
           NEW p \in PRs, NEW i \in Issues, Couple(p, i), NEW d \in Classes, Leads(p, i, d)
    PROVE  Leads(p, i, d)'
<1>1. d # None /\ OnWay(d, p) /\ Leading(run[Sweep], p, i, labels[p]) /\ p \in Tickets
  BY Apart DEF Leads
<1>2. ASSUME NEW w \in Workers, PushedTo(w, p) PROVE FALSE
  <2>1. Tk(w) = p /\ run[w].step = "adopt"
    BY <1>1, <1>2, PushedToPaired, Apart
  <2>2. w = Sweep
    BY <2>1, OnlySweep DEF Tk
  <2> QED
    BY <1>1, <2>1, <2>2 DEF Leading, Tk
<1>3. Nears(d, p)
  BY <1>1, <1>2, WorksNears
<1>4. OnWay(d, p)' /\ (ClassOf(labels[p]) # None => ClassOf(labels'[p]) # None)
  BY <1>1, <1>3 DEF Nears, Toward
<1>5. PICK w \in Workers : /\ \A v \in Workers : v # w => run'[v] = run[v]
                           /\ Sync(w) \/ Push(w) \/ (Passes(w) /\ Moves(w))
  BY WorksMoves
<1> SUFFICES Leading(run'[Sweep], p, i, labels'[p])
  BY <1>1, <1>4 DEF Leads
<1>6. CASE w # Sweep
  <2>1. run'[Sweep] = run[Sweep]
    BY <1>5, <1>6, Apart
  <2> QED
    BY <1>1, <1>4, <2>1 DEF Leading
<1>7. CASE w = Sweep /\ Moves(w)
  <2>1. run'[Sweep].step \in {"idle", "prs", "issues", "decide"}
    BY <1>7, NoRunIs, StartReads, NextTakes, FetchReads DEF Moves
  <2> QED
    BY <2>1, LeadingAway
<1>8. CASE w = Sweep /\ (Sync(w) \/ Push(w)) /\ Tk(w) # p
  <2>1. PICK r : Turn(Sweep, r) /\ (Done(Sweep, r) \/ Stays(Sweep, r))
    BY <1>8, WorkTurn
  <2>2. r.at # p
    BY <1>8, <2>1, Apart DEF Done, Stays, Tk
  <2> QED
    BY <2>1, <2>2, TurnIs, Apart, LeadingAway
<1>9. CASE w = Sweep /\ (Sync(w) \/ Push(w)) /\ Tk(w) = p
  <2>1. PICK r : Turn(Sweep, r) /\ Leading(r, p, i, labels'[p])
    BY <1>4, <1>9, LeadingWork
  <2> QED
    BY <2>1, TurnIs, Apart
<1> QED
  BY <1>5, <1>6, <1>7, <1>8, <1>9

\* What the sweep spreads to the issue leads it there.
LEMMA LinkNears ==
    ASSUME TypeInv, TypeInv', NEW p \in PRs, NEW i \in Issues, NEW d \in Classes,
           OnWay(d, i), run[Sweep].at = p, run[Sweep].link = i,
           run[Sweep].step \in {"linkAdd", "linkRemove"}
             => Linking(d, labels[i], run[Sweep], run[Sweep].mem[i]),
           LinkAdd(Sweep) \/ LinkRemove(Sweep)
    PROVE  /\ Nears(d, i)
           /\ LinkAdd(Sweep) => \/ KeptClass(labels'[i]) = d
                                \/ WRITEBACK_LABELS[run[Sweep].winner] \subseteq labels'[i]
<1>1. Sweep \in Workers /\ i \in Tickets /\ p \in Tickets /\ p # i
  BY Apart
<1>2. PICK m : m = run[Sweep].mem[i]
  OBVIOUS
<1>3. PICK q : q = run[Sweep]
  OBVIOUS
<1>4. PICK L : L = labels[i]
  OBVIOUS
<1>5. /\ L \in SUBSET OWNED_LABELS /\ q.winner \in Classes /\ m \in Images
      /\ effect[i] \in Classes /\ synced[i] \in Classes
      /\ Heads(d, L, effect[i], synced[i])
  BY <1>1, <1>2, <1>3, <1>4, TicketTypes DEF OnWay
<1>6. q.step \in {"linkAdd", "linkRemove"}
  BY <1>3 DEF LinkAdd, LinkRemove, At
<1>7. Writes(d, L, q, m) /\ LabelsDiffer(q.winner, m.labels)
  BY <1>2, <1>3, <1>4, <1>6 DEF Linking
<1>8. ASSUME NEW r, Turn(Sweep, r), SameHand(Sweep, r), UNCHANGED <<effect, synced, Env>>,
             Toward(d, L, labels'[i]), labels'[i] \in SUBSET OWNED_LABELS
      PROVE  Nears(d, i)
  <2>1. r.at # i
    BY <1>1, <1>8 DEF SameHand, SameRead
  <2>2. effect'[i] = effect[i] /\ synced'[i] = synced[i] /\ UNCHANGED Env
    BY <1>8
  <2>3. Heads(d, labels'[i], effect'[i], synced'[i])
    BY <1>5, <1>8, <2>2, HeadsTowards
  <2> QED
    BY <1>1, <1>4, <1>8, <2>1, <2>2, <2>3, TurnNears
<1>9. CASE LinkAdd(Sweep)
  <2>1. PICK L2 : L2 = labels[i] \union Added(run[Sweep].winner, LinkRead(Sweep, i))
    OBVIOUS
  <2>2. /\ UNCHANGED <<effect, synced, Env>>
        /\ \E r : Turn(Sweep, r) /\ SameHand(Sweep, r)
        /\ L2 \in SUBSET OWNED_LABELS /\ SetLabels(i, L2)
    BY <1>1, <1>9, <2>1, LinkAddTurn
  <2>3. labels'[i] = L2
    BY <1>1, <2>2, LabelsType
  <2>4. L2 = Adding(L, q, m)
    BY <1>2, <1>3, <1>4, <2>1 DEF Adding, LinkRead
  <2>5. Onward(d, L, q, L2)
    BY <1>5, <1>7, <2>4, AddOnward
  <2>6. /\ Toward(d, L, labels'[i]) /\ labels'[i] \in SUBSET OWNED_LABELS
        /\ KeptClass(labels'[i]) = d \/ WRITEBACK_LABELS[q.winner] \subseteq labels'[i]
    BY <2>3, <2>5 DEF Onward
  <2> QED
    BY <1>3, <1>8, <2>2, <2>6
<1>10. CASE LinkRemove(Sweep)
  <2>1. PICK L2 : L2 = labels[i] \ Stripped(run[Sweep].winner, LinkRead(Sweep, i))
    OBVIOUS
  <2>2. /\ UNCHANGED <<effect, synced, Env>> /\ run[Sweep].step = "linkRemove"
        /\ \E r : Turn(Sweep, r) /\ SameHand(Sweep, r)
        /\ L2 \in SUBSET OWNED_LABELS /\ SetLabels(i, L2)
    BY <1>1, <1>10, <2>1, LinkRemoveTurn
  <2>3. labels'[i] = L2
    BY <1>1, <2>2, LabelsType
  <2>4. L2 = L \ Stripped(q.winner, m.labels)
    BY <1>2, <1>3, <1>4, <2>1 DEF LinkRead
  <2>5. KeptClass(L) = d \/ WRITEBACK_LABELS[q.winner] \subseteq L
    BY <1>2, <1>3, <1>4, <2>2 DEF Linking
  <2>6. Toward(d, L, labels'[i]) /\ labels'[i] \in SUBSET OWNED_LABELS
    BY <1>5, <1>7, <2>3, <2>4, <2>5, RemoveTowards
  <2>7. ~LinkAdd(Sweep)
    BY <2>2 DEF LinkAdd, At
  <2> QED
    BY <1>8, <2>2, <2>6, <2>7
<1> QED
  BY <1>9, <1>10

LEMMA FollowsNears ==
    ASSUME TypeInv, TypeInv', SweepInv, Works,
           NEW p \in PRs, NEW i \in Issues, Couple(p, i), NEW d \in Classes, Follows(p, i, d),
           ~(Adopt(Sweep) /\ Tk(Sweep) = p)
    PROVE  Nears(None, p) /\ Nears(d, i)
<1>1. /\ p \in Tickets /\ i \in Tickets /\ i \notin PRs /\ p \notin Issues
      /\ None \in Classes /\ Sweep \in Workers
  BY Apart DEF Classes
<1>2. OnWay(None, p) /\ OnWay(d, i)
      /\ Following(run[Sweep], p, i, d, labels[p], labels[i])
  BY DEF Follows
<1>3. ASSUME NEW w \in Workers, PushedTo(w, p) PROVE FALSE
  <2>1. Tk(w) = p /\ Adopt(w)
    BY <1>1, <1>3, PushedToPaired
  <2> QED
    BY <2>1, OnlySweep DEF Tk
<1>4. Nears(None, p)
  BY <1>1, <1>2, <1>3, WorksNears
<1>5. CASE \E w \in Workers : PushedTo(w, i)
  <2>1. PICK w \in Workers : PushedTo(w, i)
    BY <1>5
  <2>2. /\ Tk(w) \in PRs /\ i \in linked[Tk(w)] /\ run[w].link = i
        /\ LinkAdd(w) \/ LinkRemove(w)
    BY <1>1, <2>1, PushedToPaired
  <2>3. Tk(w) = p
    BY <2>2, CoupleIs
  <2>4. w = Sweep
    BY <2>3, OnlySweep DEF Tk
  <2>5. run[Sweep].at = p /\ run[Sweep].link = i /\ (LinkAdd(Sweep) \/ LinkRemove(Sweep))
    BY <2>2, <2>3, <2>4 DEF Tk
  <2>6. run[Sweep].step \in {"linkAdd", "linkRemove"}
          => Linking(d, labels[i], run[Sweep], run[Sweep].mem[i])
    BY <1>2, <2>5 DEF Following
  <2> QED
    BY <1>2, <1>4, <2>5, <2>6, LinkNears
<1>6. CASE \A w \in Workers : ~PushedTo(w, i)
  BY <1>1, <1>2, <1>4, <1>6, WorksNears
<1> QED
  BY <1>5, <1>6

\* The pull request inherits the class of the issue.
LEMMA AdoptLeads ==
    ASSUME TypeInv, TypeInv', SweepInv, SweepInv', Adopt(Sweep),
           NEW p \in PRs, Tk(Sweep) = p, NEW i \in Issues, Couple(p, i),
           NEW d \in Classes, Follows(p, i, d)
    PROVE  Leads(p, i, d)'
<1>1. /\ Sweep \in Workers /\ p \in Tickets /\ run[Sweep].at = p /\ linked[p] = {i}
      /\ Mem(Sweep) = run[Sweep].mem[p]
  BY Apart, CoupleIs DEF Tk, Mem
<1>2. PICK c : c = run[Sweep].winner
  OBVIOUS
<1>3. PICK L : L = labels[p]
  OBVIOUS
<1>4. PICK L2 : L2 = labels[Tk(Sweep)]
                       \union (WRITEBACK_LABELS[run[Sweep].winner] \ Mem(Sweep).labels)
  OBVIOUS
<1>5. /\ UNCHANGED <<effect, synced, Env>> /\ run[Sweep].step = "adopt"
      /\ \E r : Turn(Sweep, r) /\ r.step = "spread"
      /\ SetLabels(Tk(Sweep), L2) /\ L2 \in SUBSET OWNED_LABELS
  BY <1>1, <1>4, AdoptTurn
<1>6. Following(run[Sweep], p, i, d, labels[p], labels[i])
  BY DEF Follows
<1>7. /\ L = Mem(Sweep).labels
      /\ ClassOf(run[Sweep].mem[i].labels) \in {None, d}
  BY <1>1, <1>3, <1>5, <1>6 DEF Following, Ahead
<1>8. Reading(run[Sweep], p, synced[p], linked[p])
  BY DEF SweepInv
<1>9. /\ ClassOf(Mem(Sweep).labels) = None /\ c # None
      /\ c = ClassOf(run[Sweep].mem[i].labels)
      /\ synced[p] = None
  BY <1>1, <1>2, <1>5, <1>8 DEF Reading, Ahead
<1>10. c = d /\ d # None
  BY <1>7, <1>9
<1>11. L = {}
  BY <1>1, <1>3, <1>7, <1>9, NoClass, TicketTypes
<1>12. L2 = WRITEBACK_LABELS[d]
  BY <1>1, <1>2, <1>3, <1>4, <1>7, <1>10, <1>11
<1>13. labels'[p] = L2
  BY <1>1, <1>5, LabelsType
<1>14. ClassOf(L2) = d
  BY <1>12, ClassOfWriteback
<1>15. synced'[p] = None
  BY <1>5, <1>9
<1>16. Lasting(d, L2) = d
  BY <1>5, <1>14, LastingOfClass
<1>17. Heads(d, L2, effect'[p], None)
  BY <1>10, <1>14, <1>16 DEF Heads, Resolve
<1>18. Heads(d, labels'[p], effect'[p], synced'[p])
  BY <1>13, <1>15, <1>17
<1>19. run'[Sweep].step = "spread"
  BY <1>1, <1>5, TurnIs
<1>20. ASSUME NEW w \in Workers, run'[w].at = p
       PROVE  Sound(d, labels'[p], effect'[p], run'[w], run'[w].mem[p])
  <2>1. w = Sweep
    BY <1>20, Apart DEF SweepInv
  <2>2. run'[w].step \notin {"labels", "field", "add", "remove", "state"}
    BY <1>19, <2>1
  <2> QED
    BY <2>2, IdleSound
<1>21. OnWay(d, p)'
  BY <1>18, <1>20 DEF OnWay
<1>22. Leading(run'[Sweep], p, i, labels'[p])
  BY <1>19, LeadingAway
<1> QED
  BY <1>10, <1>21, <1>22 DEF Leads

\* A pull request that is on its way to no class, with nothing of a kept one, is
\* written none.
LEMMA NoneWritten ==
    ASSUME NEW L \in SUBSET OWNED_LABELS, ClassOf(L) = None,
           NEW r, r.winner \in Classes, NEW m \in Images, Writes(None, L, r, m),
           m.labels \intersect KEEP_ALWAYS \subseteq L
    PROVE  (m.labels \ (OWNED_LABELS \ KEEP_ALWAYS)) \union WRITEBACK_LABELS[r.winner] = {}
<1>1. L = {}
  BY NoClass
<1>2. m.labels \subseteq OWNED_LABELS
  BY DEF Images
<1>3. m.labels \ (OWNED_LABELS \ KEEP_ALWAYS) = {}
  BY <1>1, <1>2
<1>4. None \in Classes /\ Rank[None] = 9 /\ Rank[r.winner] \in 1..9
  BY RankOrder DEF Classes
<1>5. Lasting(r.winner, L) = None
  BY DEF Writes
<1>6. Rank[None] <= Rank[r.winner]
  BY <1>4, <1>5, LastingIs
<1>7. Rank[r.winner] = Rank[None]
  BY <1>4, <1>6
<1>8. r.winner = None
  BY <1>4, <1>7, RankOrder
<1> QED
  BY <1>3, <1>8, WritebackIs

\* The sweep's work on a pull request that follows its issue.
LEMMA FollowingWork ==
    ASSUME TypeInv, TypeInv', SweepInv, NEW p \in PRs, NEW i \in Issues, Couple(p, i),
           NEW d \in Classes, Follows(p, i, d), Sync(Sweep) \/ Push(Sweep), p = Tk(Sweep),
           ~Adopt(Sweep), Nears(None, p), Nears(d, i)
    PROVE  \E r : Turn(Sweep, r) /\ Following(r, p, i, d, labels'[p], labels'[i])
<1>1. /\ Sweep \in Workers /\ p \in Tickets /\ i \in Tickets /\ p # i /\ Sweep # p
      /\ run[Sweep].at = p /\ run[Sweep].mem[p] = Mem(Sweep) /\ linked[p] = {i}
      /\ p \notin run[Sweep].todo
  BY Apart, CoupleIs DEF Tk, Mem, SweepInv, Phases
<1>2. /\ OnWay(None, p) /\ OnWay(d, i)
      /\ Following(run[Sweep], p, i, d, labels[p], labels[i])
  BY DEF Follows
<1>3. /\ ClassOf(labels'[p]) \in {None, d} /\ ClassOf(labels'[i]) \in {None, d}
      /\ ClassOf(Mem(Sweep).labels) \in {None, d}
      /\ ClassOf(run[Sweep].mem[i].labels) \in {None, d}
  BY <1>1, <1>2 DEF Following, Ahead, Nears, Toward
<1> DEFINE Goal == \E r : Turn(Sweep, r) /\ Following(r, p, i, d, labels'[p], labels'[i])
<1>4. ASSUME NEW r, Turn(Sweep, r), Done(Sweep, r) PROVE Goal
  <2>1. r.at # p /\ p \notin r.todo
    BY <1>1, <1>4 DEF Done
  <2>2. Following(r, p, i, d, labels'[p], labels'[i])
    BY <1>3, <2>1 DEF Following, Ahead
  <2> QED
    BY <1>4, <2>2
<1>5. ASSUME NEW r, Turn(Sweep, r), SameRead(Sweep, r),
             r.step \in {"labels", "synced", "inherit", "spread", "decide"}
      PROVE  Goal
  <2>1. Following(r, p, i, d, labels'[p], labels'[i])
    BY <1>1, <1>3, <1>5 DEF Following, Ahead, SameRead
  <2> QED
    BY <1>5, <2>1
<1>6. ASSUME NEW r, Turn(Sweep, r), SameRead(Sweep, r),
             r.step \in {"field", "add", "remove", "state"},
             Mem(Sweep).labels \intersect KEEP_ALWAYS \subseteq labels'[p]
      PROVE  Goal
  <2>1. Following(r, p, i, d, labels'[p], labels'[i])
    BY <1>1, <1>3, <1>6 DEF Following, Ahead, SameRead
  <2> QED
    BY <1>6, <2>1
<1>7. {AfterAdd(Sweep), AfterField(Sweep), FirstWrite(Sweep)}
        \subseteq {"field", "add", "remove", "state"}
  BY DEF AfterAdd, AfterField, FirstWrite
<1>8. run[Sweep].step \in {"field", "add", "remove", "state"}
        => Mem(Sweep).labels \intersect KEEP_ALWAYS \subseteq labels[p]
  BY <1>1, <1>2 DEF Following
<1>9. CASE Decide(Sweep)
  <2>1. PICK r : /\ Turn(Sweep, r)
                 /\ \/ Done(Sweep, r)
                    \/ SameRead(Sweep, r) /\ r.step \in {"labels", "synced"}
    BY <1>1, <1>9, DecideTurn
  <2> QED
    BY <1>4, <1>5, <2>1
<1>10. CASE RecheckLabels(Sweep)
  <2>1. labels'[p] = labels[p]
    BY <1>1, <1>10, RecheckTurn DEF Surfaces
  <2>2. PICK r :
          /\ Turn(Sweep, r)
          /\ \/ Done(Sweep, r)
             \/ SameRead(Sweep, r) /\ r.step = FirstWrite(Sweep) /\ labels[p] = Mem(Sweep).labels
             \/ SameRead(Sweep, r) /\ r.step = "synced"
    BY <1>1, <1>10, RecheckTurn DEF SameHand
  <2>3. CASE /\ SameRead(Sweep, r) /\ r.step = FirstWrite(Sweep)
             /\ labels[p] = Mem(Sweep).labels
    <3>1. Mem(Sweep).labels \intersect KEEP_ALWAYS \subseteq labels'[p]
      BY <2>1, <2>3
    <3>2. r.step \in {"field", "add", "remove", "state"}
      BY <1>7, <2>3
    <3> QED
      BY <1>6, <2>2, <2>3, <3>1, <3>2
  <2> QED
    BY <1>4, <1>5, <2>2, <2>3
<1>11. CASE WriteField(Sweep)
  <2>1. run[Sweep].step = "field" /\ labels' = labels
    BY <1>1, <1>11, WriteFieldSurfaces
  <2>2. PICK r : Turn(Sweep, r) /\ SameRead(Sweep, r) /\ r.step = AfterField(Sweep)
    BY <1>1, <1>11, WriteFieldTurn DEF SameHand
  <2>3. r.step \in {"field", "add", "remove", "state"}
    BY <1>7, <2>2
  <2>4. Mem(Sweep).labels \intersect KEEP_ALWAYS \subseteq labels'[p]
    BY <1>8, <2>1
  <2> QED
    BY <1>6, <2>2, <2>3, <2>4
<1>12. CASE AddLabels(Sweep)
  <2>1. run[Sweep].step = "add" /\ labels[p] \subseteq labels'[p]
    BY <1>1, <1>12, AddSurfaces
  <2>2. PICK r : Turn(Sweep, r) /\ SameRead(Sweep, r) /\ r.step = AfterAdd(Sweep)
    BY <1>1, <1>12, AddTurn DEF SameHand
  <2>3. r.step \in {"field", "add", "remove", "state"}
    BY <1>7, <2>2
  <2>4. Mem(Sweep).labels \intersect KEEP_ALWAYS \subseteq labels'[p]
    BY <1>8, <2>1
  <2> QED
    BY <1>6, <2>2, <2>3, <2>4
<1>13. CASE RemoveLabels(Sweep)
  <2>1. /\ run[Sweep].step = "remove"
        /\ labels'[p] = labels[p] \ Stripped(run[Sweep].winner, Mem(Sweep).labels)
    BY <1>1, <1>13, RemoveSurfaces
  <2>2. \A c, M : Stripped(c, M) \intersect KEEP_ALWAYS = {}
    BY DEF Stripped
  <2>3. PICK r : Turn(Sweep, r) /\ SameRead(Sweep, r) /\ r.step = "state"
    BY <1>1, <1>13, RemoveTurn DEF SameHand
  <2>4. Stripped(run[Sweep].winner, Mem(Sweep).labels) \intersect KEEP_ALWAYS = {}
    BY <2>2
  <2>5. Mem(Sweep).labels \intersect KEEP_ALWAYS \subseteq labels'[p]
    BY <1>8, <2>1, <2>4
  <2> QED
    BY <1>6, <2>3, <2>5
<1>14. CASE WriteState(Sweep)
  <2>1. run[Sweep].step = "state" /\ labels' = labels
    BY <1>1, <1>14, StateSurfaces
  <2>2. PICK q : q = run[Sweep]
    OBVIOUS
  <2>3. PICK m : m = Mem(Sweep)
    OBVIOUS
  <2>4. PICK L : L = labels[p]
    OBVIOUS
  <2>5. q.winner \in Classes /\ m \in Images /\ L \in SUBSET OWNED_LABELS
    BY <1>1, <2>1, <2>2, <2>3, <2>4, HandType
  <2>6. Writes(None, L, q, m) /\ ClassOf(L) = None
    BY <1>1, <1>2, <2>1, <2>2, <2>3, <2>4 DEF OnWay, Sound
  <2>7. m.labels \intersect KEEP_ALWAYS \subseteq L
    BY <1>8, <2>1, <2>3, <2>4
  <2>8. PICK r : /\ Turn(Sweep, r) /\ Stays(Sweep, r) /\ r.step = "synced"
                 /\ r.mem[Tk(Sweep)] =
                      [labels |-> (Mem(Sweep).labels \ (OWNED_LABELS \ KEEP_ALWAYS))
                                     \union WRITEBACK_LABELS[run[Sweep].winner],
                       effect |-> run[Sweep].winner, synced |-> run[Sweep].winner]
    BY <1>1, <1>14, StateTurn
  <2>9. r.mem[p].labels = (m.labels \ (OWNED_LABELS \ KEEP_ALWAYS))
                             \union WRITEBACK_LABELS[q.winner]
    BY <2>2, <2>3, <2>8
  <2>10. r.mem[p].labels = {}
    BY <2>5, <2>6, <2>7, <2>9, NoneWritten
  <2>11. ClassOf(r.mem[p].labels) = None
    BY <2>10, ClassIs
  <2>12. r.mem[i] = run[Sweep].mem[i] /\ r.at = p
    BY <1>1, <2>8 DEF Stays
  <2>13. Following(r, p, i, d, labels'[p], labels'[i])
    BY <1>3, <2>8, <2>11, <2>12 DEF Following
  <2> QED
    BY <2>8, <2>13
<1>15. CASE Propagate(Sweep)
  <2>1. PICK r : /\ Turn(Sweep, r)
                 /\ \/ Done(Sweep, r)
                    \/ SameRead(Sweep, r) /\ r.step \in {"inherit", "spread"}
    BY <1>1, <1>15, PropagateTurn
  <2> QED
    BY <1>4, <1>5, <2>1
<1>16. CASE RecheckInherit(Sweep)
  <2>1. labels'[p] = labels[p]
    BY <1>1, <1>16, RecheckInheritTurn DEF Surfaces
  <2>2. PICK r : /\ Turn(Sweep, r)
                 /\ \/ Done(Sweep, r)
                    \/ /\ SameRead(Sweep, r) /\ r.step = "adopt"
                       /\ labels[Tk(Sweep)] = Mem(Sweep).labels
    BY <1>1, <1>16, RecheckInheritTurn DEF SameHand
  <2>3. CASE /\ SameRead(Sweep, r) /\ r.step = "adopt"
             /\ labels[Tk(Sweep)] = Mem(Sweep).labels
    <3>1. Following(r, p, i, d, labels'[p], labels'[i])
      BY <1>1, <1>3, <2>1, <2>3 DEF Following, Ahead, SameRead
    <3> QED
      BY <2>2, <3>1
  <2> QED
    BY <1>4, <2>2, <2>3
<1>17. CASE \E j \in Issues : Spread(Sweep, j)
  <2>1. PICK j \in Issues : Spread(Sweep, j)
    BY <1>17
  <2>2. run[Sweep].step = "spread" /\ j = i /\ labels'[i] = labels[i]
    BY <1>1, <2>1, SpreadTurn DEF Surfaces
  <2>3. PICK r : /\ Turn(Sweep, r) /\ SameHand(Sweep, r)
                 /\ \/ r.step = "spread"
                    \/ /\ r.step \in {"linkAdd", "linkRemove"} /\ r.link = i
                       /\ LabelsDiffer(r.winner, r.mem[i].labels)
                       /\ labels[i] = r.mem[i].labels
                       /\ r.step = "linkRemove" => Added(r.winner, r.mem[i].labels) = {}
    BY <1>1, <2>1, <2>2, SpreadTurn
  <2>4. CASE r.step = "spread"
    BY <1>5, <2>3, <2>4 DEF SameHand
  <2>5. CASE /\ r.step \in {"linkAdd", "linkRemove"}
             /\ LabelsDiffer(r.winner, r.mem[i].labels)
             /\ labels[i] = r.mem[i].labels
             /\ r.step = "linkRemove" => Added(r.winner, r.mem[i].labels) = {}
    <3>1. PICK m : m = r.mem[i]
      OBVIOUS
    <3>2. PICK L : L = labels[i]
      OBVIOUS
    <3>3. Reading(run[Sweep], p, synced[p], linked[p])
      BY DEF SweepInv
    <3>4. r.winner = ClassOf(Mem(Sweep).labels) /\ r.winner # None
      BY <1>1, <2>2, <2>3, <3>3 DEF Reading, SameHand
    <3>5. r.winner = d
      BY <1>3, <3>4
    <3>6. /\ L \in SUBSET OWNED_LABELS /\ effect[i] \in Classes /\ synced[i] \in Classes
          /\ Heads(d, L, effect[i], synced[i]) /\ ClassOf(L) \in Classes
      BY <1>1, <1>2, <3>2, TicketTypes, ClassIs DEF OnWay
    <3>7. Resolve(ClassOf(L), effect[i], synced[i]) \in Classes
      BY <3>6, ResolveIn
    <3>8. Lasting(d, L) = d
      BY <3>6, <3>7, LastingOfLasting DEF Heads
    <3>9. Writes(d, L, r, m)
      BY <2>5, <3>1, <3>2, <3>5, <3>8 DEF Writes
    <3>10. r.step = "linkRemove" => WRITEBACK_LABELS[r.winner] \subseteq L
      BY <2>5, <3>1, <3>2 DEF Added
    <3>11. Linking(d, labels'[i], r, r.mem[i])
      BY <2>2, <2>5, <3>1, <3>2, <3>9, <3>10 DEF Linking
    <3>12. r.at = p /\ r.mem = run[Sweep].mem /\ r.step \in {"linkAdd", "linkRemove"}
      BY <1>1, <2>3, <2>5 DEF SameHand, SameRead
    <3>13. Following(r, p, i, d, labels'[p], labels'[i])
      BY <1>1, <1>3, <3>11, <3>12 DEF Following
    <3> QED
      BY <2>3, <3>13
  <2> QED
    BY <2>3, <2>4, <2>5
<1>18. CASE LinkAdd(Sweep)
  <2>1. PICK j : j = run[Sweep].link
    OBVIOUS
  <2>2. PICK K : K = labels[j] \union Added(run[Sweep].winner, LinkRead(Sweep, j))
    OBVIOUS
  <2>3. /\ run[Sweep].step = "linkAdd" /\ j \in linked[Tk(Sweep)]
        /\ \E r : Turn(Sweep, r) /\ SameHand(Sweep, r) /\ r.step \in {"spread", "linkRemove"}
    BY <1>1, <1>18, <2>1, <2>2, LinkAddTurn
  <2>4. PICK r : Turn(Sweep, r) /\ SameHand(Sweep, r) /\ r.step \in {"spread", "linkRemove"}
    BY <2>3
  <2>5. run[Sweep].link = i
    BY <1>1, <2>1, <2>3
  <2>6. CASE r.step = "spread"
    BY <1>5, <2>4, <2>6 DEF SameHand
  <2>7. CASE r.step = "linkRemove"
    <3>1. Linking(d, labels[i], run[Sweep], run[Sweep].mem[i])
      BY <1>1, <1>2, <2>3 DEF Following
    <3>2. KeptClass(labels'[i]) = d \/ WRITEBACK_LABELS[run[Sweep].winner] \subseteq labels'[i]
      BY <1>1, <1>2, <1>18, <2>5, <3>1, LinkNears
    <3>3. PICK m : m = run[Sweep].mem[i]
      OBVIOUS
    <3>4. PICK L : L = labels[i]
      OBVIOUS
    <3>5. PICK L2 : L2 = labels'[i]
      OBVIOUS
    <3>6. PICK q : q = run[Sweep]
      OBVIOUS
    <3>7. /\ L \in SUBSET OWNED_LABELS /\ L2 \in SUBSET OWNED_LABELS
          /\ q.winner \in Classes /\ m \in Images
      BY <1>1, <3>3, <3>4, <3>5, <3>6, TicketTypes DEF TypeInv, TypeOK
    <3>8. Toward(d, L, L2)
      BY <3>4, <3>5 DEF Nears
    <3>9. Writes(d, L, q, m) /\ LabelsDiffer(q.winner, m.labels)
      BY <3>1, <3>3, <3>4, <3>6 DEF Linking
    <3>10. Writes(d, L2, q, m)
      BY <3>7, <3>8, <3>9, WritesTowards
    <3>11. r.winner = q.winner /\ r.mem[i] = m /\ r.at = p /\ r.mem[p] = Mem(Sweep)
      BY <1>1, <2>4, <3>3, <3>6 DEF SameHand, SameRead
    <3>12. Writes(d, L2, r, m)
      BY <3>10, <3>11 DEF Writes
    <3>13. Linking(d, labels'[i], r, r.mem[i])
      BY <3>2, <3>5, <3>6, <3>9, <3>11, <3>12 DEF Linking
    <3>14. Following(r, p, i, d, labels'[p], labels'[i])
      BY <1>3, <2>7, <3>3, <3>11, <3>13 DEF Following
    <3> QED
      BY <2>4, <3>14
  <2> QED
    BY <2>4, <2>6, <2>7
<1>19. CASE LinkRemove(Sweep)
  <2>1. PICK j : j = run[Sweep].link
    OBVIOUS
  <2>2. PICK K : K = labels[j] \ Stripped(run[Sweep].winner, LinkRead(Sweep, j))
    OBVIOUS
  <2>3. PICK r : Turn(Sweep, r) /\ SameHand(Sweep, r) /\ r.step = "spread"
    BY <1>1, <1>19, <2>1, <2>2, LinkRemoveTurn
  <2> QED
    BY <1>5, <2>3 DEF SameHand
<1>20. CASE SpreadEnd(Sweep)
  <2>1. PICK r : /\ Turn(Sweep, r)
                 /\ \/ Done(Sweep, r)
                    \/ SameRead(Sweep, r) /\ r.step = "decide"
    BY <1>1, <1>20, SpreadEndTurn DEF SameHand
  <2> QED
    BY <1>4, <1>5, <2>1
<1> QED
  BY <1>9, <1>10, <1>11, <1>12, <1>13, <1>14, <1>15, <1>16, <1>17, <1>18, <1>19, <1>20
     DEF Sync, Push

LEMMA FollowsWorks ==
    ASSUME TypeInv, TypeInv', SweepInv, SweepInv', Works,
           NEW p \in PRs, NEW i \in Issues, Couple(p, i), NEW d \in Classes, Follows(p, i, d)
    PROVE  Leads(p, i, d)' \/ Follows(p, i, d)'
<1>1. CASE Adopt(Sweep) /\ Tk(Sweep) = p
  BY <1>1, AdoptLeads
<1>2. CASE ~(Adopt(Sweep) /\ Tk(Sweep) = p)
  <2>1. Nears(None, p) /\ Nears(d, i)
    BY <1>2, FollowsNears
  <2>2. /\ p \in Tickets /\ i \in Tickets /\ p # i /\ p \notin Issues /\ Sweep # p
        /\ Sweep \in Workers
    BY Apart
  <2>3. Following(run[Sweep], p, i, d, labels[p], labels[i])
    BY DEF Follows
  <2>4. /\ ClassOf(labels'[p]) \in {None, d} /\ ClassOf(labels'[i]) \in {None, d}
    BY <2>1, <2>3 DEF Following, Nears, Toward
  <2> SUFFICES Following(run'[Sweep], p, i, d, labels'[p], labels'[i])
    BY <2>1 DEF Follows, Nears
  <2>5. PICK w \in Workers : /\ \A v \in Workers : v # w => run'[v] = run[v]
                             /\ Sync(w) \/ Push(w) \/ (Passes(w) /\ Moves(w))
    BY WorksMoves
  <2>6. CASE w # Sweep
    <3>1. run'[Sweep] = run[Sweep] /\ w \in Issues
      BY <2>2, <2>5, <2>6, Apart
    <3>2. Tk(w) # p
      BY <3>1, OnlySweep, <2>6 DEF Tk
    <3>3. labels'[p] = labels[p]
      <4>1. CASE Passes(w)
        BY <4>1 DEF Passes
      <4>2. CASE Sync(w) \/ Push(w)
        <5>1. ~PushedTo(w, p)
          BY <2>2, <3>2, PushedToPaired
        <5> QED
          BY <2>2, <3>2, <4>2, <5>1, WorkSurfaces
      <4> QED
        BY <2>5, <4>1, <4>2
    <3>4. PICK q : q = run[Sweep]
      OBVIOUS
    <3>5. PICK m : m = q.mem[i]
      OBVIOUS
    <3>6. PICK L : L = labels[i]
      OBVIOUS
    <3>7. PICK L2 : L2 = labels'[i]
      OBVIOUS
    <3>8. /\ L \in SUBSET OWNED_LABELS /\ L2 \in SUBSET OWNED_LABELS
          /\ q.winner \in Classes /\ m \in Images /\ Toward(d, L, L2)
      BY <2>1, <2>2, <3>4, <3>5, <3>6, <3>7, TicketTypes DEF TypeInv, TypeOK, Nears
    <3>9. Linking(d, L, q, m) => Linking(d, L2, q, m)
      BY <3>8, WritesTowards DEF Linking
    <3> QED
      BY <2>3, <2>4, <3>1, <3>3, <3>4, <3>5, <3>6, <3>7, <3>9 DEF Following
  <2>7. CASE w = Sweep /\ Passes(w) /\ Moves(w)
    <3>1. labels' = labels
      BY <2>7 DEF Passes
    <3>2. CASE run'[Sweep] = NoRun \/ FetchIssues
      <4>1. run'[Sweep].at # p /\ p \notin run'[Sweep].todo
        BY <2>2, <3>2, NoRunIs, FetchReads
      <4> QED
        BY <2>4, <4>1 DEF Following, Ahead
    <3>3. CASE StartSweep
      <4>1. /\ run'[Sweep].at = Sweep
            /\ run'[Sweep].mem[p].labels = labels[p] /\ run'[Sweep].mem[i].labels = labels[i]
        BY <2>2, <3>3, StartReads
      <4> QED
        BY <2>2, <2>4, <3>1, <4>1 DEF Following, Ahead
    <3>4. CASE NextTicket("prs") \/ NextTicket("issues")
      <4>1. PICK t \in run[Sweep].todo :
              /\ run'[Sweep].step = "decide"
              /\ run'[Sweep].at = t /\ run'[Sweep].todo = run[Sweep].todo \ {t}
              /\ run'[Sweep].mem = run[Sweep].mem
        BY <3>4, NextTakes
      <4>2. Ahead(run'[Sweep], p) => Ahead(run[Sweep], p)
        BY <4>1 DEF Ahead
      <4> QED
        BY <2>3, <2>4, <4>1, <4>2 DEF Following
    <3> QED
      BY <2>7, <3>2, <3>3, <3>4 DEF Moves
  <2>8. CASE w = Sweep /\ (Sync(w) \/ Push(w)) /\ Tk(w) # p
    <3>1. PICK r : Turn(Sweep, r) /\ (Done(Sweep, r) \/ Stays(Sweep, r))
      BY <2>8, WorkTurn
    <3>2. r.at # p /\ r.todo = run[Sweep].todo
          /\ \A u \in Tickets : u # Tk(Sweep) => r.mem[u] = run[Sweep].mem[u]
      BY <2>2, <2>8, <3>1 DEF Done, Stays, Tk
    <3>3. ASSUME Ahead(r, p)
          PROVE  /\ ClassOf(r.mem[p].labels) \in {None, d}
                 /\ ClassOf(r.mem[i].labels) \in {None, d}
      <4>1. p \in run[Sweep].todo
        BY <3>2, <3>3 DEF Ahead
      <4>2. Tk(Sweep) # i
        BY <2>2, <4>1 DEF SweepInv, Phases, Tk
      <4>3. r.mem[p] = run[Sweep].mem[p] /\ r.mem[i] = run[Sweep].mem[i]
        BY <2>2, <2>8, <3>2, <4>2
      <4> QED
        BY <2>3, <4>1, <4>3 DEF Following, Ahead
    <3>4. Following(r, p, i, d, labels'[p], labels'[i])
      BY <2>4, <3>2, <3>3 DEF Following
    <3> QED
      BY <3>1, <3>4, TurnIs, Apart
  <2>9. CASE w = Sweep /\ (Sync(w) \/ Push(w)) /\ Tk(w) = p
    <3>1. ~Adopt(Sweep)
      BY <1>2, <2>9
    <3>2. PICK r : Turn(Sweep, r) /\ Following(r, p, i, d, labels'[p], labels'[i])
      BY <2>1, <2>9, <3>1, FollowingWork
    <3> QED
      BY <3>2, TurnIs, Apart
  <2> QED
    BY <2>5, <2>6, <2>7, <2>8, <2>9
<1> QED
  BY <1>1, <1>2

LEMMA PairWorks ==
    ASSUME TypeInv, TypeInv', SweepInv, SweepInv', PairInv, Works PROVE PairInv'
<1>1. linked' = linked /\ due' = due
  BY WorksEnv
<1> SUFFICES ASSUME NEW p \in PRs, NEW i \in Issues, Couple(p, i)
             PROVE  /\ due[i] = due[p]
                    /\ due[p] # Free => Leads(p, i, due[p])' \/ Follows(p, i, due[p])'
  BY <1>1, CoupleStays DEF PairInv
<1>2. PICK d : d = due[p]
  OBVIOUS
<1>3. /\ due[i] = d
      /\ d # Free => d \in Classes /\ (Leads(p, i, d) \/ Follows(p, i, d))
  BY <1>2, Apart DEF PairInv, TypeInv, TypeOK
<1>4. d # Free => Leads(p, i, d)' \/ Follows(p, i, d)'
  BY <1>3, LeadsWorks, FollowsWorks
<1> QED
  BY <1>1, <1>2, <1>3, <1>4

\* What an edit asks of a couple that was in step.
LEMMA CoupleWanted ==
    ASSUME TypeInv, SweepInv, NEW p \in PRs, NEW i \in Issues, Couple(p, i),
           NEW u \in {p, i}, NEW ls \in SUBSET OWNED_LABELS, NEW f \in Classes,
           Quiet(u), Wanted(u, ls, f) # Free,
           NEW c, c = Lasting(Resolve(ClassOf(ls), f, synced[u]), ls)
    PROVE  /\ Wanted(u, ls, f) = IF u = p THEN IF c # None THEN c ELSE effect[p]
                                 ELSE IF effect[p] = None THEN c ELSE effect[p]
           /\ \A v \in {p, i} : Settled(v) /\ effect[v] = effect[p] /\ synced[v] = effect[p]
           /\ Ahead(run[Sweep], p) => \A v \in {p, i} :
                ClassOf(run[Sweep].mem[v].labels) \in {None, effect[p]}
           /\ run[Sweep].at = p => run[Sweep].step \notin Writing
           /\ \A v \in {p, i} : Quiet(v)
<1>1. /\ p # i /\ p \in Tickets /\ i \in Tickets /\ i \notin PRs /\ Sweep \in Workers
      /\ \A t \in {p, i} : Group(t) = {p, i} /\ ~Unlinked(t) /\ Paired(t)
      /\ Group(u) = {p, i} /\ ~Unlinked(u) /\ Paired(u)
      /\ \A t \in Tickets : p \in Group(t) \/ i \in Group(t) <=> t \in {p, i}
  BY CoupleIs, Apart
<1>2. Together(u) /\ ~Outdated(u)
  BY <1>1 DEF Wanted
<1>3. \A v \in {p, i} : Settled(v) /\ effect[v] = effect[u]
  BY <1>1, <1>2 DEF Together
<1>4. effect[u] = effect[p] /\ \A v \in {p, i} : synced[v] = effect[p]
  BY <1>3 DEF Settled
<1>5. Wanted(u, ls, f) = IF u \in PRs THEN IF c # None THEN c ELSE effect[u]
                         ELSE IF effect[u] = None THEN c ELSE effect[u]
  BY <1>1, <1>2 DEF Wanted
<1>6. u \in PRs <=> u = p
  BY <1>1
<1>7. ASSUME Ahead(run[Sweep], p), NEW v \in {p, i}
      PROVE  ClassOf(run[Sweep].mem[v].labels) \in {None, effect[p]}
  <2>1. p \in PRs \cap Group(u) \cap (run[Sweep].todo \union {Tk(Sweep)})
    BY <1>1, <1>7 DEF Ahead, Tk
  <2>2. ClassOf(run[Sweep].mem[v].labels) \in {None, effect[v]}
    BY <1>1, <1>2, <2>1 DEF Outdated
  <2> QED
    BY <1>3, <2>2
<1>8. ASSUME run[Sweep].at = p PROVE run[Sweep].step \notin Writing
  BY <1>1, <1>8 DEF Quiet, Tk
<1>9. ASSUME NEW v \in {p, i}, NEW w \in Workers, run[w].step \in Writing
      PROVE  v \notin Group(Tk(w))
  <2>1. run[w].step \notin {"idle", "prs", "issues"}
    BY <1>9 DEF Writing
  <2>2. Tk(w) \in Tickets
    BY <2>1, HandType
  <2>3. u \notin Group(Tk(w))
    BY <1>9 DEF Quiet
  <2>4. PICK t : t = Tk(w)
    OBVIOUS
  <2>5. v \in Group(t) => Group(t) = {p, i}
    BY <1>1, <2>2, <2>4
  <2> QED
    BY <2>3, <2>4, <2>5
<1> QED
  BY <1>3, <1>4, <1>5, <1>6, <1>7, <1>8, <1>9 DEF Quiet

\* A ticket of the couple after the edit.
LEMMA CoupleOnWay ==
    ASSUME TypeInv, NEW p \in PRs, NEW i \in Issues, Couple(p, i), NEW v \in {p, i},
           NEW u \in {p, i}, NEW ls \in SUBSET OWNED_LABELS, NEW f \in Classes,
           Edited(u, ls, f), Quiet(v), Settled(v), NEW d,
           IF v = u THEN d = Lasting(Resolve(ClassOf(ls), f, synced[u]), ls) ELSE d = effect[v]
    PROVE  OnWay(d, v)'
<1>1. UNCHANGED <<linked, synced, run>> /\ v \in Tickets /\ u \in Tickets /\ v \in Group(v)
  BY EditedIs, Apart DEF Group
<1>2. CASE v = u
  <2>1. labels'[v] = ls /\ effect'[v] = f /\ synced'[v] = synced[u]
    BY <1>1, <1>2 DEF Edited
  <2>2. Heads(d, labels'[v], effect'[v], synced'[v])
    BY <1>2, <2>1 DEF Heads
  <2> QED
    BY <1>1, <2>2, QuietOnWay
<1>3. CASE v # u
  <2>1. labels'[v] = labels[v] /\ effect'[v] = effect[v] /\ synced'[v] = synced[v]
    BY <1>1, <1>3 DEF Edited
  <2>2. Heads(d, labels[v], effect[v], synced[v])
    BY <1>1, <1>3, HeadsSettled
  <2>3. Heads(d, labels'[v], effect'[v], synced'[v])
    BY <2>1, <2>2
  <2> QED
    BY <1>1, <2>3, QuietOnWay
<1> QED
  BY <1>2, <1>3

\* An edit that asks for no class of its own leaves labels of none, or of the
\* class the ticket was settled at.
LEMMA ResolvedNone ==
    ASSUME NEW ls \in SUBSET OWNED_LABELS, NEW f \in Classes, NEW e \in Classes,
           Lasting(Resolve(ClassOf(ls), f, e), ls) = None
    PROVE  ClassOf(ls) \in {None, e}
<1>1. ClassOf(ls) \in Classes /\ Lasting(ClassOf(ls), ls) = ClassOf(ls)
  BY ClassIs, LastingOfClass
<1>2. CASE f # e /\ ClassOf(ls) = e
  BY <1>2
<1>3. CASE ~(f # e /\ ClassOf(ls) = e)
  <2>1. Resolve(ClassOf(ls), f, e) = ClassOf(ls)
    BY <1>3 DEF Resolve
  <2> QED
    BY <1>1, <2>1
<1> QED
  BY <1>2, <1>3

LEMMA ResolvedFirst ==
    ASSUME NEW ls \in SUBSET OWNED_LABELS, NEW f \in Classes
    PROVE  ClassOf(ls) \in {None, Lasting(Resolve(ClassOf(ls), f, None), ls)}
<1>1. Lasting(ClassOf(ls), ls) = ClassOf(ls)
  BY LastingOfClass
<1>2. ClassOf(ls) # None => Resolve(ClassOf(ls), f, None) = ClassOf(ls)
  BY DEF Resolve
<1> QED
  BY <1>1, <1>2

LEMMA PairEdited ==
    ASSUME TypeInv, TypeInv', SweepInv, PairInv, NEW u \in Tickets,
           NEW ls \in SUBSET OWNED_LABELS, NEW f \in Classes, Edited(u, ls, f)
    PROVE  PairInv'
<1>1. /\ UNCHANGED <<linked, synced, run>>
      /\ \A t \in Tickets : due'[t] = IF t \notin Group(u) THEN due[t]
                                      ELSE IF Quiet(u) THEN Wanted(u, ls, f) ELSE Free
  BY EditedIs
<1> SUFFICES ASSUME NEW p \in PRs, NEW i \in Issues, Couple(p, i)
             PROVE  /\ due'[i] = due'[p]
                    /\ due'[p] # Free => \/ Leads(p, i, due[p])'
                                         \/ Follows(p, i, due[p])'
  BY <1>1, CoupleStays DEF PairInv
<1>2. /\ p # i /\ p \in Tickets /\ i \in Tickets /\ i \notin PRs
      /\ \A t \in Tickets : p \in Group(t) \/ i \in Group(t) <=> t \in {p, i}
      /\ \A t \in {p, i} : Group(t) = {p, i}
  BY CoupleIs, Apart
<1>3. PICK d : d = due'[p]
  OBVIOUS
<1>4. CASE u \notin {p, i}
  <2>1. due'[p] = due[p] /\ due'[i] = due[i]
    BY <1>1, <1>2, <1>4
  <2>2. /\ labels'[p] = labels[p] /\ effect'[p] = effect[p] /\ synced'[p] = synced[p]
        /\ labels'[i] = labels[i] /\ effect'[i] = effect[i] /\ synced'[i] = synced[i]
        /\ run' = run
    BY <1>1, <1>2, <1>4 DEF Edited
  <2>3. due[i] = d /\ (d # Free => Leads(p, i, d) \/ Follows(p, i, d))
    BY <1>3, <2>1 DEF PairInv
  <2>4. ASSUME Leads(p, i, d) PROVE Leads(p, i, d)'
    BY <2>2, <2>4, StillOnWay DEF Leads
  <2>5. ASSUME Follows(p, i, d) PROVE Follows(p, i, d)'
    BY <2>2, <2>5, StillOnWay DEF Follows
  <2> QED
    BY <1>3, <2>1, <2>3, <2>4, <2>5
<1>5. CASE u \in {p, i} /\ ~Quiet(u)
  BY <1>1, <1>2, <1>5
<1>6. CASE u \in {p, i} /\ Quiet(u)
  <2>1. due'[i] = d /\ d = Wanted(u, ls, f)
    BY <1>1, <1>2, <1>3, <1>6
  <2> SUFFICES ASSUME d # Free PROVE Leads(p, i, d)' \/ Follows(p, i, d)'
    BY <1>3, <2>1
  <2>2. PICK c : c = Lasting(Resolve(ClassOf(ls), f, synced[u]), ls)
    OBVIOUS
  <2>3. PICK e : e = effect[p]
    OBVIOUS
  <2>4. /\ d = IF u = p THEN IF c # None THEN c ELSE e ELSE IF e = None THEN c ELSE e
        /\ \A v \in {p, i} : Settled(v) /\ effect[v] = e /\ synced[v] = e
        /\ Ahead(run[Sweep], p) => \A v \in {p, i} :
             ClassOf(run[Sweep].mem[v].labels) \in {None, e}
        /\ run[Sweep].at = p => run[Sweep].step \notin Writing
        /\ \A v \in {p, i} : Quiet(v)
    BY <1>6, <2>1, <2>2, <2>3, CoupleWanted
  <2>5. /\ \A v \in {p, i} : v = u => OnWay(c, v)'
        /\ \A v \in {p, i} : v # u => OnWay(e, v)'
    BY <1>6, <2>2, <2>4, CoupleOnWay
  <2>6. /\ e \in Classes /\ synced[u] = e
        /\ ClassOf(labels[p]) = e /\ ClassOf(labels[i]) = e
    BY <1>2, <1>6, <2>3, <2>4, HeadsSettled DEF TypeInv, TypeOK
  <2>7. /\ labels'[u] = ls
        /\ \A v \in {p, i} : v # u => labels'[v] = labels[v]
    BY <1>2 DEF Edited
  <2>8. run' = run
    BY <1>1
  <2>9. Reading(run[Sweep], p, synced[p], linked[p])
    BY DEF SweepInv
  <2>10. CASE u = p /\ c # None
    <3>1. d = c /\ OnWay(d, p)'
      BY <2>4, <2>5, <2>10
    <3>2. Leading(run[Sweep], p, i, labels'[p])
      <4> SUFFICES ASSUME run[Sweep].at = p
                   PROVE  /\ run[Sweep].step # "adopt"
                          /\ ~(/\ run[Sweep].step \in {"synced", "inherit"}
                               /\ ClassOf(run[Sweep].mem[p].labels) = None
                               /\ ClassOf(run[Sweep].mem[i].labels) # None)
        BY DEF Leading
      <4>1. run[Sweep].step # "adopt"
        BY <2>4 DEF Writing
      <4>2. ASSUME run[Sweep].step \in {"synced", "inherit"},
                   ClassOf(run[Sweep].mem[p].labels) = None,
                   ClassOf(run[Sweep].mem[i].labels) # None
            PROVE  FALSE
        <5>1. e = None
          BY <2>4, <2>9, <4>2 DEF Reading, Ahead
        <5>2. ClassOf(run[Sweep].mem[i].labels) \in {None, e}
          BY <2>4 DEF Ahead
        <5> QED
          BY <4>2, <5>1, <5>2
      <4> QED
        BY <4>1, <4>2
    <3> QED
      BY <2>8, <2>10, <3>1, <3>2 DEF Leads
  <2>11. CASE u = p /\ c = None
    <3>1. d = e /\ OnWay(None, p)' /\ OnWay(d, i)'
      BY <1>2, <2>4, <2>5, <2>11
    <3>2. ClassOf(ls) \in {None, e}
      BY <2>2, <2>6, <2>11, ResolvedNone
    <3>3. labels'[p] = ls /\ labels'[i] = labels[i]
      BY <1>2, <2>7, <2>11
    <3>4. Following(run[Sweep], p, i, d, labels'[p], labels'[i])
      BY <2>4, <2>6, <3>1, <3>2, <3>3 DEF Following, Writing
    <3> QED
      BY <2>8, <3>1, <3>4 DEF Follows
  <2>12. CASE u = i /\ e # None
    <3>1. d = e /\ OnWay(d, p)' /\ labels'[p] = labels[p]
      BY <1>2, <2>4, <2>5, <2>7, <2>12
    <3>2. Leading(run[Sweep], p, i, labels'[p])
      BY <2>4, <2>6, <2>12, <3>1 DEF Leading, Writing
    <3> QED
      BY <2>8, <2>12, <3>1, <3>2 DEF Leads
  <2>13. CASE u = i /\ e = None
    <3>1. d = c /\ OnWay(None, p)' /\ OnWay(d, i)'
      BY <1>2, <2>4, <2>5, <2>13
    <3>2. ClassOf(ls) \in {None, c}
      BY <2>2, <2>6, <2>13, ResolvedFirst
    <3>3. labels'[i] = ls /\ labels'[p] = labels[p]
      BY <1>2, <2>7, <2>13
    <3>4. Following(run[Sweep], p, i, d, labels'[p], labels'[i])
      BY <2>4, <2>6, <2>13, <3>1, <3>2, <3>3 DEF Following, Writing
    <3> QED
      BY <2>8, <3>1, <3>4 DEF Follows
  <2> QED
    BY <1>6, <2>10, <2>11, <2>12, <2>13
<1> QED
  BY <1>4, <1>5, <1>6
-----------------------------------------------------------------------------
(* The theorem.                                                            *)

\* What the runs have written and read of the tickets that something is asked of.
EditInv ==
    /\ SyncInv       \* unlinked tickets
    /\ SweepInv      \* what the sweep knows of pull requests
    /\ GroupInv /\ PairInv

LEMMA EditInit == Init => EditInv
  BY SyncInit, SweepInit, GroupInit, PairInit DEF EditInv

LEMMA EditNext ==
    ASSUME TypeInv, TypeInv', EditInv, [Next]_vars PROVE EditInv'
<1>1. CASE Works
  <2>1. SyncInv' /\ SweepInv' /\ GroupInv'
    BY <1>1, SyncWorks, SweepWorks, GroupWorks DEF EditInv
  <2>2. PairInv'
    BY <1>1, <2>1, PairWorks DEF EditInv
  <2> QED
    BY <2>1, <2>2 DEF EditInv
<1>2. CASE \E t \in Tickets : People(t)
  <2>1. PICK t \in Tickets : People(t)
    BY <1>2
  <2>2. PICK ls \in SUBSET OWNED_LABELS, f \in Classes : Edited(t, ls, f)
    BY <2>1, PeopleEdit
  <2> QED
    BY <2>2, SyncEdited, SweepEdited, GroupEdited, PairEdited DEF EditInv
<1>3. CASE UNCHANGED vars
  <2>1. UNCHANGED <<linked, labels, effect, synced, run, due>>
    BY <1>3 DEF vars
  <2>2. /\ \A t : Group(t)' = Group(t) /\ (Unlinked(t)' <=> Unlinked(t))
        /\ \A t : Paired(t)' <=> Paired(t)
        /\ \A p, i : Couple(p, i)' <=> Couple(p, i)
    BY <2>1, GroupStays, PairedStays, CoupleStays
  <2>3. \A d, t : OnWay(d, t) => OnWay(d, t)'
    BY <2>1 DEF OnWay
  <2>4. SyncInv'
    BY <2>1, <2>2, <2>3 DEF EditInv, SyncInv
  <2>5. SweepInv'
    BY <2>1 DEF EditInv, SweepInv
  <2>6. GroupInv'
    BY <2>1, <2>2 DEF EditInv, GroupInv
  <2>7. \A p, i, d : (Leads(p, i, d) => Leads(p, i, d)') /\ (Follows(p, i, d) => Follows(p, i, d)')
    BY <2>1, <2>3 DEF Leads, Follows
  <2>8. PairInv'
    BY <2>1, <2>2, <2>7 DEF EditInv, PairInv
  <2> QED
    BY <2>4, <2>5, <2>6, <2>8 DEF EditInv
<1> QED
  BY <1>1, <1>2, <1>3, NextKinds

\* A ticket on its way to d that has settled has settled at d.
LEMMA EditFromInv == TypeInv /\ EditInv => EditHolds
<1> SUFFICES ASSUME TypeInv, EditInv, NEW t \in Tickets, Together(t), due[t] # Free
             PROVE  due[t] = effect[t]
  BY DEF EditHolds
<1>1. PICK d : d = due[t]
  OBVIOUS
<1>2. CASE Unlinked(t)
  <2>1. Settled(t)
    BY DEF Together, Group
  <2>2. Heads(d, labels[t], effect[t], synced[t])
    BY <1>1, <1>2 DEF EditInv, SyncInv, OnWay
  <2> QED
    BY <1>1, <2>1, <2>2, HeadsSettled
<1>3. CASE ~Unlinked(t)
  <2>1. Paired(t)
    BY <1>3 DEF EditInv, GroupInv
  <2>2. PICK p \in PRs, i \in Issues : Couple(p, i) /\ t \in {p, i}
    BY <2>1, PairedIs
  <2>3. p \in Tickets /\ i \in Tickets /\ Group(t) = {p, i}
    BY <2>2, CoupleIs, Apart
  <2>4. Settled(p) /\ Settled(i) /\ effect[p] = effect[t] /\ effect[i] = effect[t]
    BY <2>3 DEF Together
  <2>5. d = due[p] /\ (Leads(p, i, due[p]) \/ Follows(p, i, due[p]))
    BY <1>1, <2>2 DEF EditInv, PairInv
  <2>6. OnWay(d, p) \/ OnWay(d, i)
    BY <2>5 DEF Leads, Follows
  <2>7. \/ Heads(d, labels[p], effect[p], synced[p])
        \/ Heads(d, labels[i], effect[i], synced[i])
    BY <2>6 DEF OnWay
  <2> QED
    BY <1>1, <2>3, <2>4, <2>7, HeadsSettled
<1> QED
  BY <1>2, <1>3

\* What people ask for by an edit that no run was in the middle of, on an
\* unlinked ticket or on a pull request and its one issue that were in step, is
\* what those tickets are settled at, for any tickets, links, labels and runs,
\* however often people edit and runs die: no run undoes it from what it read
\* before (project_interface_effect.py 436-446).
THEOREM EditsHold == Spec => []EditHolds
<1>1. Init => EditInv
  BY EditInit
<1>2. TypeInv /\ TypeInv' /\ EditInv /\ [Next]_vars => EditInv'
  BY EditNext
<1>3. TypeInv /\ EditInv => EditHolds
  BY EditFromInv
<1> QED
  BY <1>1, <1>2, <1>3, TypeInvariance, PTL DEF Spec
=============================================================================
