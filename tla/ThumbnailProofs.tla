--------------------------- MODULE ThumbnailProofs ---------------------------
(***************************************************************************)
(* What fetch gets out of sorting thumbnails with a comparator that is no  *)
(* weak order, for thumbnails of any size and lists of any length that is  *)
(* sorted by insertion: sort.Slice does so up to 12 elements.              *)
(***************************************************************************)
EXTENDS Thumbnails, TLAPS

\* The variables have their types; only Choose sets thumb, and then i is at the
\* end.
SortTypes ==
    /\ listed \in Seq(Thumbnail) /\ thumbnails \in Seq(Thumbnail)
    /\ Len(thumbnails) = Len(listed)
    /\ i \in Nat /\ i >= 2 /\ j \in Nat /\ 1 <= j /\ j <= i
    /\ j <= Len(thumbnails) \/ j = i
    /\ thumb \in Sizes \cup {NoThumb, Unset}
    /\ thumb # Unset => i > Len(thumbnails)

LEMMA SizeOfThumbnail ==
  ASSUME NEW t \in Thumbnail
  PROVE  t.size \in Sizes /\ t.size.width \in Nat /\ t.size.height \in Nat
BY SizesOK DEF Thumbnail

LEMMA ListsAreSequences ==
  ASSUME NEW s \in Lists
  PROVE  s \in Seq(Thumbnail)
<1>1. PICK n \in 0 .. MaxLength : s \in [1 .. n -> Thumbnail]
  BY DEF Lists
<1>2. n \in Nat
  BY SizesOK
<1> QED
  BY <1>1, <1>2

LEMMA SortTypesInit == Init => SortTypes
BY ListsAreSequences, SizesOK DEF Init, SortTypes

LEMMA SortTypesStep == SortTypes /\ [Next]_vars => SortTypes'
<1> SUFFICES ASSUME SortTypes, [Next]_vars PROVE SortTypes'
  OBVIOUS
<1> USE DEF SortTypes
<1>1. CASE Swap
  <2>1. j \in 1 .. Len(thumbnails) /\ j - 1 \in 1 .. Len(thumbnails)
    BY <1>1 DEF Swap
  <2>2. thumbnails[j] \in Thumbnail /\ thumbnails[j - 1] \in Thumbnail
    BY <2>1
  <2>3. /\ thumbnails' \in Seq(Thumbnail)
        /\ Len(thumbnails') = Len(thumbnails)
    BY <1>1, <2>1, <2>2 DEF Swap
  <2> QED
    BY <1>1, <2>1, <2>3 DEF Swap
<1>2. CASE Insert
  BY <1>2 DEF Insert
<1>3. CASE Choose
  <2>1. thumbnails # << >> => thumbnails[1] \in Thumbnail
    OBVIOUS
  <2>2. thumb' \in Sizes \cup {NoThumb, Unset}
    BY <1>3, <2>1, SizeOfThumbnail DEF Choose
  <2> QED
    BY <1>3, <2>2 DEF Choose
<1>4. CASE UNCHANGED vars
  BY <1>4 DEF vars
<1> QED
  BY <1>1, <1>2, <1>3, <1>4 DEF Next

\* The indexes of the insertion sort behind sort.Slice stay within the list.
THEOREM ThumbnailTypeCorrect == Spec => []ThumbnailTypeOK
<1>1. SortTypes => ThumbnailTypeOK
  BY DEF SortTypes, ThumbnailTypeOK
<1> QED
  BY <1>1, SortTypesInit, SortTypesStep, PTL DEF Spec

-----------------------------------------------------------------------------
(* The front of the list.                                                  *)

\* The first thumbnail is the one YouTube listed first, or has displaced it.
FrontInv ==
    /\ listed # << >> =>
         \/ thumbnails[1] = listed[1]
         \/ Fits(thumbnails[1].size)
    /\ Chosen => listed # << >> /\ thumb = thumbnails[1].size

LEMMA FrontStep == SortTypes /\ FrontInv /\ [Next]_vars => FrontInv'
<1> SUFFICES ASSUME SortTypes, FrontInv, [Next]_vars PROVE FrontInv'
  OBVIOUS
<1>1. CASE Swap
  <2>1. j \in 1 .. Len(thumbnails) /\ j - 1 \in 1 .. Len(thumbnails) /\ thumb = Unset
    BY <1>1 DEF Swap, SortTypes
  <2>2. thumbnails'[1] = IF j = 2 THEN thumbnails[2] ELSE thumbnails[1]
    BY <1>1, <2>1 DEF Swap, SortTypes
  <2>3. j = 2 => Fits(thumbnails[2].size)
    BY <1>1 DEF Swap, Less
  <2>4. thumb' = Unset /\ listed' = listed
    BY <1>1, <2>1 DEF Swap
  <2> QED
    BY <2>2, <2>3, <2>4 DEF FrontInv, Chosen
<1>2. CASE Insert
  BY <1>2 DEF Insert, FrontInv, Chosen
<1>3. CASE Choose
  <2>1. Chosen' => thumbnails # << >> /\ thumb' = thumbnails[1].size
    BY <1>3 DEF Choose, Chosen
  <2>2. thumbnails # << >> => listed # << >>
    BY DEF SortTypes
  <2> QED
    BY <1>3, <2>1, <2>2 DEF Choose, FrontInv
<1>4. CASE UNCHANGED vars
  BY <1>4 DEF vars, FrontInv, Chosen
<1> QED
  BY <1>1, <1>2, <1>3, <1>4 DEF Next

\* For every list YouTube may send, in whatever order, that is short enough to be
\* sorted by insertion, the thumbnail stored with a video is the first one listed
\* or one that Telegram takes.
THEOREM ThumbnailChosenFits == Spec => []ChosenFits
<1>1. Init => FrontInv
  BY DEF Init, FrontInv, Chosen
<1>2. FrontInv => ChosenFits
  BY DEF FrontInv, ChosenFits, Chosen
<1> QED
  BY <1>1, <1>2, SortTypesInit, SortTypesStep, FrontStep, PTL DEF Spec

-----------------------------------------------------------------------------
(* Lists that are sorted by size, as YouTube's are.                        *)

\* Every thumbnail but the one being inserted stands where insertion has put
\* it, or where it was listed; that one moves on only if it fits, and in front
\* of it, of those inserted, is the largest that fits.
InsertionInv ==
    Ascending =>
        /\ \A k \in 1 .. Len(thumbnails) : k <= i /\ k # j =>
               \E m \in 1 .. Len(thumbnails) : m < i /\ thumbnails[k] = listed[m]
        /\ i <= Len(thumbnails) => thumbnails[j] = listed[i]
        /\ \A k \in 1 .. Len(thumbnails) : k > i => thumbnails[k] = listed[k]
        /\ j < i => i <= Len(thumbnails) /\ Fits(listed[i].size)
        /\ j > 1 => \A m \in 1 .. Len(thumbnails) :
               m < i /\ Fits(listed[m].size)
                   => ~ Larger(listed[m].size, thumbnails[1].size)

LEMMA InsertionInit == Init => InsertionInv
<1> SUFFICES ASSUME Init, Ascending PROVE InsertionInv
  BY DEF InsertionInv
<1>1. listed \in Seq(Thumbnail) /\ thumbnails = listed /\ i = 2 /\ j = 2
  BY ListsAreSequences DEF Init
<1>2. \A k \in 1 .. Len(thumbnails) : k <= i /\ k # j =>
        \E m \in 1 .. Len(thumbnails) : m < i /\ thumbnails[k] = listed[m]
  BY <1>1
<1>3. \A m \in 1 .. Len(thumbnails) : m < i => m = 1
  BY <1>1
<1>4. listed # << >> => ~ Larger(listed[1].size, listed[1].size)
  BY <1>1, SizeOfThumbnail DEF Larger
<1>5. \A m \in 1 .. Len(thumbnails) :
        m < i => ~ Larger(listed[m].size, thumbnails[1].size)
  BY <1>1, <1>3, <1>4
<1> QED
  BY <1>1, <1>2, <1>5 DEF InsertionInv

LEMMA InsertionStep == SortTypes /\ InsertionInv /\ [Next]_vars => InsertionInv'
<1> SUFFICES ASSUME SortTypes, InsertionInv, [Next]_vars, Ascending'
             PROVE  InsertionInv'
  BY DEF InsertionInv
<1>1. listed' = listed
  BY DEF Next, Swap, Insert, Choose, vars
<1>2. Ascending
  BY <1>1 DEF Ascending
<1> DEFINE n == Len(thumbnails)
<1>3. /\ \A k \in 1 .. n : k <= i /\ k # j =>
             \E m \in 1 .. n : m < i /\ thumbnails[k] = listed[m]
      /\ i <= n => thumbnails[j] = listed[i]
      /\ \A k \in 1 .. n : k > i => thumbnails[k] = listed[k]
      /\ j < i => i <= n /\ Fits(listed[i].size)
      /\ j > 1 => \A m \in 1 .. n :
             m < i /\ Fits(listed[m].size)
                 => ~ Larger(listed[m].size, thumbnails[1].size)
  BY <1>2 DEF InsertionInv
<1>4. /\ n \in Nat /\ n = Len(listed) /\ i \in Nat /\ i >= 2 /\ j \in Nat
      /\ 1 <= j /\ j <= i
      /\ \A k \in 1 .. n : thumbnails[k] \in Thumbnail /\ listed[k] \in Thumbnail
  BY DEF SortTypes
<1>5. CASE Swap
  <2>1. /\ i <= n /\ j > 1 /\ j' = j - 1 /\ i' = i
        /\ Less(thumbnails[j], thumbnails[j - 1])
        /\ j \in 1 .. n /\ j - 1 \in 1 .. n
    BY <1>4, <1>5 DEF Swap
  <2>2. /\ Len(thumbnails') = n
        /\ thumbnails'[j] = thumbnails[j - 1] /\ thumbnails'[j - 1] = thumbnails[j]
        /\ \A k \in 1 .. n : k # j /\ k # j - 1 => thumbnails'[k] = thumbnails[k]
    BY <1>4, <1>5, <2>1 DEF Swap, SortTypes
  <2>3. Fits(listed[i].size)
    BY <1>3, <2>1 DEF Less
  <2>4. ASSUME NEW k \in 1 .. n, k <= i, k # j - 1
        PROVE  \E m \in 1 .. n : m < i /\ thumbnails'[k] = listed[m]
    <3>1. CASE k = j
      BY <1>3, <1>4, <2>1, <2>2, <3>1
    <3>2. CASE k # j
      BY <1>3, <2>2, <2>4, <3>2
    <3> QED
      BY <3>1, <3>2
  <2>5. \A k \in 1 .. n : k > i => thumbnails'[k] = listed[k]
    BY <1>3, <1>4, <2>1, <2>2
  <2>6. j - 1 > 1 => thumbnails'[1] = thumbnails[1]
    BY <1>4, <2>1, <2>2
  <2>7. thumbnails'[j - 1] = listed[i]
    BY <1>3, <2>1, <2>2
  <2> HIDE DEF n
  <2>8. j - 1 > 1 => \A m \in 1 .. n :
          m < i /\ Fits(listed[m].size)
              => ~ Larger(listed[m].size, thumbnails'[1].size)
    BY <1>3, <1>4, <2>1, <2>6
  <2> QED
    BY <1>1, <2>1, <2>2, <2>3, <2>4, <2>5, <2>7, <2>8 DEF InsertionInv
<1>6. CASE Insert
  <2>1. /\ i <= n /\ i' = i + 1 /\ j' = i + 1 /\ thumbnails' = thumbnails
        /\ j > 1 => ~ Less(thumbnails[j], thumbnails[j - 1])
        /\ thumbnails[j] = listed[i] /\ i \in 1 .. n /\ j \in 1 .. n
    BY <1>3, <1>4, <1>6 DEF Insert
  <2>2. ASSUME NEW k \in 1 .. n, k <= i + 1, k # i + 1
        PROVE  \E m \in 1 .. n : m < i + 1 /\ thumbnails[k] = listed[m]
    <3>1. CASE k = j
      BY <1>4, <2>1, <3>1
    <3>2. CASE k # j
      BY <1>3, <1>4, <2>2, <3>2
    <3> QED
      BY <3>1, <3>2
  <2>3. /\ i + 1 <= n => thumbnails[i + 1] = listed[i + 1]
        /\ \A k \in 1 .. n : k > i + 1 => thumbnails[k] = listed[k]
    BY <1>3, <1>4
  <2>4. ASSUME NEW m \in 1 .. n, m < i + 1, Fits(listed[m].size)
        PROVE  ~ Larger(listed[m].size, thumbnails[1].size)
    <3>0. /\ listed[m].size.width \in Nat /\ listed[m].size.height \in Nat
          /\ listed[i].size.width \in Nat /\ listed[i].size.height \in Nat
      BY <1>4, <2>1, SizeOfThumbnail
    <3>1. CASE j = 1
      <4>1. m < i => Larger(listed[i].size, listed[m].size)
        BY <1>2, <1>4, <2>1 DEF Ascending
      <4>2. m = i \/ m < i
        BY <1>4, <2>4
      <4> QED
        BY <2>1, <3>0, <3>1, <4>1, <4>2 DEF Larger
    <3>2. CASE j > 1 /\ m < i
      BY <1>3, <2>4, <3>2
    <3>3. CASE j > 1 /\ m = i
      <4>1. j - 1 \in 1 .. n /\ j - 1 <= i /\ j - 1 # j
        BY <1>4, <2>1, <3>3
      <4>2. PICK k \in 1 .. n : k < i /\ thumbnails[j - 1] = listed[k]
        BY <1>3, <4>1
      <4>3. Larger(listed[i].size, listed[k].size)
        BY <1>2, <1>4, <2>1, <4>2 DEF Ascending
      <4>4. Less(thumbnails[j], thumbnails[j - 1])
        BY <2>1, <2>4, <3>3, <4>2, <4>3 DEF Less
      <4> QED
        BY <2>1, <3>3, <4>4
    <3> QED
      BY <1>4, <2>4, <3>1, <3>2, <3>3
  <2> HIDE DEF n
  <2>5. ~ (i + 1 < i + 1)
    BY <1>4
  <2>6. Len(thumbnails') = n
    BY <2>1 DEF n
  <2> QED
    BY <1>1, <2>1, <2>2, <2>3, <2>4, <2>5, <2>6 DEF InsertionInv
<1>7. CASE Choose \/ UNCHANGED vars
  BY <1>1, <1>3, <1>7 DEF Choose, vars, InsertionInv
<1> QED
  BY <1>5, <1>6, <1>7 DEF Next

\* For a list sorted by size that is short enough to be sorted by insertion, the
\* thumbnail stored with a video is the largest one that Telegram takes, although
\* the comparator is no weak order.
THEOREM ThumbnailLargestIsChosen == Spec => []LargestIsChosen
<1>1. SortTypes /\ FrontInv /\ InsertionInv => LargestIsChosen
  <2> SUFFICES ASSUME SortTypes, FrontInv, InsertionInv, Chosen, Ascending,
                      NEW n \in 1 .. Len(listed), Fits(listed[n].size)
               PROVE  ~ Larger(listed[n].size, thumb)
    BY DEF LargestIsChosen
  <2>1. i > Len(thumbnails) /\ thumb = thumbnails[1].size
    BY DEF SortTypes, FrontInv, Chosen
  <2>2. ~ (j < i) /\ j > 1 /\ Len(thumbnails) = Len(listed)
    BY <2>1 DEF InsertionInv, SortTypes
  <2>3. n \in 1 .. Len(thumbnails) /\ n < i
    BY <2>1, <2>2 DEF SortTypes
  <2> QED
    BY <2>1, <2>2, <2>3 DEF InsertionInv
<1>2. Init => FrontInv
  BY DEF Init, FrontInv, Chosen
<1> QED
  BY <1>1, <1>2, SortTypesInit, SortTypesStep, FrontStep, InsertionInit,
     InsertionStep, PTL DEF Spec

=============================================================================
