----------------------------- MODULE Thumbnails -----------------------------
(***************************************************************************)
(* How fetch chooses the thumbnail of a video (internal/bot/fetch.go):     *)
(* sort.Slice with a comparator that is no weak order, and the first of    *)
(* what comes out, for any list that YouTube may send.  sort.Slice sorts   *)
(* up to 12 elements, more than YouTube sends, by insertion.               *)
(***************************************************************************)
EXTENDS Integers, Sequences

CONSTANTS
    Sizes,       \* sizes of thumbnails: records of width and height
    MaxLength,   \* bound: thumbnails of a video
    Unset,       \* no thumbnail has been chosen yet
    NoThumb      \* the empty URL

ASSUME SizesOK ==
    /\ Sizes \subseteq [width : Nat, height : Nat]
    /\ MaxLength \in Nat
    /\ Unset \notin Sizes /\ NoThumb \notin Sizes /\ Unset # NoThumb

Limit == 320     \* Telegram takes thumbnails up to this width and height

\* A URL that carries a query is stored without it, any other not at all.
Thumbnail == [size : Sizes, query : BOOLEAN]

VARIABLES
    listed,      \* what YouTube sent
    thumbnails,  \* video.Thumbnails, sorted in place
    i,           \* those before i have been inserted
    j,           \* where the one being inserted is
    thumb        \* the thumbnail of the metadata row

vars == <<listed, thumbnails, i, j, thumb>>

Lists == UNION {[1 .. n -> Thumbnail] : n \in 0 .. MaxLength}

ThumbnailTypeOK ==
    /\ listed \in Seq(Thumbnail) /\ thumbnails \in Seq(Thumbnail)
    /\ Len(thumbnails) = Len(listed)
    /\ i \in Nat \ {0, 1} /\ j \in 1 .. i
    /\ j <= Len(thumbnails) \/ j = i
    /\ thumb \in Sizes \cup {NoThumb, Unset}

Init ==
    /\ listed \in Lists
    /\ thumbnails = listed
    /\ i = 2 /\ j = 2
    /\ thumb = Unset

Larger(a, b) == a.width > b.width /\ a.height > b.height
Fits(a) == a.width <= Limit /\ a.height <= Limit

\* Mutant of Less: any larger thumbnail goes first.
LessBySize(a, b) == Larger(a.size, b.size)

\* Mutant of Less: the limit itself is taken to be too large.
LessBelowLimit(a, b) ==
    Larger(a.size, b.size) /\ a.size.width < Limit /\ a.size.height < Limit

\* The comparator: a larger thumbnail goes first as long as Telegram takes it.
Less(a, b) == Larger(a.size, b.size) /\ Fits(a.size)

\* The thumbnail being inserted goes in front of the one before it.
Swap ==
    /\ i <= Len(thumbnails) /\ j > 1
    /\ Less(thumbnails[j], thumbnails[j - 1])
    /\ thumbnails' = [thumbnails EXCEPT ![j] = thumbnails[j - 1],
                                        ![j - 1] = thumbnails[j]]
    /\ j' = j - 1
    /\ UNCHANGED <<listed, i, thumb>>

\* Mutant of Insert: the next one is looked for one place too far.
InsertBeyond ==
    /\ i <= Len(thumbnails)
    /\ j > 1 => ~ Less(thumbnails[j], thumbnails[j - 1])
    /\ i' = i + 1 /\ j' = i + 2
    /\ UNCHANGED <<listed, thumbnails, thumb>>

\* It has found its place.
Insert ==
    /\ i <= Len(thumbnails)
    /\ j > 1 => ~ Less(thumbnails[j], thumbnails[j - 1])
    /\ i' = i + 1 /\ j' = i + 1
    /\ UNCHANGED <<listed, thumbnails, thumb>>

\* The first one is chosen, if there is any and its URL has a query to cut.
Choose ==
    /\ i > Len(thumbnails) /\ thumb = Unset
    /\ thumb' = IF thumbnails # << >> /\ thumbnails[1].query
                THEN thumbnails[1].size ELSE NoThumb
    /\ UNCHANGED <<listed, thumbnails, i, j>>

Next == Swap \/ Insert \/ Choose

Spec == Init /\ [][Next]_vars

-----------------------------------------------------------------------------
(* Properties.                                                             *)

Chosen == thumb \notin {Unset, NoThumb}

\* For every list, sorted or not: what fetch stores is the first thumbnail
\* listed, the smallest by YouTube's order, or one that Telegram takes.  An
\* oversized one never gets to the front.
ChosenFits == Chosen => thumb = listed[1].size \/ Fits(thumb)

\* YouTube lists the thumbnails by size.
Ascending ==
    \A m, n \in 1 .. Len(listed) :
        m < n => Larger(listed[n].size, listed[m].size)

\* For such a list the comparator is good enough: fetch stores the largest
\* thumbnail that Telegram takes, those of exactly 320 pixels included.
LargestIsChosen ==
    Chosen /\ Ascending =>
        \A n \in 1 .. Len(listed) :
            Fits(listed[n].size) => ~ Larger(listed[n].size, thumb)

=============================================================================
