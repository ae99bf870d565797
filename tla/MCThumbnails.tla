---------------------------- MODULE MCThumbnails ----------------------------
(* Lists of up to four thumbnails of the sizes YouTube has, one of them the *)
(* limit of Telegram and one upright.                                       *)
EXTENDS Thumbnails

Size(w, h) == [width |-> w, height |-> h]

YouTubeSizes ==
    {Size(120, 90), Size(320, 180), Size(336, 188), Size(480, 360),
     Size(180, 320)}

=============================================================================
