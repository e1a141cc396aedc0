-------------------------- MODULE MCMediaMatching --------------------------
(* An instance of MediaMatching for TLC.  A frame is a set of the hash bits *)
(* 1 to 4, and two frames are alike when they differ in at most one bit.   *)
EXTENDS MediaMatching, TLC

CONSTANTS w1, w2, c1, c2

AllHandlers == <<"exact", "imagehash", "videolike", "aivector">>

AtMostOneBit == [imagehash |-> 1, videolike |-> 1, aivector |-> 1]

\* Two frames and three quarters of the shorter clip.
TwoFramesAndMost ==
  [videolike |-> [frames |-> 2, num |-> 3, den |-> 4],
   aivector  |-> [frames |-> 2, num |-> 3, den |-> 4]]

SmallLimits ==
  [download |-> 3, animationSeconds |-> 5, animationBytes |-> 2,
   stickerSeconds |-> 3, stickerBytes |-> 1]

File(name, kind, shots, seconds, bytes) ==
  [file |-> name, kind |-> kind, shots |-> shots, seconds |-> seconds, bytes |-> bytes]

\* A picture, the same turned by 90 degrees and slightly changed, sent again
\* as a sticker; a clip, a cut of it, a video sticker of one frame; a clip of
\* which MaxFrames frames are kept, more than MaxFiles; and one that is too
\* long to be looked at.
Picture == File("p", "photo", <<{}, {1, 2}, {1, 2, 3, 4}, {3, 4}>>, 0, 1)
Turned == File("t", "sticker", <<{1, 2}, {1, 2, 3, 4}, {3, 4}, {1}>>, 0, 1)
Clip == File("a", "animation", <<{1, 2, 3}, {1, 3}, {2, 4}>>, 3, 1)
Cut == File("b", "animation", <<{2, 4}, {1, 3}>>, 2, 1)
Wink == File("v", "video_sticker", <<{1, 3}>>, 1, 1)
Long == File("l", "animation", <<{1, 3}, {1, 2, 3}, {2, 4}, {1}, {}>>, 5, 1)
TooBig == File("g", "animation", <<{1, 3}, {2, 4}>>, 9, 1)

ChatSymmetry == Permutations(Chats)

SomeUploads == {Picture, Turned, Clip, Cut, Wink, Long, TooBig}

=============================================================================
