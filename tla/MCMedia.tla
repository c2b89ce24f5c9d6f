------------------------------ MODULE MCMedia ------------------------------
(***************************************************************************)
(* Instances of Media for TLC: the jobs of a worker.                       *)
(***************************************************************************)
EXTENDS Media

CONSTANTS j1, j2, j3, en, fr, de, base

Image(languages) == [class |-> "image", model |-> languages, vision |-> FALSE]
Photo == [class |-> "image", model |-> en, vision |-> TRUE]
Audio == [class |-> "audio", model |-> base, vision |-> FALSE]
Video(vision) == [class |-> "video", model |-> base, vision |-> vision]

Mix(a, b, c) == [j \in Jobs |-> CASE j = j1 -> a [] j = j2 -> b [] j = j3 -> c]

\* Images of two or three sets of languages; two videos; one of each class.
MCMixes ==
  {Mix(Photo, Image(fr), Image(en)), Mix(Image(en), Image(fr), Image(de)),
   Mix(Video(FALSE), Video(TRUE), Image(en)), Mix(Audio, Audio, Video(FALSE))}
=============================================================================
