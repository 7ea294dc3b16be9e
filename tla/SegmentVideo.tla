---------------------------- MODULE SegmentVideo ----------------------------
(***************************************************************************)
(* One call of generate_video (skills/writer_video.py): the article is     *)
(* split into segments; for each a picture and a voice track are made, by  *)
(* two threads of a segment's thread of a small pool; ffmpeg makes a clip  *)
(* of each complete segment and joins the clips.  When that fails, a video *)
(* is asked of Agnes instead.                                              *)
(*                                                                         *)
(* All segments generate their picture under one name, image_1.png of the  *)
(* directory of the run, and move it to their own name afterwards.  What a *)
(* file shows is the segment whose description it was made from.           *)
(***************************************************************************)
EXTENDS Integers, FiniteSets, FiniteSetsExt

CONSTANTS
    MaxSegments,        \* bound: segments the language model may answer with
    PoolSize            \* segments in progress at once

ASSUME VideoAssumption == MaxSegments \in Nat \ {0} /\ PoolSize \in Nat \ {0}

Segments == 1 .. MaxSegments
Nothing == 0

VARIABLES
    vpc,                \* where the call is
    segs,               \* the segments of the article
    shared,             \* what image_1.png shows
    drawing,            \* where the picture thread of each segment is
    picture,            \* what the segment's own picture shows
    voice,              \* the voice track of each segment
    clip,               \* the clip of each segment
    made                \* whether video.mp4 is complete

videoVars == <<vpc, segs, shared, drawing, picture, voice, clip, made>>

VideoTypeOK ==
    /\ vpc \in {"idle", "split", "segments", "clips", "concat", "tidy", "agnes",
                "video", "none", "raised"}
    /\ segs \subseteq Segments
    /\ shared \in Segments \union {Nothing}
    /\ drawing \in [Segments -> {"wait", "asked", "drawn", "found", "done", "failed"}]
    /\ picture \in [Segments -> Segments \union {Nothing}]
    /\ voice \in [Segments -> {"wait", "done", "failed"}]
    /\ clip \in [Segments -> {"wait", "done", "absent", "partial"}]
    /\ made \in BOOLEAN

VideoInit ==
    /\ vpc = "idle"
    /\ segs = {}
    /\ shared = Nothing
    /\ drawing = [i \in Segments |-> "wait"]
    /\ picture = [i \in Segments |-> Nothing]
    /\ voice = [i \in Segments |-> "wait"]
    /\ clip = [i \in Segments |-> "wait"]
    /\ made = FALSE

EmptyDirectory ==
    /\ segs' = {} /\ shared' = Nothing
    /\ drawing' = [i \in Segments |-> "wait"]
    /\ picture' = [i \in Segments |-> Nothing]
    /\ voice' = [i \in Segments |-> "wait"]
    /\ clip' = [i \in Segments |-> "wait"]
    /\ made' = FALSE

\* generate_video is called, in a directory of its own.
VideoStart == vpc' = "split" /\ EmptyDirectory

\* The process is gone; nobody looks at the directory again.
VideoEnds == vpc' = "idle" /\ EmptyDirectory

\* The language model describes the segments.  Without a usable one the slideshow is
\* given up; an answer that is JSON but no object raises past the handler.
Split ==
    /\ vpc = "split"
    /\ \/ \E n \in Segments : segs' = 1 .. n /\ vpc' = "segments"
       \/ vpc' \in {"agnes", "raised"} /\ UNCHANGED segs
    /\ UNCHANGED <<shared, drawing, picture, voice, clip, made>>

-----------------------------------------------------------------------------
(* The segments *)

Started(i) == drawing[i] # "wait"
Drawn(i) == drawing[i] \in {"done", "failed"}
Finished(i) == Drawn(i) /\ voice[i] # "wait"

\* The pool takes up a segment: its picture and its voice are asked for.
TakeSegment(i) ==
    /\ vpc = "segments" /\ i \in segs
    /\ ~Started(i)
    /\ Cardinality({k \in segs : Started(k) /\ ~Finished(k)}) < PoolSize
    /\ drawing' = [drawing EXCEPT ![i] = "asked"]
    /\ UNCHANGED <<vpc, segs, shared, picture, voice, clip, made>>

\* The script of Agnes writes image_1.png, whoever wrote it before.
AgnesWrites(i) ==
    /\ drawing[i] = "asked"
    /\ shared' = i
    /\ drawing' = [drawing EXCEPT ![i] = "drawn"]
    /\ UNCHANGED <<vpc, segs, picture, voice, clip, made>>

\* It has ended well, and there is a file of that name: that is taken for the picture.
FindPicture(i) ==
    /\ drawing[i] = "drawn"
    /\ drawing' = [drawing EXCEPT ![i] = IF shared = Nothing THEN "failed" ELSE "found"]
    /\ UNCHANGED <<vpc, segs, shared, picture, voice, clip, made>>

\* The script is not there, it fails, or its time is over; it may have written the file.
AgnesFails(i) ==
    /\ drawing[i] \in {"asked", "drawn"}
    /\ drawing' = [drawing EXCEPT ![i] = "failed"]
    /\ UNCHANGED <<vpc, segs, shared, picture, voice, clip, made>>

\* Mutant of MovePicture: the picture is copied.
MovePictureCopies(i) ==
    /\ drawing[i] = "found"
    /\ IF shared = Nothing
       THEN drawing' = [drawing EXCEPT ![i] = "failed"] /\ UNCHANGED picture
       ELSE /\ drawing' = [drawing EXCEPT ![i] = "done"]
            /\ picture' = [picture EXCEPT ![i] = shared]
    /\ UNCHANGED <<vpc, segs, shared, voice, clip, made>>

\* The file is renamed; rename raises when another segment has moved it away.
MovePicture(i) ==
    /\ drawing[i] = "found"
    /\ IF shared = Nothing
       THEN drawing' = [drawing EXCEPT ![i] = "failed"] /\ UNCHANGED picture
       ELSE /\ drawing' = [drawing EXCEPT ![i] = "done"]
            /\ picture' = [picture EXCEPT ![i] = shared]
    /\ shared' = Nothing
    /\ UNCHANGED <<vpc, segs, voice, clip, made>>

\* synthesize_speech writes the track, or answers None for whatever went wrong.
Speak(i) ==
    /\ Started(i) /\ voice[i] = "wait"
    /\ \E v \in {"done", "failed"} : voice' = [voice EXCEPT ![i] = v]
    /\ UNCHANGED <<vpc, segs, shared, drawing, picture, clip, made>>

Complete == {i \in segs : drawing[i] = "done" /\ voice[i] = "done"}

\* All segments have been waited for.  Without a complete one, or without ffmpeg, the
\* slideshow is given up.
CollectSegments ==
    /\ vpc = "segments"
    /\ \A i \in segs : Finished(i)
    /\ \/ Complete # {} /\ vpc' = "clips"
       \/ vpc' = "agnes"
    /\ UNCHANGED <<segs, shared, drawing, picture, voice, clip, made>>

-----------------------------------------------------------------------------
(* The clips, and the video *)

Unclipped == {i \in Complete : clip[i] = "wait"}

\* ffmpeg makes the clips one after the other.  When it fails, or is killed after its
\* time, it leaves a part of the clip or nothing.
MakeClip ==
    /\ vpc = "clips" /\ Unclipped # {}
    /\ \E c \in {"done", "absent", "partial"} : clip' = [clip EXCEPT ![Min(Unclipped)] = c]
    /\ UNCHANGED <<vpc, segs, shared, drawing, picture, voice, made>>

ClipsMade ==
    /\ vpc = "clips" /\ Unclipped = {}
    /\ vpc' = IF \E i \in Complete : clip[i] = "done" THEN "concat" ELSE "agnes"
    /\ UNCHANGED <<segs, shared, drawing, picture, voice, clip, made>>

\* The clips that were made are joined, or ffmpeg fails.
Concat ==
    /\ vpc = "concat"
    /\ \/ made' = TRUE /\ vpc' = "tidy"
       \/ vpc' = "agnes" /\ UNCHANGED made
    /\ UNCHANGED <<segs, shared, drawing, picture, voice, clip>>

Leftover == \E i \in Complete : clip[i] = "partial"

\* The joined clips are deleted, then the directory.  rmdir raises when there is more
\* in it, and nothing up to the Writer's main handles that.
TidyUp ==
    /\ vpc = "tidy"
    /\ vpc' = IF Leftover THEN "raised" ELSE "video"
    /\ UNCHANGED <<segs, shared, drawing, picture, voice, clip, made>>

\* The fall-back: a description is asked of the language model and a video of Agnes.
AskAgnes ==
    /\ vpc = "agnes"
    /\ vpc' \in {"video", "none", "raised"}
    /\ UNCHANGED <<segs, shared, drawing, picture, voice, clip, made>>

VideoStep ==
    \/ Split \/ CollectSegments \/ MakeClip \/ ClipsMade \/ Concat \/ TidyUp \/ AskAgnes
    \/ \E i \in Segments :
           TakeSegment(i) \/ AgnesWrites(i) \/ FindPicture(i) \/ AgnesFails(i)
           \/ MovePicture(i) \/ Speak(i)

-----------------------------------------------------------------------------
(* Properties *)

\* No two segments end up with the same picture, though they all generate theirs in
\* image_1.png (_generate_segment_image): it is moved, never copied.
NoPictureTwice ==
    \A i, k \in Segments : picture[i] # Nothing /\ picture[i] = picture[k] => i = k

=============================================================================
