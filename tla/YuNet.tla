-------------------------------- MODULE YuNet --------------------------------
(***************************************************************************)
(* The face detector of project-b/presenced/face.py: a camera handle and a *)
(* detector network, both opened lazily by the first detect().  One action *)
(* per way a call of detect() can end, and close().  Which of them happens *)
(* is decided by the camera and the model file, so a caller that knows     *)
(* more about its camera conjoins it to the action.                        *)
(***************************************************************************)
EXTENDS Integers

CONSTANTS Widths, Heights       \* frame sizes the camera may deliver

VARIABLES
    cap,        \* _cap: "none", "unopened" (VideoCapture that failed), "open"
    det,        \* input size the network is set to, None without a network
    size,       \* _size: input size the code believes the network has
    frame,      \* size of the last frame the open camera delivered
    answer      \* how the last detect() ended, "none" before the first

vars == <<cap, det, size, frame, answer>>

Sizes == Widths \X Heights
None == <<0, 0>>                \* no frame has this size
CreatedSize == <<320, 320>>     \* input_size in FaceDetectorYN.create

Init ==
    /\ cap = "none"
    /\ det = None
    /\ size = None
    /\ frame = None
    /\ answer = "none"

(* _lazy_init raises before the network exists: no model path, no cv2, or  *)
(* create() rejects the file.                                              *)
ModelFails ==
    /\ cap = "none"
    /\ answer' = "raised"
    /\ UNCHANGED <<cap, det, size, frame>>

(* _lazy_init raises after _cap is assigned: the camera did not open.      *)
CameraFails ==
    /\ cap = "none"
    /\ cap' = "unopened"
    /\ det' = CreatedSize
    /\ answer' = "raised"
    /\ UNCHANGED <<size, frame>>

(* _lazy_init returns: it opens everything, or it did so earlier.          *)
lazy_init ==
    IF cap # "none" THEN UNCHANGED cap ELSE cap' = "open"

DetInit == IF cap # "none" THEN det ELSE CreatedSize

(* _cap.read() returns no frame; an unopened capture never returns one.    *)
ReadFails ==
    /\ lazy_init
    /\ det' = DetInit
    /\ answer' = "noface"
    /\ UNCHANGED <<size, frame>>

(* Slip: only the width of the new frame is compared. *)
OtherWidth(s) == size[1] # s[1]
OtherSize(s) == size # s

(* Slip: frame.shape is (height, width), unpacked in the wrong order. *)
Transposed(s) == <<s[2], s[1]>>
Unpacked(s) == s

(* A frame of size s arrives; the network is resized when s is new. *)
FrameArrives(s) ==
    /\ cap # "unopened"
    /\ lazy_init
    /\ frame' = s
    /\ det' = IF OtherSize(Unpacked(s)) THEN Unpacked(s) ELSE DetInit
    /\ size' = IF OtherSize(Unpacked(s)) THEN Unpacked(s) ELSE size

FrameAnswers(s, face) ==
    /\ FrameArrives(s)
    /\ answer' = IF face THEN "face" ELSE "noface"

(* The network raises on a frame it was already resized for.               *)
InferenceFails(s) ==
    /\ FrameArrives(s)
    /\ answer' = "raised"

close ==
    /\ cap' = "none"
    /\ det' = None
    /\ size' = None
    /\ frame' = None
    /\ UNCHANGED answer

detect ==
    \/ ModelFails
    \/ CameraFails
    \/ ReadFails
    \/ \E s \in Sizes :
          \/ InferenceFails(s)
          \/ \E face \in BOOLEAN : FrameAnswers(s, face)

Next == detect \/ close

Spec == Init /\ [][Next]_vars

------------------------------------------------------------------------------

TypeOK ==
    /\ cap \in {"none", "unopened", "open"}
    /\ det \in Sizes \cup {CreatedSize, None}
    /\ size \in Sizes \cup {None}
    /\ frame \in Sizes \cup {None}
    /\ answer \in {"none", "face", "noface", "raised"}

(* face.py skips setInputSize when the frame's size is the remembered one, *)
(* yet the network always has the size of the frame it is given, across    *)
(* resolution changes, failed opens and failed inferences.                 *)
DetectorSized ==
    /\ frame # None => det = frame
    /\ cap = "none" <=> det = None

(* What test_yunet_missing_camera_raises promises of a camera that did not *)
(* open: a call of detect() raises, it does not answer.                    *)
MissingCameraRaises == cap = "unopened" => answer = "raised"

==============================================================================
