----------------------------- MODULE DragOverlay -----------------------------
(***************************************************************************)
(* The overlay DragDropZone shows while files are dragged over the list.   *)
(* The browser enters an element before it leaves the one before, so that  *)
(* the zone counts; it says nothing when an element goes away under the    *)
(* pointer, as rows do when the list is fetched again.                     *)
(***************************************************************************)
EXTENDS Naturals

CONSTANT MaxEntered     \* bound on dragCounterRef

ASSUME DragOverlayAssumption == MaxEntered \in Nat

VARIABLES
    over,           \* elements of the zone entered and not left
    carriesFiles,   \* what is dragged includes files
    dragCounter,
    isDragOver,
    vanished        \* an element went away under the pointer since the last reset

overlayVars == <<over, carriesFiles, dragCounter, isDragOver, vanished>>

OverlayTypeOK ==
    /\ over \in 0 .. 2 /\ dragCounter \in 0 .. MaxEntered
    /\ carriesFiles \in BOOLEAN /\ isDragOver \in BOOLEAN /\ vanished \in BOOLEAN

OverlayInit ==
    /\ over = 0 /\ dragCounter = 0
    /\ carriesFiles = FALSE /\ isDragOver = FALSE /\ vanished = FALSE

(* Over the zone, or over one of its elements when it was over another.    *)
DragEnter ==
    /\ over < 2 /\ dragCounter < MaxEntered
    /\ over' = over + 1
    /\ dragCounter' = dragCounter + 1
    /\ IF over = 0 THEN carriesFiles' \in BOOLEAN ELSE UNCHANGED carriesFiles
    /\ isDragOver' = (isDragOver \/ carriesFiles')
    /\ UNCHANGED vanished

(* Mutant: every leave hides the overlay.                                  *)
DragLeaveHides ==
    /\ over > 0
    /\ over' = over - 1
    /\ dragCounter' = dragCounter - 1
    /\ isDragOver' = FALSE
    /\ UNCHANGED <<carriesFiles, vanished>>

(* Also when the drag is given up.                                         *)
DragLeave ==
    /\ over > 0
    /\ over' = over - 1
    /\ dragCounter' = dragCounter - 1
    /\ isDragOver' = (isDragOver /\ dragCounter' > 0)
    /\ vanished' = (vanished /\ dragCounter' > 0)
    /\ UNCHANGED carriesFiles

Vanish ==
    /\ over > 0
    /\ over' = over - 1
    /\ vanished' = TRUE
    /\ UNCHANGED <<carriesFiles, dragCounter, isDragOver>>

DropReset ==
    /\ over > 0
    /\ over' = 0 /\ dragCounter' = 0
    /\ isDragOver' = FALSE /\ vanished' = FALSE
    /\ UNCHANGED carriesFiles

OverlayNext == DragEnter \/ DragLeave \/ Vanish \/ DropReset

(* The overlay is there for as long as files are over the zone, however    *)
(* the pointer moves between its elements, and stays behind only when an   *)
(* element went away under it.                                             *)
OverlayWhileOver ==
    /\ over > 0 /\ carriesFiles => isDragOver
    /\ isDragOver /\ over = 0 => vanished
=============================================================================
