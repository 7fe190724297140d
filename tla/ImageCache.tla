------------------------------ MODULE ImageCache ------------------------------
(***************************************************************************)
(* The skin images of econ_item_system: the menu asks for an image in every*)
(* frame; the first request reads the packed file from its archive and     *)
(* starts a pool job that decodes it, a later one turns the decoded pixels *)
(* into a texture.  One mutex guards the entries; the menu holds it while  *)
(* it reads the archive, and a job holds it while it decodes.              *)
(***************************************************************************)
EXTENDS Integers

CONSTANTS
  Images,     \* image_inventory paths
  Archives,   \* archives of packed files
  ArchiveOf,  \* the archive of each image
  Flushes     \* bound: calls of flush_skin_images, which nothing calls today

ASSUME ArchiveAssumption == ArchiveOf \in [Images -> Archives]
ASSUME FlushesAssumption == Flushes \in Nat

VARIABLES
  state,    \* state of the entry of each image, "absent" without an entry
  pixels,   \* has the entry mip buffers
  texture,  \* has the entry a texture
  stream,   \* the open handle of each archive
  lock,     \* who holds m_image_mutex
  menu,     \* where get_skin_image is
  image,    \* the image that the holder of the mutex is at
  data,     \* what was read of it: a sound file, or zeros and leftovers
  jobs,     \* decode jobs not begun, per image and by what they carry
  flushed,  \* counts against Flushes
  closing   \* a flush has not closed the archives yet

vars == <<state, pixels, texture, stream, lock, menu, image, data, jobs, flushed, closing>>

entry == <<state, pixels, texture>>

Init ==
  /\ state = [k \in Images |-> "absent"]
  /\ pixels = [k \in Images |-> FALSE]
  /\ texture = [k \in Images |-> FALSE]
  /\ stream = [a \in Archives |-> "closed"]
  /\ lock = "free"
  /\ menu = "idle"
  /\ image \in Images
  /\ data = "sound"
  /\ jobs = [k \in Images |-> [d \in {"sound", "broken"} |-> 0]]
  /\ flushed = 0
  /\ closing = FALSE

-----------------------------------------------------------------------------
\* get_skin_image takes the mutex and looks the entry up.
Ask(k) ==
  /\ menu = "idle" /\ lock = "free"
  /\ lock' = "menu"
  /\ image' = k
  /\ menu' = "lookup"
  /\ UNCHANGED <<entry, stream, data, jobs, flushed, closing>>

Leave == menu' = "idle" /\ lock' = "free"

\* An image that is ready is drawn; one that is idle, loading or failed is not.
Answer ==
  /\ menu = "lookup"
  /\ state[image] \in {"idle", "loading", "ready", "failed"}
  /\ Leave
  /\ UNCHANGED <<entry, stream, image, data, jobs, flushed, closing>>

\* finalize_texture uploads decoded pixels, or fails for want of a device, of
\* pixels or of a resource.
Finalize ==
  /\ menu = "lookup"
  /\ state[image] = "decoded"
  /\ \/ /\ pixels[image]
        /\ state' = [state EXCEPT ![image] = "ready"]
        /\ texture' = [texture EXCEPT ![image] = TRUE]
        /\ pixels' = [pixels EXCEPT ![image] = FALSE]
     \/ /\ state' = [state EXCEPT ![image] = "failed"]
        /\ UNCHANGED <<pixels, texture>>
  /\ Leave
  /\ UNCHANGED <<stream, image, data, jobs, flushed, closing>>

\* Mutated forms used to test the properties stand before what they mutate.
InsertAlways ==
  /\ menu = "lookup"
  /\ state[image] \in {"absent", "loading"}
  /\ state' = [state EXCEPT ![image] = "idle"]
  /\ menu' = "read"
  /\ UNCHANGED <<pixels, texture, stream, lock, image, data, jobs, flushed, closing>>

\* The first request makes an idle entry and goes on to request_decode.
Insert ==
  /\ menu = "lookup"
  /\ state[image] = "absent"
  /\ state' = [state EXCEPT ![image] = "idle"]
  /\ menu' = "read"
  /\ UNCHANGED <<pixels, texture, stream, lock, image, data, jobs, flushed, closing>>

\* read_vpk yields nothing for an unknown path or an archive that cannot be
\* opened.
ReadNothing ==
  /\ menu = "read"
  /\ state' = [state EXCEPT ![image] = "failed"]
  /\ Leave
  /\ UNCHANGED <<pixels, texture, stream, image, data, jobs, flushed, closing>>

\* A read that comes up short leaves the handle of the archive in its failed
\* state, in which every later seek and read of it does nothing: the buffer of
\* the wanted length is returned all the same.
ReadFile ==
  /\ menu = "read"
  /\ \/ /\ stream[ArchiveOf[image]] \in {"closed", "open"}
        /\ stream' = [stream EXCEPT ![ArchiveOf[image]] = "open"]
        /\ data' = "sound"
     \/ /\ stream' = [stream EXCEPT ![ArchiveOf[image]] = "bad"]
        /\ data' = "broken"
  /\ state' = [state EXCEPT ![image] = "loading"]
  /\ menu' = "submit"
  /\ UNCHANGED <<pixels, texture, lock, image, jobs, flushed, closing>>

\* threadpool::run only queues the job; the mutex is still held.
Submit ==
  /\ menu = "submit"
  /\ jobs' = [jobs EXCEPT ![image][data] = @ + 1]
  /\ Leave
  /\ UNCHANGED <<entry, stream, image, data, flushed, closing>>

-----------------------------------------------------------------------------
\* A pool thread begins a decode job: it waits for the mutex.
Begin(k, d) ==
  /\ jobs[k][d] > 0
  /\ lock = "free"
  /\ lock' = "job"
  /\ jobs' = [jobs EXCEPT ![k][d] = @ - 1]
  /\ image' = k
  /\ data' = d
  /\ UNCHANGED <<entry, stream, menu, flushed, closing>>

DecodeForgetsFailure ==
  /\ lock = "job"
  /\ lock' = "free"
  /\ \/ /\ data = "sound" /\ state[image] # "absent"
        /\ state' = [state EXCEPT ![image] = "decoded"]
        /\ pixels' = [pixels EXCEPT ![image] = TRUE]
     \/ UNCHANGED <<state, pixels>>
  /\ UNCHANGED <<texture, stream, menu, image, data, jobs, flushed, closing>>

DecodeStoresFirst ==
  /\ lock = "job"
  /\ lock' = "free"
  /\ IF state[image] = "absent"
     THEN UNCHANGED <<state, pixels>>
     ELSE /\ state' = [state EXCEPT ![image] = "decoded"]
          /\ pixels' = [pixels EXCEPT ![image] = data = "sound"]
  /\ UNCHANGED <<texture, stream, menu, image, data, jobs, flushed, closing>>

\* It looks its entry up again, since the cache may have been flushed; a file
\* that decode_vtex rejects leaves the pixels alone.
Decode ==
  /\ lock = "job"
  /\ lock' = "free"
  /\ \/ /\ state[image] = "absent"
        /\ UNCHANGED <<state, pixels>>
     \/ /\ data = "sound" /\ state[image] # "absent"
        /\ state' = [state EXCEPT ![image] = "decoded"]
        /\ pixels' = [pixels EXCEPT ![image] = TRUE]
     \/ /\ state[image] # "absent"
        /\ state' = [state EXCEPT ![image] = "failed"]
        /\ UNCHANGED pixels
  /\ UNCHANGED <<texture, stream, menu, image, data, jobs, flushed, closing>>

\* flush_skin_images empties the cache, then the archive handles.
Flush ==
  /\ lock = "free"
  /\ ~closing
  /\ flushed < Flushes
  /\ closing' = TRUE
  /\ flushed' = flushed + 1
  /\ state' = [k \in Images |-> "absent"]
  /\ pixels' = [k \in Images |-> FALSE]
  /\ texture' = [k \in Images |-> FALSE]
  /\ UNCHANGED <<stream, lock, menu, image, data, jobs>>

CloseArchives ==
  /\ closing
  /\ closing' = FALSE
  /\ stream' = [a \in Archives |-> "closed"]
  /\ UNCHANGED <<entry, lock, menu, image, data, jobs, flushed>>

Menu ==
  \/ Answer \/ Finalize \/ Insert
  \/ ReadNothing \/ ReadFile \/ Submit

Job == \E k \in Images, d \in {"sound", "broken"} : Begin(k, d)

Next ==
  \/ \E k \in Images : Ask(k)
  \/ Menu
  \/ Job
  \/ Decode
  \/ Flush
  \/ CloseArchives

Spec == Init /\ [][Next]_vars

\* A thread that holds the mutex goes on, and the pool's threads get it in the
\* end, however often the menu takes it.
FairSpec == Spec /\ WF_vars(Menu) /\ WF_vars(Decode)
                 /\ \A k \in Images, d \in {"sound", "broken"} : SF_vars(Begin(k, d))

-----------------------------------------------------------------------------
TypeOK ==
  /\ state \in [Images -> {"absent", "idle", "loading", "decoded", "ready", "failed"}]
  /\ pixels \in [Images -> BOOLEAN]
  /\ texture \in [Images -> BOOLEAN]
  /\ stream \in [Archives -> {"closed", "open", "bad"}]
  /\ lock \in {"free", "menu", "job"}
  /\ menu \in {"idle", "lookup", "read", "submit"}
  /\ image \in Images
  /\ data \in {"sound", "broken"}
  /\ jobs \in [Images -> [{"sound", "broken"} -> 0 .. Flushes + 1]]
  /\ flushed \in 0 .. Flushes
  /\ closing \in BOOLEAN

Pending(k) == jobs[k]["sound"] + jobs[k]["broken"]

\* An image is ready only with a texture to draw, and decoded only with pixels
\* to upload, however late a job of an earlier request comes.
StateTellsData ==
  \A k \in Images :
    /\ state[k] = "ready" => texture[k]
    /\ state[k] = "decoded" => pixels[k]

\* An image is read and decoded once: while the cache is not flushed no second
\* job comes for it.
DecodedOnce ==
  flushed = 0 => \A k \in Images :
    /\ Pending(k) <= 1
    /\ Pending(k) = 1 => state[k] = "loading"

\* An image that is loading gets decoded or fails.
LoadingEnds == \A k \in Images : state[k] = "loading" ~> state[k] # "loading"
=============================================================================
