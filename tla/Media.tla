-------------------------------- MODULE Media --------------------------------
(***************************************************************************)
(* Photo uploads: an intent is recorded, the browser puts the file into    *)
(* quarantine with a presigned URL, and a finalize call re-encodes it,     *)
(* publishes the variants and deletes the original, which is the only copy *)
(* with EXIF (src/app/modules/media/service.py and processor.py,           *)
(* src/app/infrastructure/storage/r2.py).                                  *)
(*                                                                         *)
(* One action per call to the database or the bucket: other replicas and   *)
(* the browsers act in between.  A body is "good" if it passes validation  *)
(* and decoding, "bad" if it does not or is too large.  A folder of        *)
(* variants is identified with the call and the key it was rendered for.   *)
(***************************************************************************)
EXTENDS Naturals, Sequences, SequencesExt

CONSTANTS
  Keys,      \* media keys: uploads
  Calls,     \* finalize calls
  Variants,  \* how many derivatives an image has
  MaxKeys,   \* how many keys one call may name
  Nothing

VARIABLES
  row,       \* media collection: status
  image,     \* media collection: the folder of the published image
  url,       \* the presigned URL: "none", "live" or "expired"
  original,  \* bucket: the body in quarantine, Nothing where there is no object
  stored,    \* bucket: how many variants each folder holds
  pc,        \* where each finalize call is
  todo,      \* the keys it has not finished
  body,      \* the body it downloaded last
  answer     \* the folders of the images it answers with

uploads == <<row, image, url, original>>
calls == <<pc, todo, body, answer>>
mediaVars == <<uploads, stored, calls>>

Folders == Calls \X Keys
Bodies == {"good", "bad"}
MediaPc ==
  {"idle", "read", "fetch", "put", "publish", "clean", "reject", "drop", "stopped", "done"}

ASSUME MediaAssumption ==
  /\ {Variants, MaxKeys} \subseteq Nat \ {0}
  /\ Nothing \notin Bodies \union Folders

MediaInit ==
  /\ row = [k \in Keys |-> "none"]
  /\ image = [k \in Keys |-> Nothing]
  /\ url = [k \in Keys |-> "none"]
  /\ original = [k \in Keys |-> Nothing]
  /\ stored = [d \in Folders |-> 0]
  /\ pc = [c \in Calls |-> "idle"]
  /\ todo = [c \in Calls |-> <<>>]
  /\ body = [c \in Calls |-> Nothing]
  /\ answer = [c \in Calls |-> {}]

-----------------------------------------------------------------------------
\* create_intents, the browser and the bucket's lifecycle rule

\* The intent is recorded before its URL is handed out.
RecordIntent(k) ==
  /\ row[k] = "none"
  /\ row' = [row EXCEPT ![k] = "pending"]
  /\ UNCHANGED <<image, url, original, stored, calls>>

\* The answer with the URL, if it is ever sent: the request may die before.
HandOut(k) ==
  /\ row[k] = "pending" /\ url[k] = "none"
  /\ url' = [url EXCEPT ![k] = "live"]
  /\ UNCHANGED <<row, image, original, stored, calls>>

\* r2_upload_ttl_seconds later.
Expire(k) ==
  /\ url[k] = "live"
  /\ url' = [url EXCEPT ![k] = "expired"]
  /\ UNCHANGED <<row, image, original, stored, calls>>

\* Mutation of Upload: a URL that never expires.
UploadAnyTime(k, b) ==
  /\ url[k] # "none"
  /\ original' = [original EXCEPT ![k] = b]
  /\ UNCHANGED <<row, image, url, stored, calls>>

\* The browser puts a body, once or again: the URL is good for every PUT until it expires.
Upload(k, b) ==
  /\ url[k] = "live"
  /\ original' = [original EXCEPT ![k] = b]
  /\ UNCHANGED <<row, image, url, stored, calls>>

\* The lifecycle rule empties quarantine a day after the upload, when no URL lives.
Reap(k) ==
  /\ url[k] = "expired" /\ original[k] # Nothing
  /\ original' = [original EXCEPT ![k] = Nothing]
  /\ UNCHANGED <<row, image, url, stored, calls>>

-----------------------------------------------------------------------------
\* finalize

Goto(c, label) == pc' = [pc EXCEPT ![c] = label]

\* The next key is read, or all are done.
NextKey(c) ==
  /\ todo' = [todo EXCEPT ![c] = Tail(@)]
  /\ Goto(c, IF Len(todo[c]) = 1 THEN "done" ELSE "read")

Finalize(c, keys) ==
  /\ pc[c] = "idle"
  /\ todo' = [todo EXCEPT ![c] = keys]
  /\ Goto(c, "read")
  /\ UNCHANGED <<uploads, stored, body, answer>>

\* A published photo is answered from its row; a pending one, and one that was rejected
\* before, is worked on.  An unknown key or another owner's ends the call (see Stop).
ReadRow(c) ==
  LET k == Head(todo[c]) IN
    /\ pc[c] = "read"
    /\ \/ /\ row[k] = "published"
          /\ answer' = [answer EXCEPT ![c] = @ \union {image[k]}]
          /\ NextKey(c)
       \/ /\ row[k] \in {"pending", "rejected"}
          /\ Goto(c, "fetch")
          /\ UNCHANGED <<todo, answer>>
    /\ UNCHANGED <<uploads, stored, body>>

\* Download and render: a good body has variants, a bad one is rejected.
Download(c) ==
  LET k == Head(todo[c]) IN
    /\ pc[c] = "fetch"
    /\ original[k] # Nothing
    /\ body' = [body EXCEPT ![c] = original[k]]
    /\ Goto(c, IF original[k] = "good" THEN "put" ELSE "reject")
    /\ UNCHANGED <<uploads, stored, todo, answer>>

\* Mutation of PutVariant: published before the last variant is there.
PutAllButOne(c) ==
  LET d == <<c, Head(todo[c])>> IN
    /\ pc[c] = "put"
    /\ stored' = [stored EXCEPT ![d] = @ + 1]
    /\ Goto(c, IF stored[d] + 2 = Variants THEN "publish" ELSE "put")
    /\ UNCHANGED <<uploads, todo, body, answer>>

PutVariant(c) ==
  LET d == <<c, Head(todo[c])>> IN
    /\ pc[c] = "put"
    /\ stored' = [stored EXCEPT ![d] = @ + 1]
    /\ Goto(c, IF stored[d] + 1 = Variants THEN "publish" ELSE "put")
    /\ UNCHANGED <<uploads, todo, body, answer>>

\* Mutation of Publish: the original goes first, the row is updated after it.
DeleteFirst(c) ==
  LET k == Head(todo[c]) IN
    /\ pc[c] = "publish"
    /\ original' = [original EXCEPT ![k] = Nothing]
    /\ Goto(c, "clean")
    /\ UNCHANGED <<row, image, url, stored, todo, body, answer>>

\* The row is set, whatever it has become since it was read.
Publish(c) ==
  LET k == Head(todo[c]) IN
    /\ pc[c] = "publish"
    /\ row' = [row EXCEPT ![k] = "published"]
    /\ image' = [image EXCEPT ![k] = <<c, k>>]
    /\ Goto(c, "clean")
    /\ UNCHANGED <<url, original, stored, todo, body, answer>>

\* Delete the original; a failure is swallowed.
DeleteOriginal(c) ==
  LET k == Head(todo[c]) IN
    /\ pc[c] = "clean"
    /\ original' \in {original, [original EXCEPT ![k] = Nothing]}
    /\ answer' = [answer EXCEPT ![c] = @ \union {<<c, k>>}]
    /\ NextKey(c)
    /\ UNCHANGED <<row, image, url, stored, body>>

\* _reject: the row first, then the object, and the call fails.
Reject(c) ==
  LET k == Head(todo[c]) IN
    /\ pc[c] = "reject"
    /\ row' = [row EXCEPT ![k] = "rejected"]
    /\ Goto(c, "drop")
    /\ UNCHANGED <<image, url, original, stored, todo, body, answer>>

DropRejected(c) ==
  LET k == Head(todo[c]) IN
    /\ pc[c] = "drop"
    /\ original' \in {original, [original EXCEPT ![k] = Nothing]}
    /\ Goto(c, "stopped")
    /\ UNCHANGED <<row, image, url, stored, todo, body, answer>>

\* A call ends early: refused, failing on a missing object or in the bucket, or dying.
Stop(c) ==
  /\ pc[c] \notin {"idle", "stopped", "done"}
  /\ Goto(c, "stopped")
  /\ UNCHANGED <<uploads, stored, todo, body, answer>>

-----------------------------------------------------------------------------
FinalizeStep(c) ==
  \/ ReadRow(c) \/ Download(c) \/ PutVariant(c) \/ Publish(c) \/ DeleteOriginal(c)
  \/ Reject(c) \/ DropRejected(c) \/ Stop(c)

\* The keys of one call, in order.  Bound: no key twice, which would be answered from
\* its row the second time.
KeyLists == {s \in SeqOf(Keys, MaxKeys) : s # <<>> /\ IsInjective(s)}

MediaNext ==
  \/ \E k \in Keys : RecordIntent(k) \/ HandOut(k) \/ Expire(k) \/ Reap(k)
  \/ \E k \in Keys, b \in Bodies : Upload(k, b)
  \/ \E c \in Calls, keys \in KeyLists : Finalize(c, keys)
  \/ \E c \in Calls : FinalizeStep(c)

\* Time passes, and the lifecycle rule runs; nothing is assumed of browsers and calls.
MediaFairness == \A k \in Keys : WF_mediaVars(Expire(k)) /\ WF_mediaVars(Reap(k))

MediaSpec == MediaInit /\ [][MediaNext]_mediaVars /\ MediaFairness

-----------------------------------------------------------------------------
\* Properties

\* Every variable stays in its type.
MediaTypeOK ==
  /\ row \in [Keys -> {"none", "pending", "published", "rejected"}]
  /\ image \in [Keys -> Folders \union {Nothing}]
  /\ url \in [Keys -> {"none", "live", "expired"}]
  /\ original \in [Keys -> Bodies \union {Nothing}]
  /\ stored \in [Folders -> 0..Variants]
  /\ pc \in [Calls -> MediaPc]
  /\ todo \in [Calls -> {<<>>} \union KeyLists]
  /\ body \in [Calls -> Bodies \union {Nothing}]
  /\ answer \in [Calls -> SUBSET Folders]

\* Every image that is published, or that a call has answered with, has all its variants
\* in the bucket: whatever calls raced for it, and wherever one of them died.
PublishedImageServes ==
  /\ \A k \in Keys : row[k] = "published" => image[k] # Nothing /\ stored[image[k]] = Variants
  /\ \A c \in Calls : \A d \in answer[c] : stored[d] = Variants

\* A rejection is under way for another body that was uploaded under the key.
RejectsOther(c, k) == pc[c] = "drop" /\ Head(todo[c]) = k /\ body[c] = "bad"

\* A good photo leaves quarantine only after an image of its upload was published, or by
\* the lifecycle rule, or with a bad body that was put under the same key.
PhotoNotLost ==
  [][\A k \in Keys :
       original[k] = "good" /\ original'[k] = Nothing =>
         image[k] # Nothing \/ Reap(k) \/ \E c \in Calls : RejectsOther(c, k)]_mediaVars

\* "The lifecycle rule below is the real guarantee": in the end no original, and with it
\* no EXIF, is left in quarantine, whichever calls died or failed to delete it.
QuarantineEmpties == \A k \in Keys : <>[](original[k] = Nothing)
=============================================================================
