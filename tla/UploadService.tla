---------------------------- MODULE UploadService ----------------------------
(***************************************************************************)
(* What the device resource manager (TenEngine-030) promises a caller who  *)
(* uploads data to the GPU: a request is answered once; it is answered     *)
(* with success only when the GPU object holds the caller's own data; and  *)
(* nothing writes to the object after the answer.  The device may lose the *)
(* data of an upload on the way without saying so: that upload may be      *)
(* answered with success all the same and what its object holds is         *)
(* anyone's, but no other upload suffers.  Staging buffers, command lists, *)
(* fences, threads and cancellation are left out.                          *)
(*                                                                         *)
(* DeviceUpload implements this specification.                             *)
(***************************************************************************)
CONSTANTS Upload,     \* uploads asked for; each one's data is named for it
          NoData      \* what a new GPU object holds

VARIABLES answer,     \* what each caller has been told
          content,    \* what each GPU object holds
          lost        \* history: the uploads whose data the device has lost

vars == <<answer, content, lost>>

TypeOK == /\ answer \in [Upload -> {"unasked", "pending", "success", "failure"}]
          /\ content \in [Upload -> Upload \union {NoData}]
          /\ lost \subseteq Upload

Init == /\ answer = [u \in Upload |-> "unasked"]
        /\ content = [u \in Upload |-> NoData]
        /\ lost = {}

\* The data may be lost at once.
Request(u) == /\ answer[u] = "unasked"
              /\ answer' = [answer EXCEPT ![u] = "pending"]
              /\ UNCHANGED content
              /\ lost' \in {lost, lost \union {u}}

\* The GPU object could not be created: nothing was started.
Refuse(u) == /\ answer[u] = "unasked"
             /\ answer' = [answer EXCEPT ![u] = "failure"]
             /\ UNCHANGED <<content, lost>>

\* Only what has not arrived can be lost.
Lose(u) == /\ answer[u] = "pending"
           /\ content[u] = NoData
           /\ lost' = lost \union {u}
           /\ UNCHANGED <<answer, content>>

Copy(u) == /\ answer[u] = "pending"
           /\ content[u] = NoData
           /\ content' = [content EXCEPT ![u] = u]
           /\ UNCHANGED <<answer, lost>>

\* Instead of the data that was lost the object gets some other, sooner or later.
Spoil(u, data) == /\ u \in lost
                  /\ content' = [content EXCEPT ![u] = data]
                  /\ UNCHANGED <<answer, lost>>

Succeed(u) == /\ answer[u] = "pending"
              /\ content[u] = u \/ u \in lost
              /\ answer' = [answer EXCEPT ![u] = "success"]
              /\ UNCHANGED <<content, lost>>

Fail(u) == /\ answer[u] = "pending"
           /\ answer' = [answer EXCEPT ![u] = "failure"]
           /\ UNCHANGED <<content, lost>>

Next == \E u \in Upload :
           \/ Request(u) \/ Refuse(u) \/ Lose(u) \/ Copy(u) \/ Succeed(u) \/ Fail(u)
           \/ \E data \in Upload \union {NoData} : Spoil(u, data)

Spec == Init /\ [][Next]_vars

=============================================================================
