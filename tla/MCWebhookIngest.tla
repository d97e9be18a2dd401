--------------------------- MODULE MCWebhookIngest ---------------------------
(* Queues for TLC to check WebhookIngest on.                               *)
EXTENDS WebhookIngest

(* Three good messages: two tracked ones around one without an _id.        *)
GoodBody   == <<"object", "object", "object">>
GoodWrites == <<2, 1, 1>>
AllFirst   == <<1, 1, 1>>

(* The same, and then a fourth that cannot be logged.                      *)
FaultBody   == <<"object", "object", "object", "unwritable">>
FaultWrites == <<2, 1, 1, 1>>
FourFirst   == <<1, 1, 1, 1>>

(* Not JSON, one that parses only later, one with a bad SafeKey (3), and   *)
(* one whose Cmd has a handler only later.                                 *)
MixedBody    == <<"nonjson", "object", "object", "object">>
MixedWrites  == <<1, 1, 1, 2>>
MixedParses  == <<1, 2, 1, 1>>
MixedHandled == <<1, 1, 1, 2>>

(* A body that is not JSON, one with a bad SafeKey, and one that parses    *)
(* only under the second version.                                          *)
DrainBody == <<"nonjson", "object", "object">>
LateThird == <<1, 1, 2>>

(* A queue whose second body is JSON, but no object, and whose third is an *)
(* object that cannot be logged.                                           *)
PoisonBody == <<"object", "nonobject", "unwritable">>
=============================================================================
