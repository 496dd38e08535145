----------------------------- MODULE ParcelValues -----------------------------
(***************************************************************************)
(* Values of base/ on their way through a parcel                           *)
(* (transport/HidlBinderSupport.cpp and .h): Status as the head of a       *)
(* reply, hidl_version packed in one word, and the buffers and handles     *)
(* that hidl_string, hidl_vec, hidl_memory and MQDescriptor embed in the   *)
(* buffer of their parent.                                                 *)
(*                                                                         *)
(* A parcel is a sequence of what was written, a record per write.  Any    *)
(* write may fail.  The other endpoint need not run this code ("if the     *)
(* client or service is a Java endpoint, this is not the logic which will  *)
(* provide/interpret the data", HidlBinderSupport.h): it may put a header  *)
(* before a reply, leave a message out or write less than is read, and     *)
(* the buffers in its parcel may not be what their parent says they are.   *)
(***************************************************************************)
EXTENDS Integers, Sequences

CONSTANTS VersionValues,  \* number of values of a version number, 2^16
          Errors,         \* errors of a transaction
          Exceptions,     \* exception codes other than the reserved ones
          Texts,          \* what an exception says
          TextLengths,    \* lengths of such texts
          HeaderSizes,    \* sizes of a reply header, in words
          Sizes           \* sizes of a string or a vector

VARIABLES sent,      \* the value; of an embedded one, what its parent says it is
          content,   \* the value the parcel was written for
          parcelled, \* what the writes returned, and the parcel
          received   \* what the reader makes of it

valueParcelVars == <<sent, content, parcelled, received>>

OK == 0
NO_MEMORY == -12
BAD_VALUE == -22
NOT_ENOUGH_DATA == -61
UNEXPECTED_NULL == -2147483640
EX_NONE == 0
EX_HAS_REPLY_HEADER == -128
EX_TRANSACTION_FAILED == -129
Reserved == {EX_NONE, EX_HAS_REPLY_HEADER, EX_TRANSACTION_FAILED}

ASSUME ParcelValuesAssumption ==
    /\ VersionValues \in Nat \ {0}
    /\ Errors \subseteq Int /\ OK \notin Errors
    /\ Exceptions \subseteq Int /\ Exceptions \cap Reserved = {}
    /\ TextLengths \subseteq Nat
    /\ HeaderSizes \subseteq Nat \ {0}
    /\ Sizes \subseteq Nat

-----------------------------------------------------------------------------
(* A message: a C string, valid UTF-8 or not.                              *)
Messages == [text : Texts, length : TextLengths, valid : BOOLEAN]
EmptyMessage == [text |-> "none", length |-> 0, valid |-> TRUE]
NullMessage == [text |-> "null", length |-> -1, valid |-> TRUE]

(* The String16 made of a message (external), empty unless the message is  *)
(* valid UTF-8; a String8 made of that is the message again.               *)
String16(m) == IF m.valid THEN m ELSE EmptyMessage

Status(ex, error, message) == [what |-> "status", mException |-> ex,
                               mErrorCode |-> error, mMessage |-> message]

(* fromStatusT() and setFromStatusT().                                     *)
fromStatusT(status) ==
    Status(IF status = OK THEN EX_NONE ELSE EX_TRANSACTION_FAILED, status, EmptyMessage)

(* fromExceptionCode() and setException(); ok() is the first for EX_NONE.  *)
fromExceptionCode(ex, message) == Status(ex, OK, message)

StatusIsOk(s) == s.mException = EX_NONE

(* What an implementation can return as its Status.                        *)
StatusValues ==
    {fromStatusT(e) : e \in Errors \union {OK}}
    \union UNION {{fromExceptionCode(ex, m) : ex \in Exceptions \union Reserved} :
                      m \in Messages}

(* What another endpoint can put in front of the results: a header, whose  *)
(* size includes the size field, or an exception, with or without message. *)
OtherReplies ==
    [what : {"header"}, size : HeaderSizes]
    \union [what : {"exception"}, code : Exceptions \union {EX_TRANSACTION_FAILED},
            message : {m \in Messages : m.valid} \union {NullMessage}]

Versions == [what : {"version"}, major : 0..(VersionValues - 1),
             minor : 0..(VersionValues - 1)]

(* A string of some size, terminated or not (setToExternal can leave it    *)
(* unterminated); what a vector, memory or descriptor embeds.              *)
StringsSent == [what : {"string"}, size : Sizes, terminated : BOOLEAN]
Vectors == [what : {"vec"}, size : Sizes]
Embedded ==
    StringsSent
    \union Vectors
    \union [what : {"memory"}, handle : BOOLEAN, name : StringsSent]
    \union [what : {"mq"}, grantors : Vectors, handle : BOOLEAN]

Values == StatusValues \union Versions \union Embedded

Nothing == [what |-> "nothing"]

ParcelInit ==
    /\ sent = Nothing /\ content = Nothing /\ received = Nothing
    /\ parcelled = [result |-> OK, objects |-> <<>>]

-----------------------------------------------------------------------------
(* What is in a parcel (external): words and strings; a buffer or a native *)
(* handle, embedded at an offset of the parent.                            *)
Int32(n) == [type |-> "int32", value |-> n]
Utf16(m) == [type |-> "string16", message |-> m]
Buffer(length, terminated, at) == [type |-> "buffer", length |-> length,
                                   terminated |-> terminated, offset |-> at]
NativeHandle(present, at) == [type |-> "handle", present |-> present, offset |-> at]

(* Writes in turn, up to the first that fails; failAt = 0 if none does.    *)
InTurn(objects, failAt) ==
    IF failAt \in DOMAIN objects
    THEN [result |-> NO_MEMORY, objects |-> SubSeq(objects, 1, failAt - 1)]
    ELSE [result |-> OK, objects |-> objects]

(* A read of object i (external): its status and what it gives.  A string  *)
(* begins with its length.                                                 *)
Read(status, value) == [status |-> status, value |-> value]

readInt32(p, i) ==
    IF i \notin DOMAIN p THEN Read(NOT_ENOUGH_DATA, 0)
    ELSE IF p[i].type = "int32" THEN Read(OK, p[i].value)
    ELSE Read(OK, p[i].message.length)

readString16(p, i) ==
    IF i \notin DOMAIN p THEN Read(NOT_ENOUGH_DATA, EmptyMessage)
    ELSE IF p[i].message = NullMessage THEN Read(UNEXPECTED_NULL, EmptyMessage)
    ELSE Read(OK, p[i].message)

ReadBuffer(p, i, length, at) ==
    IF i \in DOMAIN p /\ p[i].type = "buffer" /\ p[i].length = length /\ p[i].offset = at
    THEN OK ELSE BAD_VALUE
ReadHandle(p, i, at) ==
    IF i \in DOMAIN p /\ p[i].type = "handle" /\ p[i].offset = at THEN OK ELSE BAD_VALUE

-----------------------------------------------------------------------------
(* writeToParcel(Status): a failed transaction is returned, not written.   *)
StatusObjects(s) ==
    IF s.mException = EX_TRANSACTION_FAILED THEN <<>>
    ELSE IF StatusIsOk(s) THEN <<Int32(s.mException)>>
    ELSE <<Int32(s.mException), Utf16(String16(s.mMessage))>>

(* Plausible bugs, used only to show that the properties can fail.         *)
EarlyReturnsDropped(s, failAt) ==
    InTurn(<<Int32(s.mException), Utf16(String16(s.mMessage))>>, failAt)

WriteStatus(s, failAt) ==
    IF s.mException = EX_TRANSACTION_FAILED
    THEN [result |-> s.mErrorCode, objects |-> <<>>]
    ELSE InTurn(StatusObjects(s), failAt)

(* readFromParcel(Status): the status, and the position from which the     *)
(* results are read, if there are any.  A reply header is skipped, and no  *)
(* exception follows it.                                                   *)
NoResults(s) == [status |-> s, next |-> 0]
ReadOk(next) == [status |-> Status(EX_NONE, OK, EmptyMessage), next |-> next]

ReadStatus(p) ==
    LET code == readInt32(p, 1)
        header_size == readInt32(p, 2)
        message == readString16(p, 2)
    IN  IF code.status # OK THEN NoResults(fromStatusT(code.status))
        ELSE IF code.value = EX_HAS_REPLY_HEADER
        THEN IF header_size.status # OK THEN NoResults(fromStatusT(header_size.status))
             ELSE ReadOk(2 + header_size.value)
        ELSE IF code.value = EX_NONE THEN ReadOk(2)
        ELSE IF message.status # OK THEN NoResults(fromStatusT(message.status))
        ELSE NoResults(fromExceptionCode(code.value, message.value))

(* writeToParcel(hidl_version) and readFromParcel(), which gives no object *)
(* if it cannot read; one 32 bit word.                                     *)
WriteVersion(v) == v.major * VersionValues + v.minor
ReadVersion(p) ==
    LET word == readInt32(p, 1) IN
    IF word.status # OK THEN Read(word.status, Nothing)
    ELSE Read(OK, [what |-> "version", major |-> word.value \div VersionValues,
                   minor |-> word.value % VersionValues])

(* hidl_version's operator<.                                               *)
VersionBefore(v, w) == v.major < w.major \/ (v.major = w.major /\ v.minor < w.minor)

(* writeEmbeddedToParcel, for a value at an offset of its parent.  A       *)
(* string is written with its terminator, or what stands in its place.     *)
WriteString(s, at) == <<Buffer(s.size + 1, s.terminated, at)>>
WriteVec(v, at) == <<Buffer(v.size, FALSE, at)>>
WriteMemory(m, at) == <<NativeHandle(m.handle, at)>> \o WriteString(m.name, at + 24)
WriteMQ(q, at) == WriteVec(q.grantors, at) \o <<NativeHandle(q.handle, at + 16)>>

Then(first, second) == IF first # OK THEN first ELSE second

(* readEmbeddedFromParcel: the receiver has the parent, and with it the    *)
(* sizes, and asks for the objects in turn.  A string must be terminated.  *)
ReadString(s, at, p, i) ==
    Then(ReadBuffer(p, i, s.size + 1, at), IF p[i].terminated THEN OK ELSE BAD_VALUE)
ReadVec(v, at, p, i) == ReadBuffer(p, i, v.size, at)
ReadMemory(m, at, p) == Then(ReadHandle(p, 1, at), ReadString(m.name, at + 24, p, 2))
ReadMQ(q, at, p) == Then(ReadVec(q.grantors, at, p, 1), ReadHandle(p, 2, at + 16))

-----------------------------------------------------------------------------
(* The objects of a value, if every write succeeds.                        *)
Written(v) ==
    CASE v.what = "status"    -> StatusObjects(v)
      [] v.what = "header"    -> [k \in 1..(v.size + 1) |->
                                    Int32(CASE k = 1 -> EX_HAS_REPLY_HEADER
                                            [] k = 2 -> v.size
                                            [] OTHER -> 0)]
      [] v.what = "exception" -> <<Int32(v.code), Utf16(v.message)>>
      [] v.what = "version"   -> <<Int32(WriteVersion(v))>>
      [] v.what = "string"    -> WriteString(v, 0)
      [] v.what = "vec"       -> WriteVec(v, 0)
      [] v.what = "memory"    -> WriteMemory(v, 0)
      [] v.what = "mq"        -> WriteMQ(v, 0)

IsReply(v) == v.what \in {"status", "header", "exception"}

ReadBack(v, p) ==
    CASE IsReply(v)          -> ReadStatus(p)
      [] v.what = "version"  -> ReadVersion(p)
      [] v.what = "string"   -> [status |-> ReadString(v, 0, p, 1)]
      [] v.what = "vec"      -> [status |-> ReadVec(v, 0, p, 1)]
      [] v.what = "memory"   -> [status |-> ReadMemory(v, 0, p)]
      [] v.what = "mq"       -> [status |-> ReadMQ(v, 0, p)]

SendValue(v, failAt) ==
    /\ sent = Nothing
    /\ sent' = v /\ content' = v
    /\ parcelled' = IF v.what = "status" THEN WriteStatus(v, failAt)
                  ELSE InTurn(Written(v), failAt)
    /\ UNCHANGED received

(* An endpoint that does not run this code (external) sends v: n objects,  *)
(* written for w.                                                          *)
SendOther(v, w, n) ==
    /\ sent = Nothing
    /\ v = w \/ (v \in Embedded /\ v.what = w.what)
    /\ sent' = v /\ content' = w
    /\ parcelled' = [result |-> OK, objects |-> SubSeq(Written(w), 1, n)]
    /\ UNCHANGED received

(* A failed write is what the caller gets, and nothing is read.            *)
ReceiveValue ==
    /\ sent # Nothing /\ received = Nothing
    /\ received' = IF parcelled.result = OK THEN ReadBack(sent, parcelled.objects)
                   ELSE IF IsReply(sent)
                   THEN NoResults(fromStatusT(parcelled.result))
                   ELSE [status |-> parcelled.result]
    /\ UNCHANGED <<sent, content, parcelled>>

ParcelNext ==
    \/ \E v \in Values, failAt \in 0..2 : SendValue(v, failAt)
    \/ \E v, w \in OtherReplies \union Versions \union Embedded :
          \E n \in 0..Len(Written(w)) : SendOther(v, w, n)
    \/ ReceiveValue

ParcelSpec == ParcelInit /\ [][ParcelNext]_valueParcelVars

-----------------------------------------------------------------------------
(* A reply that says there was no error, and one that an implementation    *)
(* makes by giving its Status the code that announces a header.            *)
Succeeds(v) == v.what = "header" \/ (v.what = "status" /\ StatusIsOk(v))
HeaderCode(v) == v.what = "status" /\ v.mException = EX_HAS_REPLY_HEADER

(* An exception with its message, and what its reader should see.          *)
Throws(v) == \/ v.what = "status" /\ v.mException \notin Reserved
             \/ v.what = "exception" /\ v.message # NullMessage
Thrown(v) == IF v.what = "status"
             THEN fromExceptionCode(v.mException, String16(v.mMessage))
             ELSE fromExceptionCode(v.code, v.message)

Terminated(v) ==
    CASE v.what = "string" -> v.terminated
      [] v.what = "memory" -> v.name.terminated
      [] OTHER             -> TRUE

SameSizes(v, w) ==
    CASE v.what \in {"string", "vec"} -> v.size = w.size
      [] v.what = "memory"            -> v.name.size = w.name.size
      [] v.what = "mq"                -> v.grantors.size = w.grantors.size

(* The first n objects of the value have arrived.                          *)
Arrived(n) == parcelled.result = OK /\ Len(parcelled.objects) >= n

(***************************************************************************)
(* A reply is read as success exactly if it says so and was written and    *)
(* read without error, or if an implementation gave its Status the code    *)
(* that announces a header, which hides the error; results are then read   *)
(* from where they begin, behind a header too.  An exception keeps its     *)
(* code, and its message if that is valid UTF-8.  Every other reply (a     *)
(* failed transaction, a failing write, a missing code, header or message) *)
(* is an error of the transaction, the one returned if there was one.      *)
(* A version arrives as it was or not at all, and its packed form orders   *)
(* as operator< does.  An embedded value is accepted exactly if all its    *)
(* objects arrive, have the sizes its parent tells and its string is       *)
(* terminated.                                                             *)
(***************************************************************************)
ParcelRoundTrip ==
    received # Nothing =>
        IF IsReply(sent)
        THEN LET r == received.status
                 whole == Arrived(IF sent.what = "status" /\ StatusIsOk(sent) THEN 1 ELSE 2)
             IN  /\ StatusIsOk(r) <=> whole /\ (Succeeds(sent) \/ HeaderCode(sent))
                 /\ Succeeds(sent) /\ Arrived(Len(Written(sent))) =>
                       received.next = Len(parcelled.objects) + 1
                 /\ whole /\ Throws(sent) => r = Thrown(sent)
                 /\ ~StatusIsOk(r) /\ ~(whole /\ Throws(sent)) =>
                       r.mException = EX_TRANSACTION_FAILED /\ r.mErrorCode # OK
                 /\ sent.what = "status" /\ sent.mErrorCode # OK =>
                       r.mErrorCode = sent.mErrorCode
        ELSE IF sent.what = "version"
        THEN /\ received.status = OK <=> Arrived(1)
             /\ received.status = OK =>
                   /\ received.value = sent
                   /\ \A v \in Versions :
                         VersionBefore(v, sent) <=> WriteVersion(v) < WriteVersion(sent)
        ELSE received.status = OK <=>
                 /\ Arrived(Len(Written(sent)))
                 /\ SameSizes(sent, content) /\ Terminated(content)
==============================================================================
