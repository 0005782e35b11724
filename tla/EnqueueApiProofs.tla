-------------------------- MODULE EnqueueApiProofs --------------------------
(***************************************************************************)
(* What the codec and the producers guarantee for any request.             *)
(***************************************************************************)
EXTENDS EnqueueApi, TLAPS

-----------------------------------------------------------------------------
(* The codec.                                                              *)

LEMMA Int32Type ==
  ASSUME NEW n \in Int
  PROVE  Int32(n) \in Int /\ Fits(Int32(n))
<1>1. Half \in Nat \ {0} BY CodecAssumption
<1>2. (n + Half) % (2 * Half) \in 0 .. 2 * Half - 1 BY <1>1
<1>3. QED BY <1>1, <1>2 DEF Int32, Fits

\* What an int32 can hold, the conversion leaves as it is.
LEMMA Int32Keeps ==
  ASSUME NEW n \in Int, Fits(n)
  PROVE  Int32(n) = n
<1>1. Half \in Nat \ {0} BY CodecAssumption
<1>2. n + Half \in 0 .. 2 * Half - 1 BY <1>1 DEF Fits
<1>3. (n + Half) % (2 * Half) = n + Half BY <1>1, <1>2
<1>4. QED BY <1>1, <1>3 DEF Int32

LEMMA SingleType ==
  ASSUME NEW text \in Texts, NEW n \in Int
  PROVE  Single(text, n) \in Contents
  BY DEF Single, Lines, Contents

LEMMA ToProtoType ==
  ASSUME NEW c \in Contents
  PROVE  /\ ToProto(c) \in Contents
         /\ ToProto(c).texts = c.texts /\ ToProto(c).numbered = c.numbered
         /\ \A m \in Texts : ToProto(c).num[m] = Int32(c.num[m])
<1>1. c.count \in Int /\ \A m \in Texts : c.num[m] \in Int BY DEF Contents
<1>2. Int32(c.count) \in Int /\ \A m \in Texts : Int32(c.num[m]) \in Int
  BY <1>1, Int32Type
<1>3. QED BY <1>2 DEF ToProto, Contents

LEMMA MarshalType ==
  ASSUME NEW c \in Contents, NEW f \in Formats
  PROVE  /\ Marshal(f, c) \in Payloads
         /\ Marshal(f, c).content.texts = c.texts
         /\ Marshal(f, c).content.numbered = c.numbered
         /\ \A m \in Texts : Fits(c.num[m]) => Marshal(f, c).content.num[m] = c.num[m]
<1>1. \A m \in Texts : c.num[m] \in Int BY DEF Contents
<1>2. QED BY <1>1, ToProtoType, Int32Keeps DEF Marshal, Payloads, Formats

\* Whatever a process writes it can read, and nobody reads the other format.
LEMMA MarshalReadable ==
  ASSUME NEW c \in Contents, NEW f \in Formats
  PROVE  \A g \in Formats : Readable(g, Marshal(f, c)) <=> g = f
  BY DEF Marshal, Readable, Formats

-----------------------------------------------------------------------------
(* The producers.                                                          *)

LEMMA NilType == Nil \in Payloads
<1>1. NoText \in Texts BY CodecAssumption
<1>2. Zero \in Contents BY <1>1, SingleType DEF Zero
<1>3. QED BY <1>2 DEF Nil, Payloads

LEMMA PayloadOfType ==
  ASSUME NEW r \in RequestType, NEW f \in Formats
  PROVE  PayloadOf(r, f) \in Payloads
<1>1. r.text \in Texts /\ r.num \in Int /\ r.raw \in Contents BY DEF RequestType
<1>2. Single(r.text, r.num) \in Contents BY <1>1, SingleType
<1>3. Marshal(f, Single(r.text, r.num)) \in Payloads BY <1>2, MarshalType
<1>4. [enc |-> IF r.valid THEN "json" ELSE "garbage", content |-> r.raw] \in Payloads
  BY <1>1 DEF Payloads, Formats
<1>5. QED BY <1>3, <1>4, NilType DEF PayloadOf

OptionType == [queue : Queues \cup {NoQueue}, retry : Nat, unique : BOOLEAN, grouped : BOOLEAN]

LEMMA OptionsType ==
  ASSUME NEW r \in RequestType
  PROVE  /\ Options(r) \in OptionType
         /\ Options(r).grouped <=> Constructs(r) /\ r.type = "notification:send"
         /\ Constructs(r) /\ r.type = "webhook:send" => Options(r).unique
<1>1. /\ Plain \in OptionType /\ EmailOptions \in OptionType /\ ImageOptions \in OptionType
      /\ ReportOptions \in OptionType /\ WebhookOptions \in OptionType
      /\ NotificationOptions \in OptionType
      /\ ~Plain.grouped /\ ~EmailOptions.grouped /\ ~ImageOptions.grouped
      /\ ~ReportOptions.grouped /\ ~WebhookOptions.grouped /\ NotificationOptions.grouped
      /\ WebhookOptions.unique
  BY ApiAssumption DEF Plain, EmailOptions, ImageOptions, ReportOptions, WebhookOptions,
     NotificationOptions, OptionType, Queues
<1>2. Constructs(r) => r.type \in Constructed
  BY DEF Constructs, Constructed
<1> HIDE DEF OptionType
<1>3. QED BY <1>1, <1>2 DEF Options, Constructed

LEMMA WithOptionsType ==
  ASSUME NEW r \in RequestType, NEW o \in OptionType
  PROVE  /\ WithOptions(r, o) \in OptionType
         /\ WithOptions(r, o).grouped = o.grouped
         /\ o.unique => WithOptions(r, o).unique
<1> DEFINE q == IF Names(r) THEN r.queue ELSE o.queue
           n == IF r.retry > 0 THEN r.retry ELSE o.retry
           u == o.unique \/ r.unique
<1>1. q \in Queues \cup {NoQueue} BY DEF OptionType, RequestType
<1>2. n \in Nat BY DEF OptionType, RequestType
<1>3. u \in BOOLEAN BY Zenon
<1>4. o = [queue |-> o.queue, retry |-> o.retry, unique |-> o.unique, grouped |-> o.grouped]
      /\ o.grouped \in BOOLEAN /\ (o.unique => u)
  BY DEF OptionType
<1>5. WithOptions(r, o) = [o EXCEPT !.queue = q, !.retry = n, !.unique = u]
  BY DEF WithOptions
<1> HIDE DEF q, n, u
<1>6. WithOptions(r, o) = [queue |-> q, retry |-> n, unique |-> u, grouped |-> o.grouped]
  BY <1>4, <1>5
<1>7. QED BY <1>1, <1>2, <1>3, <1>4, <1>6 DEF OptionType

\* What a producer makes of a request: a task of the request's type, in the group of its
\* user if it is a notification, and unique if it is a webhook.
LEMMA BuildType ==
  ASSUME NEW r \in RequestType, NEW f \in Formats
  PROVE  /\ ~Refused(r) => Build(r, f) \in Jobs
         /\ Build(r, f).type = r.type
         /\ Build(r, f).payload = PayloadOf(r, f)
         /\ Build(r, f).group # NoGroup => Build(r, f).group = r.num
         /\ Build(r, f).group # NoGroup => Constructs(r)
         /\ Constructs(r) /\ r.type = "webhook:send" => Build(r, f).unique
<1> DEFINE o == WithOptions(r, Options(r))
<1>1. o \in OptionType /\ (o.grouped => Constructs(r))
      /\ (Constructs(r) /\ r.type = "webhook:send" => o.unique)
  BY OptionsType, WithOptionsType
<1>2. PayloadOf(r, f) \in Payloads BY PayloadOfType
<1>3. GroupKey(r) \in Int /\ r.type \in Types /\ r.delayed \in BOOLEAN
  BY DEF GroupKey, RequestType
<1>4. Build(r, f) = [type |-> r.type, payload |-> PayloadOf(r, f), queue |-> o.queue,
                     delayed |-> r.delayed, retry |-> o.retry, unique |-> o.unique,
                     group |-> IF o.grouped THEN GroupKey(r) ELSE NoGroup]
  BY DEF Build
<1>5. ~Refused(r) => o.queue \in Queues BY <1>1 DEF Refused, OptionType
<1> HIDE DEF o
<1>6. QED BY <1>1, <1>2, <1>3, <1>4, <1>5 DEF Jobs, OptionType, GroupKey
=============================================================================
