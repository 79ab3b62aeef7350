----------------------------- MODULE BenchProofs -----------------------------
(***************************************************************************)
(* Proofs about Bench, for any number of hosts and units and any            *)
(* description: a host is attached to the unit it picked, one persona tells *)
(* it everything, and what descriptors announce is what it gets.            *)
(***************************************************************************)
EXTENDS Bench, SequenceTheorems, FiniteSetTheorems, TLAPS

-----------------------------------------------------------------------------
(* Descriptors and the requests that follow from them. *)

\* The identity options `o` give a persona.
IdOf(o, kind) ==
    IF kind = "bootloader" THEN BootloaderIdentity
    ELSE AnalyzerIdentity(o.vid, o.pid, Product(o.model), o.serial)

\* A platform capability and the set it announces.
Announces(m) ==
    /\ m.bos.len = 33 /\ m.bos.total = 33
    /\ m.set.len \in Nat /\ m.bos.setLength = m.set.len
    /\ m.bos.vendorCode = m.vendorCode /\ m.vendorCode \in Nat

\* What a descriptor announces of another is true of it.
Sound(id, serial) ==
    /\ id.device.len = 18 /\ id.device.bcdUsb \in Nat
    /\ id.device.strings \in Nat /\ DOMAIN id.strings = 1..id.device.strings
    /\ \A i \in DOMAIN id.strings :
          /\ id.strings[i].units \in Nat
          /\ id.strings[i].units <= 126 \/ id.strings[i] = serial
    /\ id.config.total = id.config.len /\ id.config.len \in Nat /\ id.config.len > 9
    /\ id.config.reportLen \in Nat
    /\ id.config.reportLen > 0 => id.report.len = id.config.reportLen
    /\ id.device.bcdUsb >= 513 => \E m : id.msos = {m} /\ Announces(m)

SetConfiguration == [req |-> "SET_CONFIGURATION", type |-> "none", index |-> 1, length |-> 0]
GetSet(m) == [req |-> "VENDOR", type |-> "none", index |-> m.vendorCode, length |-> m.set.len]

\* The requests a host comes to make of a persona with identity `id`.
Reasonable(id, s) ==
    \/ s = Get("device", 0, 18)
    \/ s = Get("config", 0, 9)
    \/ s = Get("config", 0, id.config.total)
    \/ \E i \in 0..id.device.strings : s = Get("string", i, 255)
    \/ s = SetConfiguration
    \/ id.config.reportLen > 0 /\ s = Get("report", 0, id.config.reportLen)
    \/ /\ id.device.bcdUsb >= 513
       /\ \E m \in id.msos : s \in {Get("bos", 0, 5), Get("bos", 0, 33), GetSet(m)}

\* A part where the host asked for the whole, or a stall, is not a good answer.
Good(s, a, serial) ==
    /\ a.ok
    /\ s.length \notin {5, 9, 255} => a.n = s.length /\ a.n = a.of.len
    /\ s.type = "string" => a.of.bLength = a.n \/ serial.units > 126

\* The endpoints of a configuration can be counted.
LEMMA EndpointsCounted == \A n \in Nat : Cardinality(InOut(n)) \in Nat
<1> SUFFICES ASSUME NEW n \in Nat PROVE Cardinality(InOut(n)) \in Nat
  OBVIOUS
<1>0. IsFiniteSet({"in"}) /\ IsFiniteSet({"in"} \cup {"out"}) /\ {"in"} \cup {"out"} = {"in", "out"}
  BY FS_Singleton, FS_AddElement
<1>1. IsFiniteSet({"in", "out"}) /\ IsFiniteSet(1..n)
  BY <1>0, FS_Interval
<1>2. IsFiniteSet({"in", "out"} \X (1..n))
  BY <1>1, FS_Product
<1>3. InOut(n) = {"in", "out"} \X (1..n)
  BY DEF InOut
<1> QED
  BY <1>2, <1>3, FS_CardinalityType

\* The analyzer's descriptors are sound, whatever the options give it.
LEMMA AnalyzerSound ==
    ASSUME NEW vid, NEW pid, NEW model, NEW serial, serial.units \in Nat
    PROVE  Sound(AnalyzerIdentity(vid, pid, Product(model), serial), serial)
<1> DEFINE id == AnalyzerIdentity(vid, pid, Product(model), serial)
           m == MsOs20(32)
<1>1. id.device.len = 18 /\ id.device.bcdUsb = 513 /\ id.device.strings = 3
  BY DEF AnalyzerIdentity, DeviceDescriptor
<1>2. /\ DOMAIN id.strings = 1..3
      /\ id.strings[1].units = 11 /\ id.strings[2].units = 20 /\ id.strings[3] = serial
  BY DEF AnalyzerIdentity, Product
<1>3. /\ id.config.len = 9 + 9 + 0 + 7 * Cardinality(InOut(3)) /\ id.config.total = id.config.len
      /\ id.config.reportLen = 0
  BY DEF AnalyzerIdentity, ConfigDescriptor
<1>4. Cardinality(InOut(3)) \in Nat
  BY EndpointsCounted
<1>5. id.msos = {m}
  BY DEF AnalyzerIdentity
<1>6. Announces(m)
  BY DEF Announces, MsOs20, SetLength, CompatibleId, RegProperty
<1> HIDE DEF id, m
<1>7. \A i \in 1..3 : /\ id.strings[i].units \in Nat
                      /\ id.strings[i].units <= 126 \/ id.strings[i] = serial
  BY <1>2
<1> QED
  BY <1>1, <1>2, <1>3, <1>4, <1>5, <1>6, <1>7 DEF Sound, id

\* So are the bootloader's.
LEMMA BootloaderSound == \A serial : Sound(BootloaderIdentity, serial)
<1> SUFFICES ASSUME NEW serial PROVE Sound(BootloaderIdentity, serial)
  OBVIOUS
<1> DEFINE id == BootloaderIdentity
<1>1. id.device.len = 18 /\ id.device.bcdUsb = 512 /\ id.device.strings = 2
  BY DEF BootloaderIdentity, DeviceDescriptor
<1>2. /\ DOMAIN id.strings = 1..2
      /\ id.strings[1].units = 22 /\ id.strings[2].units = 20
  <2> DEFINE first == [text |-> "NXP Semiconductor Inc.", units |-> 22]
             second == [text |-> "USB COMPOSITE DEVICE", units |-> 20]
  <2>1. id.strings = <<first, second>>
    BY DEF BootloaderIdentity
  <2>2. first.units = 22 /\ second.units = 20
    OBVIOUS
  <2> HIDE DEF first, second
  <2> QED
    BY <2>1, <2>2
<1>3. /\ id.config.len = 9 + 9 + 9 + 7 * Cardinality(InOut(1)) /\ id.config.total = id.config.len
      /\ id.config.reportLen = ReportDescriptor.len /\ id.report = ReportDescriptor
  BY DEF BootloaderIdentity, ConfigDescriptor
<1>4. Cardinality(InOut(1)) \in Nat
  BY EndpointsCounted
<1>5. ReportDescriptor.len = 68
  BY DEF ReportDescriptor
<1> HIDE DEF id
<1>6. \A i \in 1..2 : id.strings[i].units \in Nat /\ id.strings[i].units <= 126
  BY <1>2
<1> QED
  BY <1>1, <1>2, <1>3, <1>4, <1>5, <1>6 DEF Sound, id

\* What a host may be told: no stall, no part, nothing of another persona, and
\* nothing that leads it to a request that would end in one of these.
Told(id, serial, s, a) ==
    /\ Good(s, a, serial)
    /\ s.type = "device" => a.of = id.device
    /\ s.type = "config" => a.of = id.config
    /\ s.type = "string" =>
          a.of = Languages \/ \E i \in DOMAIN id.strings : a.of.text = id.strings[i].text
    /\ \A t \in Follows(s, a) : Reasonable(id, t)

\* The answer to a request for a descriptor that exists.
LEMMA AnswerOf ==
    ASSUME NEW id, NEW type, NEW index, NEW length,
           Descriptor(id, type, index).len # 0
    PROVE  Control(id, Get(type, index, length)) = Reply(Descriptor(id, type, index), length)
<1>1. Descriptor(id, type, index) # Absent
  BY DEF Absent
<1>2. /\ Get(type, index, length).req = "GET_DESCRIPTOR"
      /\ Get(type, index, length).type = type
      /\ Get(type, index, length).index = index
      /\ Get(type, index, length).length = length
  BY DEF Get
<1> QED
  BY <1>1, <1>2 DEF Control, HandleStandard

\* What a request is about.
LEMMA GetFields ==
    ASSUME NEW type, NEW index, NEW length
    PROVE  /\ Get(type, index, length).req = "GET_DESCRIPTOR"
           /\ Get(type, index, length).type = type
           /\ Get(type, index, length).index = index
           /\ Get(type, index, length).length = length
  BY DEF Get

\* What an answer is cut from.
LEMMA ReplyFields ==
    ASSUME NEW d, NEW length
    PROVE  /\ Reply(d, length).ok /\ Reply(d, length).of = d
           /\ Reply(d, length).n = Least(d.len, length)
  BY DEF Reply

\* The device descriptor leads to the configuration, the strings and the BOS.
LEMMA DeviceTold ==
    ASSUME NEW id, NEW serial, Sound(id, serial), NEW s, s = Get("device", 0, 18)
    PROVE  Told(id, serial, s, Control(id, s))
<1> DEFINE a == Control(id, s)
<1>1. a = Reply(id.device, 18) /\ s.type = "device" /\ s.length = 18
  <2>1. Descriptor(id, "device", 0) = id.device /\ id.device.len # 0
    BY DEF Descriptor, Sound
  <2> QED
    BY <2>1, AnswerOf, GetFields
<1>2. a.ok /\ a.of = id.device /\ a.n = 18 /\ a.of.len = 18
  BY <1>1, ReplyFields DEF Least, Sound
<1> HIDE DEF a
<1>3. Follows(s, a) =
        {Get("config", 0, 9)} \cup {Get("string", i, 255) : i \in 0..id.device.strings}
          \cup (IF id.device.bcdUsb >= 513 THEN {Get("bos", 0, 5)} ELSE {})
  <2>1. s = Get("device", 0, 18) /\ s # Get("config", 0, 9) /\ s # Get("bos", 0, 5)
    BY <1>1, GetFields
  <2> QED
    BY <1>1, <1>2, <2>1 DEF Follows
<1>4. ASSUME NEW t \in Follows(s, a) PROVE Reasonable(id, t)
  <2>1. CASE t = Get("config", 0, 9) \/ \E i \in 0..id.device.strings : t = Get("string", i, 255)
    BY <2>1 DEF Reasonable
  <2>2. CASE id.device.bcdUsb >= 513 /\ t = Get("bos", 0, 5)
    BY <2>2 DEF Reasonable, Sound
  <2> QED
    BY <1>3, <1>4, <2>1, <2>2
<1>5. Good(s, a, serial)
  BY <1>1, <1>2 DEF Good
<1> QED
  BY <1>1, <1>2, <1>4, <1>5 DEF Told, a

\* The head of the configuration leads to the whole of it, and that to the
\* request that sets it and to the HID report descriptor.
LEMMA ConfigTold ==
    ASSUME NEW id, NEW serial, Sound(id, serial), NEW s,
           s = Get("config", 0, 9) \/ s = Get("config", 0, id.config.total)
    PROVE  Told(id, serial, s, Control(id, s))
<1> DEFINE a == Control(id, s)
<1>1. /\ a = Reply(id.config, s.length) /\ s.type = "config"
      /\ \/ s = Get("config", 0, 9) /\ s.length = 9
         \/ s.length = id.config.len /\ s.length > 9
  <2>1. Descriptor(id, "config", 0) = id.config /\ id.config.len # 0
    BY DEF Descriptor, Sound
  <2> QED
    BY <2>1, AnswerOf, GetFields DEF Sound
<1>2. a.ok /\ a.of = id.config /\ a.n = Least(id.config.len, s.length)
  BY <1>1, ReplyFields
<1> HIDE DEF a
<1>3. Good(s, a, serial)
  BY <1>1, <1>2 DEF Good, Sound, Least
<1>d. s # Get("device", 0, 18) /\ s # Get("bos", 0, 5)
  BY <1>1, GetFields
<1>4. CASE s = Get("config", 0, 9) /\ s.length = 9
  <2>1. Follows(s, a) = {Get("config", 0, id.config.total)}
    BY <1>1, <1>2, <1>4, <1>d DEF Follows
  <2> QED
    BY <1>1, <1>2, <1>3, <2>1 DEF Told, Reasonable, a
<1>5. CASE s.length = id.config.len /\ s.length > 9
  <2>0. s # Get("config", 0, 9)
    BY <1>5, GetFields
  <2>1. Follows(s, a) =
          {[req |-> "SET_CONFIGURATION", type |-> "none", index |-> 1, length |-> 0]}
            \cup (IF id.config.reportLen > 0 THEN {Get("report", 0, id.config.reportLen)} ELSE {})
    BY <1>1, <1>2, <1>5, <1>d, <2>0 DEF Follows
  <2>2. ASSUME NEW t \in Follows(s, a) PROVE Reasonable(id, t)
    BY <2>1, <2>2 DEF Reasonable, SetConfiguration
  <2> QED
    BY <1>1, <1>2, <1>3, <2>2 DEF Told, a
<1> QED
  BY <1>1, <1>4, <1>5

\* Nothing follows from a string, the report descriptor or the set.
LEMMA NothingFollows ==
    ASSUME NEW s, NEW a, s.type \notin {"device", "config", "bos"}
    PROVE  Follows(s, a) = {}
<1>1. s # Get("device", 0, 18) /\ s # Get("config", 0, 9) /\ s # Get("bos", 0, 5)
  BY GetFields
<1> QED
  BY <1>1 DEF Follows

\* A string has the length its length byte says, up to 126 units.
LEMMA StringTold ==
    ASSUME NEW id, NEW serial, Sound(id, serial), NEW i \in 0..id.device.strings, NEW s,
           s = Get("string", i, 255)
    PROVE  Told(id, serial, s, Control(id, s))
<1> DEFINE a == Control(id, s)
           d == StringAt(id, i)
<1>0. s.type = "string" /\ s.length = 255 /\ Follows(s, a) = {}
  BY GetFields, NothingFollows
<1>d. Descriptor(id, "string", i) = d
  BY DEF Descriptor
<1>1. CASE i = 0
  <2>0. i \notin DOMAIN id.strings
    BY <1>1 DEF Sound
  <2>1. d = Languages
    BY <1>1, <2>0 DEF StringAt
  <2>2. d.len = 4 /\ d.bLength = 4
    BY <2>1 DEF Languages
  <2>3. a = Reply(d, 255)
    BY <1>d, <2>2, AnswerOf
  <2>4. a.ok /\ a.of = d /\ a.n = 4
    BY <2>2, <2>3, ReplyFields DEF Least
  <2> HIDE DEF a, d
  <2> QED
    BY <1>0, <2>1, <2>2, <2>4 DEF Told, Good, a
<1>2. CASE i # 0
  <2>0. i \in DOMAIN id.strings
    BY <1>2 DEF Sound
  <2> DEFINE u == id.strings[i].units
  <2>1. d = StringDescriptor(id.strings[i])
    BY <1>2, <2>0 DEF StringAt
  <2>2. /\ d.len = 2 + 2 * u /\ d.bLength = (2 + 2 * u) % 256
        /\ d.text = id.strings[i].text
    BY <2>1 DEF StringDescriptor
  <2>3. u \in Nat /\ (u <= 126 \/ serial.units = u)
    BY <2>0 DEF Sound
  <2> HIDE DEF d, u
  <2>4. a = Reply(d, 255)
    BY <1>d, <2>2, <2>3, AnswerOf
  <2>5. a.ok /\ a.of = d /\ a.n = Least(2 + 2 * u, 255)
    BY <2>2, <2>4, ReplyFields
  <2> HIDE DEF a
  <2>6. d.bLength = a.n \/ serial.units > 126
    <3>1. CASE u <= 126
      <4>1. (2 + 2 * u) % 256 = 2 + 2 * u
        BY <2>3, <3>1
      <4> QED
        BY <2>2, <2>3, <2>5, <3>1, <4>1 DEF Least
    <3> QED
      BY <2>3, <3>1
  <2> QED
    BY <1>0, <2>0, <2>2, <2>5, <2>6 DEF Told, Good, a
<1> QED
  BY <1>1, <1>2

\* The HID report descriptor is as long as the configuration announces.
LEMMA ReportTold ==
    ASSUME NEW id, NEW serial, Sound(id, serial), id.config.reportLen > 0, NEW s,
           s = Get("report", 0, id.config.reportLen)
    PROVE  Told(id, serial, s, Control(id, s))
<1> DEFINE a == Control(id, s)
           n == id.config.reportLen
<1>0. s.type = "report" /\ s.length = n /\ Follows(s, a) = {}
  BY GetFields, NothingFollows
<1>1. Descriptor(id, "report", 0) = id.report /\ id.report.len = n /\ n \in Nat \ {0}
  BY DEF Descriptor, Sound
<1>2. a = Reply(id.report, n)
  BY <1>1, AnswerOf
<1>3. a.ok /\ a.of = id.report /\ a.n = n
  BY <1>1, <1>2, ReplyFields DEF Least
<1> HIDE DEF a, n
<1> QED
  BY <1>0, <1>1, <1>3 DEF Told, Good, a

\* The head of the BOS leads to the whole of it, and that to the set that binds
\* WinUSB.
LEMMA BosTold ==
    ASSUME NEW id, NEW serial, Sound(id, serial), NEW m, id.msos = {m}, Announces(m),
           id.device.bcdUsb >= 513, NEW s,
           s = Get("bos", 0, 5) \/ s = Get("bos", 0, 33)
    PROVE  Told(id, serial, s, Control(id, s))
<1> DEFINE a == Control(id, s)
<1>1. Descriptor(id, "bos", 0) = m.bos /\ m.bos.len = 33
  <2>1. id.msos # {} /\ (CHOOSE x \in id.msos : TRUE) = m
    OBVIOUS
  <2> QED
    BY <2>1 DEF Descriptor, Announces
<1>2. /\ a = Reply(m.bos, s.length) /\ s.type = "bos"
      /\ \/ s = Get("bos", 0, 5) /\ s.length = 5
         \/ s = Get("bos", 0, 33) /\ s.length = 33
  BY <1>1, AnswerOf, GetFields
<1>3. a.ok /\ a.of = m.bos /\ a.n = Least(33, s.length)
  BY <1>1, <1>2, ReplyFields
<1> HIDE DEF a
<1>4. Good(s, a, serial)
  BY <1>1, <1>2, <1>3 DEF Good, Least
<1>d. s # Get("device", 0, 18) /\ s # Get("config", 0, 9)
  BY <1>2, GetFields
<1>5. CASE s = Get("bos", 0, 5) /\ s.length = 5
  <2>1. Follows(s, a) = {Get("bos", 0, m.bos.total)}
    BY <1>2, <1>3, <1>5, <1>d DEF Follows
  <2>2. \A t \in Follows(s, a) : Reasonable(id, t)
    BY <2>1 DEF Reasonable, Announces
  <2> QED
    BY <1>2, <1>4, <2>2 DEF Told, a
<1>6. CASE s = Get("bos", 0, 33) /\ s.length = 33
  <2>0. s # Get("bos", 0, 5)
    BY <1>6, GetFields
  <2>1. Follows(s, a) = {[req |-> "VENDOR", type |-> "none", index |-> m.bos.vendorCode,
                          length |-> m.bos.setLength]}
    BY <1>2, <1>3, <1>6, <1>d, <2>0 DEF Follows
  <2>2. Follows(s, a) = {GetSet(m)}
    BY <2>1 DEF GetSet, Announces
  <2>3. \A t \in Follows(s, a) : Reasonable(id, t)
    BY <2>2 DEF Reasonable
  <2> QED
    BY <1>2, <1>4, <2>3 DEF Told, a
<1> QED
  BY <1>2, <1>5, <1>6

\* The set is served under the code, and with the length, the BOS announces.
LEMMA SetTold ==
    ASSUME NEW id, NEW serial, NEW m, id.msos = {m}, Announces(m), NEW s, s = GetSet(m)
    PROVE  Told(id, serial, s, Control(id, s))
<1> DEFINE a == Control(id, s)
<1>0. /\ s.type = "none" /\ s.req = "VENDOR" /\ s.index = m.vendorCode /\ s.length = m.set.len
      /\ Follows(s, a) = {}
  BY NothingFollows DEF GetSet
<1>1. {x \in id.msos : x.vendorCode = s.index} = {m}
  BY <1>0
<1>2. (CHOOSE x \in {m} : TRUE) = m
  OBVIOUS
<1>3. a = Reply(m.set, m.set.len)
  BY <1>0, <1>1, <1>2 DEF Control, HandleVendor
<1>4. a.ok /\ a.of = m.set /\ a.n = m.set.len
  BY <1>3, ReplyFields DEF Least, Announces
<1> HIDE DEF a
<1> QED
  BY <1>0, <1>4 DEF Told, Good, a

\* The request that sets the configuration has an empty answer.
LEMMA SetConfigurationTold ==
    ASSUME NEW id, NEW serial, NEW s, s = SetConfiguration
    PROVE  Told(id, serial, s, Control(id, s))
<1> DEFINE a == Control(id, s)
<1>0. /\ s.type = "none" /\ s.req = "SET_CONFIGURATION" /\ s.length = 0
      /\ Follows(s, a) = {}
  BY NothingFollows DEF SetConfiguration
<1>1. a = Reply(Absent, 0)
  BY <1>0 DEF Control, HandleStandard
<1>2. a.ok /\ a.of = Absent /\ a.n = 0 /\ Absent.len = 0
  BY <1>1, ReplyFields DEF Least, Absent
<1> HIDE DEF a
<1> QED
  BY <1>0, <1>2 DEF Told, Good, a

\* A reasonable request has a good answer, and leads to reasonable ones.
LEMMA ReasonableTold ==
    ASSUME NEW id, NEW serial, Sound(id, serial), NEW s, Reasonable(id, s)
    PROVE  Told(id, serial, s, Control(id, s))
<1>1. CASE \/ s = Get("device", 0, 18)
           \/ s = Get("config", 0, 9) \/ s = Get("config", 0, id.config.total)
           \/ \E i \in 0..id.device.strings : s = Get("string", i, 255)
           \/ s = SetConfiguration
           \/ id.config.reportLen > 0 /\ s = Get("report", 0, id.config.reportLen)
  BY <1>1, DeviceTold, ConfigTold, StringTold, SetConfigurationTold, ReportTold
<1>2. CASE /\ id.device.bcdUsb >= 513
           /\ \E m \in id.msos : s \in {Get("bos", 0, 5), Get("bos", 0, 33), GetSet(m)}
  <2>1. PICK m : id.msos = {m} /\ Announces(m)
    BY <1>2 DEF Sound
  <2>2. s \in {Get("bos", 0, 5), Get("bos", 0, 33), GetSet(m)}
    BY <1>2, <2>1
  <2> QED
    BY <1>2, <2>1, <2>2, BosTold, SetTold
<1> QED
  BY <1>1, <1>2 DEF Reasonable
-----------------------------------------------------------------------------
(* Types. *)

\* What start-up can make of the entries of a description.
OptionSet ==
    UNION {UNION {{SpecToOptions(b[i], i, s) : s \in Serials(b[i])} : i \in DOMAIN b} :
           b \in Benches}

Ids == {BootloaderIdentity}
         \cup {AnalyzerIdentity(o.vid, o.pid, Product(o.model), o.serial) : o \in OptionSet}
Summaries == {id.summary : id \in Ids}
Requests  == [req : {"GET_DESCRIPTOR", "SET_CONFIGURATION", "VENDOR"},
              type : {"device", "config", "string", "bos", "report", "none"},
              index : Nat, length : Nat]
Answers   == UNION {{Control(id, s) : s \in Requests} : id \in Ids}
Personas  == [kind : {"analyzer", "bootloader"}, gen : 0..MaxSwitches]
Shows     == [dev : Nat, busid : {Shown(o.busid) : o \in OptionSet}, summary : Summaries]

Clients == [at : {"away", "lists", "chooses", "taken", "attached"}, lists : 0..MaxLists,
            left : SUBSET Nat, shown : Seq(Shows), entry : Nat, dev : Nat,
            backend : Personas \cup {0}, summary : Summaries \cup {Absent},
            asked : Seq(Requests), answers : Seq(Answers)]

\* Start-up adds options one by one; nothing else happens until it is over.
TypeInv ==
    /\ specs \in Benches /\ start \in {"configuring", "serving", "refused"}
    /\ options \in Seq(OptionSet) /\ Len(options) <= Len(specs)
    /\ start = "serving" => Len(options) = Len(specs) /\ current \in [Devices -> Personas]
    /\ unplugged \subseteq Devices /\ imported \subseteq Devices
    /\ host \in [Hosts -> Clients]
    /\ start # "serving" =>
         unplugged = {} /\ imported = {} /\ \A h \in Hosts : host[h] = Away

\* The names of the units differ.
NamesDiffer ==
    \A i, j \in Devices : options[i].busid = options[j].busid => i = j

Busy(c) == c.at \in {"taken", "attached"}

\* A client `c` that is attached to the unit with options `o` has asked for what
\* descriptors announce and was answered by one persona.
OneConnection(c, o) ==
    LET id == IdOf(o, c.backend.kind)
    IN  /\ c.summary = id.summary
        /\ \A i \in 1..Len(c.asked) :
             Reasonable(id, c.asked[i]) /\ c.answers[i] = Control(id, c.asked[i])

\* What a client knows is true of units with options `opts`, of which `imp` are
\* imported.
Informed(c, opts, imp) ==
    /\ Len(c.asked) = Len(c.answers) /\ (c.at # "attached" => Len(c.asked) = 0)
    /\ c.left \subseteq DOMAIN opts
    /\ \A i \in 1..Len(c.shown) :
         c.shown[i].dev \in DOMAIN opts /\ c.shown[i].busid = Shown(opts[c.shown[i].dev].busid)
    /\ Busy(c) =>
         /\ c.dev \in imp /\ c.entry \in 1..Len(c.shown)
         /\ Len(opts[c.shown[c.entry].dev].busid) <= NameField
              => c.dev = c.shown[c.entry].dev
    /\ c.at = "attached" => c.backend \in Personas /\ OneConnection(c, opts[c.dev])

HostsInformed == \A h \in Hosts : Informed(host[h], options, imported)

\* No two hosts have the same unit.
Exclusive ==
    \A g, h \in Hosts : Busy(host[g]) /\ Busy(host[h]) /\ host[g].dev = host[h].dev => g = h

Inv == TypeInv /\ NamesDiffer /\ HostsInformed /\ Exclusive

\* Options made of an entry, with the serial drawn or given, are in the set.
LEMMA MadeOptions ==
    ASSUME NEW b \in Benches, NEW i \in DOMAIN b, NEW s \in Serials(b[i])
    PROVE  SpecToOptions(b[i], i, s) \in OptionSet
  BY DEF OptionSet

\* Such options have a name that is a sequence, and a serial that is text.
LEMMA OptionsSound ==
    ASSUME NEW o \in OptionSet
    PROVE  /\ \E S : o.busid \in Seq(S)
           /\ o.serial.units \in Nat
<1>1. PICK b \in Benches : \E i \in DOMAIN b : \E s \in Serials(b[i]) :
              o = SpecToOptions(b[i], i, s)
  BY DEF OptionSet
<1>0. PICK i \in DOMAIN b : \E s \in Serials(b[i]) : o = SpecToOptions(b[i], i, s)
  BY <1>1
<1>s. PICK s \in Serials(b[i]) : o = SpecToOptions(b[i], i, s)
  BY <1>0
<1>2. /\ b[i].busid # NotGiven => b[i].busid \in Seq(STRING)
      /\ b[i].serial # NotGiven => b[i].serial.units \in Nat
      /\ \A t \in Fresh : t.units = 9
  BY BenchAssumption DEF BenchAssumption
<1>3. /\ o.busid = Given(b[i].busid, <<"1", "-", ToString(i)>>) /\ o.serial = s
  BY <1>s DEF SpecToOptions
<1>4. \E S : o.busid \in Seq(S)
  <2>1. CASE b[i].busid = NotGiven
    <3> DEFINE made == <<"1", "-", ToString(i)>>
               S == {"1", "-", ToString(i)}
    <3>1. made \in Seq(S)
      OBVIOUS
    <3>2. o.busid = made
      BY <1>3, <2>1 DEF Given
    <3> QED
      BY <3>1, <3>2
  <2>2. CASE b[i].busid # NotGiven
    BY <1>2, <1>3, <2>2 DEF Given
  <2> QED
    BY <2>1, <2>2
<1>5. s.units \in Nat
  BY <1>2 DEF Serials
<1> QED
  BY <1>3, <1>4, <1>5

\* The identities of the units are known, and each is sound.
LEMMA IdentityKnown ==
    ASSUME NEW o \in OptionSet, NEW kind
    PROVE  /\ IdOf(o, kind) \in Ids /\ IdOf(o, kind).summary \in Summaries
           /\ Sound(IdOf(o, kind), o.serial)
<1>1. IdOf(o, kind) \in Ids
  BY DEF IdOf, Ids
<1>2. IdOf(o, kind).summary \in Summaries
  BY <1>1 DEF Summaries
<1>3. Sound(IdOf(o, kind), o.serial)
  BY OptionsSound, AnalyzerSound, BootloaderSound DEF IdOf
<1> QED
  BY <1>1, <1>2, <1>3

\* A reasonable request is a request.
LEMMA ReasonableTyped ==
    ASSUME NEW id, NEW serial, Sound(id, serial), NEW s, Reasonable(id, s)
    PROVE  s \in Requests
<1>1. ASSUME NEW type \in {"device", "config", "string", "bos", "report"},
             NEW index \in Nat, NEW length \in Nat
      PROVE  Get(type, index, length) \in Requests
  BY DEF Get, Requests
<1>2. CASE \/ s = Get("device", 0, 18)
           \/ s = Get("config", 0, 9) \/ s = Get("config", 0, id.config.total)
           \/ \E i \in 0..id.device.strings : s = Get("string", i, 255)
           \/ id.config.reportLen > 0 /\ s = Get("report", 0, id.config.reportLen)
  BY <1>1, <1>2 DEF Sound
<1>3. CASE s = SetConfiguration
  BY <1>3 DEF SetConfiguration, Requests
<1>4. CASE /\ id.device.bcdUsb >= 513
           /\ \E m \in id.msos : s \in {Get("bos", 0, 5), Get("bos", 0, 33), GetSet(m)}
  <2>1. PICK m : id.msos = {m} /\ Announces(m)
    BY <1>4 DEF Sound
  <2>2. GetSet(m) \in Requests
    BY <2>1 DEF GetSet, Requests, Announces
  <2> QED
    BY <1>1, <1>4, <2>1, <2>2
<1> QED
  BY <1>2, <1>3, <1>4 DEF Reasonable

\* The answers to requests.
LEMMA AnswersTyped ==
    ASSUME NEW id \in Ids, NEW s \in Requests
    PROVE  Control(id, s) \in Answers
  BY DEF Answers

\* A name that fits its field is shown in full.
LEMMA ShownInFull ==
    ASSUME NEW name, NEW S, name \in Seq(S), Len(name) <= NameField
    PROVE  Shown(name) = name
<1>1. Len(name) \in Nat /\ NameField \in Nat
  BY LenProperties, BenchAssumption DEF BenchAssumption
<1>2. Least(Len(name), NameField) = Len(name)
  BY <1>1 DEF Least
<1>3. SubSeq(name, 1, Len(name)) = name
  BY <1>1, SubSeqProperties, LenProperties
<1> QED
  BY <1>2, <1>3 DEF Shown
-----------------------------------------------------------------------------
(* The invariant is inductive. *)

\* A host that is away knows nothing.
LEMMA AwayInformed ==
    ASSUME NEW opts, NEW imp, NEW c, c = Away
    PROVE  Informed(c, opts, imp) /\ ~Busy(c)
<1>1. /\ Away.at = "away" /\ Away.left = {} /\ Away.asked = << >> /\ Away.answers = << >>
      /\ Away.shown = << >> /\ Len(<< >>) = 0
  BY DEF Away
<1> QED
  BY <1>1 DEF Informed, Busy

\* The type of a host that is away.
LEMMA AwayTyped == Away \in Clients
<1>1. << >> \in Seq(Shows) /\ << >> \in Seq(Requests) /\ << >> \in Seq(Answers)
  BY EmptySeq
<1>2. 0 \in 0..MaxLists
  BY BenchAssumption DEF BenchAssumption
<1> HIDE DEF Shows, Requests, Answers
<1> QED
  BY <1>1, <1>2 DEF Away, Clients

\* What a host knows depends on the imports only through its own.
LEMMA InformedStays ==
    ASSUME NEW c, NEW opts, NEW imp, NEW imp2, Informed(c, opts, imp),
           Busy(c) => c.dev \in imp2
    PROVE  Informed(c, opts, imp2)
  BY DEF Informed

\* Nothing but start-up happens before the bench serves.
LEMMA ServingWhen ==
    ASSUME TypeInv, \/ unplugged # {}
                    \/ \E h \in Hosts : host[h].at # "away"
    PROVE  start = "serving"
<1>1. Away.at = "away"
  BY DEF Away
<1> QED
  BY <1>1 DEF TypeInv

\* A step of one host: only what it becomes has to be looked at.
LEMMA HostMoves ==
    ASSUME Inv, start = "serving", NEW h \in Hosts,
           UNCHANGED <<specs, start, options, current, unplugged>>,
           host' \in [Hosts -> Clients],
           \A g \in Hosts : g # h => host'[g] = host[g],
           imported' \subseteq Devices,
           \A g \in Hosts : g # h /\ Busy(host[g]) => host[g].dev \in imported',
           Informed(host'[h], options, imported'),
           Busy(host'[h]) =>
              \A g \in Hosts : g # h /\ Busy(host[g]) => host[g].dev # host'[h].dev
    PROVE  Inv'
<1>1. TypeInv'
  BY DEF Inv, TypeInv, Devices
<1>2. NamesDiffer'
  BY DEF Inv, NamesDiffer, Devices
<1>3. HostsInformed'
  <2> SUFFICES ASSUME NEW g \in Hosts PROVE Informed(host'[g], options, imported')
    BY DEF HostsInformed
  <2>1. CASE g = h
    BY <2>1
  <2>2. CASE g # h
    <3>1. Informed(host[g], options, imported)
      BY DEF Inv, HostsInformed
    <3>2. Busy(host[g]) => host[g].dev \in imported'
      BY <2>2
    <3>3. Informed(host[g], options, imported')
      BY <3>1, <3>2, InformedStays
    <3> QED
      BY <2>2, <3>3
  <2> QED
    BY <2>1, <2>2
<1>4. Exclusive'
  BY DEF Inv, Exclusive
<1> QED
  BY <1>1, <1>2, <1>3, <1>4 DEF Inv

\* The steps in which the hosts do nothing.
LEMMA HostsStay ==
    ASSUME Inv, UNCHANGED <<options, imported, host>>, TypeInv'
    PROVE  Inv'
<1>1. NamesDiffer' /\ HostsInformed' /\ Exclusive'
  BY DEF Inv, NamesDiffer, HostsInformed, Exclusive, Devices
<1> QED
  BY <1>1 DEF Inv

\* The next entry of the description is an option, and has a name of its own.
LEMMA ConfigureStep ==
    ASSUME Inv, Configure
    PROVE  Inv'
<1>t. TypeInv /\ NamesDiffer
  BY DEF Inv
<1>1. /\ start = "configuring" /\ Len(options) < Len(specs)
      /\ UNCHANGED <<specs, current, unplugged, imported, host>>
      /\ unplugged = {} /\ imported = {} /\ \A h \in Hosts : host[h] = Away
  BY <1>t DEF Configure, TypeInv, deviceVars
<1>2. /\ options \in Seq(OptionSet) /\ Len(options) \in Nat /\ Devices = 1..Len(options)
      /\ Len(specs) \in Nat
  BY <1>t, LenProperties, BenchAssumption DEF TypeInv, Devices, BenchAssumption
<1>h. HostsInformed' /\ Exclusive'
  BY <1>1, AwayInformed DEF HostsInformed, Exclusive
<1>3. CASE start' = "refused" /\ options' = options
  BY <1>t, <1>1, <1>3, <1>h DEF Inv, TypeInv, NamesDiffer, Devices
<1>4. ASSUME NEW o \in OptionSet, ~Seen(o), start' = start, options' = Append(options, o)
      PROVE  Inv'
  <2>1. /\ options' \in Seq(OptionSet) /\ Len(options') = Len(options) + 1
        /\ \A i \in 1..Len(options) : options'[i] = options[i]
        /\ options'[Len(options) + 1] = o
    BY <1>2, <1>4, AppendProperties
  <2>2. Devices' = 1..(Len(options) + 1)
    BY <2>1, LenProperties DEF Devices
  <2>3. TypeInv'
    BY <1>t, <1>1, <1>2, <1>4, <2>1 DEF TypeInv
  <2>4. NamesDiffer'
    <3>1. \A i \in 1..Len(options) : options[i].busid # o.busid
      BY <1>2, <1>4 DEF Seen, Devices
    <3> QED
      BY <1>t, <1>2, <2>1, <2>2, <3>1 DEF NamesDiffer
  <2> QED
    BY <1>h, <2>3, <2>4 DEF Inv
<1>5. Len(options) + 1 \in DOMAIN specs
  BY <1>t, <1>1, <1>2, BenchAssumption DEF BenchAssumption, TypeInv
<1> QED
  BY <1>t, <1>3, <1>4, <1>5, MadeOptions DEF Configure, TypeInv

\* When the bench begins to serve, every unit has a persona.
LEMMA ServeStep ==
    ASSUME Inv, Serve
    PROVE  Inv'
<1>t. TypeInv
  BY DEF Inv
<1>1. /\ UNCHANGED <<specs, options, unplugged, imported, host>>
      /\ Len(options) = Len(specs) /\ start' \in {"refused", "serving"}
      /\ unplugged = {} /\ imported = {} /\ \A h \in Hosts : host[h] = Away
  BY <1>t DEF Serve, TypeInv
<1>2. current' \in [Devices -> Personas]
  BY BenchAssumption DEF Serve, Personas, BenchAssumption
<1>3. TypeInv'
  BY <1>t, <1>1, <1>2 DEF TypeInv, Devices
<1> QED
  BY <1>1, <1>3, HostsStay

\* A unit that switches or gets its cable back.
LEMMA UnitStep ==
    ASSUME Inv, NEW d \in Devices, Unit(d)
    PROVE  Inv'
<1>t. TypeInv
  BY DEF Inv
<1>1. CASE Replug(d)
  <2>1. start = "serving"
    BY <1>1, <1>t, ServingWhen DEF Replug
  <2>2. TypeInv'
    BY <1>1, <1>t, <2>1 DEF Replug, TypeInv, Devices
  <2> QED
    BY <1>1, <2>2, HostsStay DEF Replug
<1>2. ASSUME NEW k \in {"analyzer", "bootloader"}, NEW out \in BOOLEAN, Switch(d, k, out)
      PROVE  Inv'
  <2>1. /\ start = "serving" /\ current[d].gen < MaxSwitches
        /\ current \in [Devices -> Personas]
    BY <1>2, <1>t DEF Switch, TypeInv
  <2>2. [kind |-> k, gen |-> current[d].gen + 1] \in Personas
    BY <2>1, BenchAssumption DEF Personas, BenchAssumption
  <2>3. current' = [current EXCEPT ![d] = [kind |-> k, gen |-> current[d].gen + 1]]
    BY <1>2 DEF Switch
  <2>4. current' \in [Devices -> Personas]
    BY <2>1, <2>2, <2>3
  <2>5. /\ UNCHANGED <<specs, start, options, imported, host>>
        /\ unplugged' \subseteq Devices
    BY <1>2, <1>t DEF Switch, TypeInv
  <2>6. TypeInv'
    BY <1>t, <2>1, <2>4, <2>5 DEF TypeInv, Devices
  <2> QED
    BY <2>5, <2>6, HostsStay
<1> QED
  BY <1>1, <1>2 DEF Unit

\* The fields of a client have their types.
LEMMA ClientFields ==
    ASSUME NEW c \in Clients
    PROVE  /\ c.lists \in 0..MaxLists /\ c.shown \in Seq(Shows)
           /\ c.asked \in Seq(Requests) /\ c.answers \in Seq(Answers)
           /\ c.at \in {"away", "lists", "chooses", "taken", "attached"}
           /\ c.left \in SUBSET Nat /\ c.entry \in Nat /\ c.dev \in Nat
           /\ c.backend \in Personas \cup {0} /\ c.summary \in Summaries \cup {Absent}
  BY DEF Clients

\* Options of a unit.
LEMMA UnitOptions ==
    ASSUME TypeInv, NEW d \in Devices
    PROVE  options[d] \in OptionSet /\ d \in Nat
           /\ \A kind : IdentityOf(d, kind) = IdOf(options[d], kind)
<1>1. options \in Seq(OptionSet) /\ Devices = 1..Len(options)
  BY LenProperties DEF TypeInv, Devices
<1>2. options[d] \in OptionSet /\ d \in Nat
  BY <1>1, ElementOfSeq
<1> QED
  BY <1>2 DEF IdentityOf, IdOf

\* A host asks for a list.
LEMMA ListStartStep ==
    ASSUME Inv, NEW h \in Hosts, ListStart(h)
    PROVE  Inv'
<1> DEFINE c == [Away EXCEPT !.at = "lists", !.lists = host[h].lists + 1,
                             !.left = Devices \ unplugged]
<1>t. TypeInv /\ HostsInformed
  BY DEF Inv
<1>1. /\ start = "serving" /\ host' = [host EXCEPT ![h] = c] /\ host[h].lists < MaxLists
      /\ UNCHANGED <<specs, start, options, current, unplugged, imported>>
  BY DEF ListStart, deviceVars
<1>2. /\ c.at = "lists" /\ c.left = Devices \ unplugged /\ c.shown = << >>
      /\ c.asked = << >> /\ c.answers = << >> /\ Len(<< >>) = 0
  BY DEF Away
<1>3. Devices \subseteq Nat
  BY <1>t, UnitOptions
<1>4. host[h] \in Clients /\ host[h].lists + 1 \in 0..MaxLists
  BY <1>t, <1>1, ClientFields, BenchAssumption DEF TypeInv, BenchAssumption
<1>5. c \in Clients
  BY <1>3, <1>4, AwayTyped DEF Clients
<1> HIDE DEF c
<1>6. host' \in [Hosts -> Clients] /\ host'[h] = c
  BY <1>t, <1>1, <1>5 DEF TypeInv
<1>7. Informed(c, options, imported) /\ ~Busy(c)
  BY <1>2 DEF Informed, Busy, Devices
<1>8. \A g \in Hosts : Busy(host[g]) => host[g].dev \in imported
  BY <1>t DEF HostsInformed, Informed
<1>9. imported \subseteq Devices /\ \A g \in Hosts : g # h => host'[g] = host[g]
  BY <1>t, <1>1 DEF TypeInv
<1> QED
  BY <1>1, <1>6, <1>7, <1>8, <1>9, HostMoves

\* A step of a host that is not busy before or after it, and imports nothing.
LEMMA IdleMoves ==
    ASSUME Inv, start = "serving", NEW h \in Hosts,
           UNCHANGED <<specs, start, options, deviceVars>>, NEW c \in Clients,
           host' = [host EXCEPT ![h] = c],
           Informed(c, options, imported), ~Busy(c)
    PROVE  Inv'
<1>t. TypeInv /\ HostsInformed
  BY DEF Inv
<1>1. host' \in [Hosts -> Clients] /\ host'[h] = c
  BY <1>t DEF TypeInv
<1>2. \A g \in Hosts : Busy(host[g]) => host[g].dev \in imported
  BY <1>t DEF HostsInformed, Informed
<1>3. imported \subseteq Devices /\ \A g \in Hosts : g # h => host'[g] = host[g]
  BY <1>t DEF TypeInv
<1> QED
  BY <1>1, <1>2, <1>3, HostMoves DEF deviceVars

\* The list grows by a unit, under the name that fits.
LEMMA ListNextStep ==
    ASSUME Inv, NEW h \in Hosts, ListNext(h)
    PROVE  Inv'
<1>t. TypeInv /\ HostsInformed
  BY DEF Inv
<1>1. PICK d \in host[h].left :
         host' = [host EXCEPT ![h].left = @ \ {d},
                     ![h].shown = Append(@, [dev |-> d, busid |-> Shown(options[d].busid),
                                             summary |-> IdentityOf(d, current[d].kind).summary])]
  BY DEF ListNext
<1>2. host[h].at = "lists" /\ UNCHANGED <<specs, start, options, deviceVars>>
  BY DEF ListNext
<1>3. /\ host[h] \in Clients /\ Informed(host[h], options, imported) /\ start = "serving"
  BY <1>t, <1>2, ServingWhen DEF TypeInv, HostsInformed
<1>4. d \in Devices
  BY <1>1, <1>3 DEF Informed, Devices
<1> DEFINE show == [dev |-> d, busid |-> Shown(options[d].busid),
                    summary |-> IdentityOf(d, current[d].kind).summary]
           c == [host[h] EXCEPT !.left = host[h].left \ {d},
                                !.shown = Append(host[h].shown, show)]
<1>5. show \in Shows
  <2>1. options[d] \in OptionSet /\ d \in Nat
    BY <1>t, <1>4, UnitOptions
  <2>2. IdentityOf(d, current[d].kind) = IdOf(options[d], current[d].kind)
    BY <1>t, <1>4, UnitOptions
  <2>3. IdentityOf(d, current[d].kind).summary \in Summaries
    BY <2>1, <2>2, IdentityKnown
  <2>4. Shown(options[d].busid) \in {Shown(o.busid) : o \in OptionSet}
    BY <2>1
  <2> QED
    BY <2>1, <2>3, <2>4 DEF Shows
<1>6. show.dev = d /\ show.busid = Shown(options[d].busid)
  OBVIOUS
<1> HIDE DEF show
<1>7. host' = [host EXCEPT ![h] = c]
  BY <1>1 DEF show
<1>8. /\ host[h].shown \in Seq(Shows) /\ Append(host[h].shown, show) \in Seq(Shows)
      /\ Len(host[h].shown) \in Nat
      /\ Len(Append(host[h].shown, show)) = Len(host[h].shown) + 1
      /\ \A i \in 1..Len(host[h].shown) : Append(host[h].shown, show)[i] = host[h].shown[i]
      /\ Append(host[h].shown, show)[Len(host[h].shown) + 1] = show
  <2>1. host[h].shown \in Seq(Shows)
    BY <1>3, ClientFields
  <2> QED
    BY <1>5, <2>1, AppendProperties, LenProperties
<1>9. /\ c \in Clients /\ c.at = host[h].at /\ c.left = host[h].left \ {d}
      /\ c.shown = Append(host[h].shown, show)
      /\ c.asked = host[h].asked /\ c.answers = host[h].answers
  BY <1>3, <1>8 DEF Clients
<1> HIDE DEF c
<1>10. ~Busy(c)
  BY <1>2, <1>9 DEF Busy
<1>11. Informed(c, options, imported)
  <2>1. ASSUME NEW i \in 1..Len(c.shown)
        PROVE  /\ c.shown[i].dev \in DOMAIN options
               /\ c.shown[i].busid = Shown(options[c.shown[i].dev].busid)
    <3>1. CASE i \in 1..Len(host[h].shown)
      BY <1>3, <1>8, <1>9, <3>1 DEF Informed
    <3>2. CASE i = Len(host[h].shown) + 1
      BY <1>4, <1>6, <1>8, <1>9, <3>2 DEF Devices
    <3> QED
      BY <1>8, <1>9, <3>1, <3>2
  <2> QED
    BY <1>2, <1>3, <1>9, <1>10, <2>1 DEF Informed
<1> QED
  BY <1>2, <1>3, <1>7, <1>9, <1>10, <1>11, IdleMoves

\* The list is sent.
LEMMA ListSentStep ==
    ASSUME Inv, NEW h \in Hosts, ListSent(h)
    PROVE  Inv'
<1> DEFINE c == [host[h] EXCEPT !.at = "chooses"]
<1>t. TypeInv /\ HostsInformed
  BY DEF Inv
<1>1. /\ host[h].at = "lists" /\ host' = [host EXCEPT ![h] = c]
      /\ UNCHANGED <<specs, start, options, deviceVars>>
  BY DEF ListSent
<1>2. host[h] \in Clients /\ Informed(host[h], options, imported) /\ start = "serving"
  BY <1>t, <1>1, ServingWhen DEF TypeInv, HostsInformed
<1>3. /\ c \in Clients /\ c.at = "chooses" /\ c.left = host[h].left /\ c.shown = host[h].shown
      /\ c.asked = host[h].asked /\ c.answers = host[h].answers
  BY <1>2 DEF Clients
<1> HIDE DEF c
<1>4. Informed(c, options, imported) /\ ~Busy(c)
  BY <1>1, <1>2, <1>3 DEF Informed, Busy
<1> QED
  BY <1>1, <1>2, <1>3, <1>4, IdleMoves

\* A busid names at most one unit.
LEMMA NamedOnce ==
    ASSUME TypeInv, NamesDiffer, NEW busid, NEW d \in Named(busid)
    PROVE  /\ d \in Devices /\ Named(busid) = {d}
           /\ (CHOOSE x \in Named(busid) : \A y \in Named(busid) : x <= y) = d
<1>1. d \in Devices /\ Named(busid) = {d}
  BY DEF Named, NamesDiffer
<1>2. d \in Nat
  BY <1>1, UnitOptions
<1>3. \A y \in {d} : d <= y
  BY <1>2
<1> QED
  BY <1>1, <1>3

\* An import takes a unit nobody has; a full name is that of the unit it was
\* shown for.
LEMMA ImportStep ==
    ASSUME Inv, NEW h \in Hosts, NEW e \in Devices, Import(h, e)
    PROVE  Inv'
<1>t. TypeInv /\ NamesDiffer /\ HostsInformed
  BY DEF Inv
<1>1. /\ host[h].at = "chooses" /\ e \in DOMAIN host[h].shown
      /\ UNCHANGED <<specs, start, options, current, unplugged>>
  BY DEF Import
<1>2. host[h] \in Clients /\ Informed(host[h], options, imported) /\ start = "serving"
  BY <1>t, <1>1, ServingWhen DEF TypeInv, HostsInformed
<1> DEFINE found == Named(host[h].shown[e].busid)
<1>3. CASE UNCHANGED <<imported, host>>
  <2>1. TypeInv'
    BY <1>t, <1>1, <1>3 DEF TypeInv, Devices
  <2> QED
    BY <1>1, <1>3, <2>1, HostsStay
<1>4. ASSUME NEW d \in found, ~Refused(d), imported' = imported \cup {d},
             host' = [host EXCEPT ![h].at = "taken", ![h].entry = e, ![h].dev = d]
      PROVE  Inv'
  <2> DEFINE c == [host[h] EXCEPT !.at = "taken", !.entry = e, !.dev = d]
  <2>1. d \in Devices /\ found = {d} /\ d \in Nat /\ d \notin imported
    BY <1>t, <1>4, NamedOnce, UnitOptions DEF Refused
  <2>2. host' = [host EXCEPT ![h] = c]
    BY <1>4
  <2>3. e \in 1..Len(host[h].shown) /\ e \in Nat /\ host[h].shown \in Seq(Shows)
    BY <1>t, <1>1, <1>2, ClientFields, LenProperties, UnitOptions
  <2>4. /\ c \in Clients /\ c.at = "taken" /\ c.left = host[h].left /\ c.shown = host[h].shown
        /\ c.asked = host[h].asked /\ c.answers = host[h].answers
        /\ c.entry = e /\ c.dev = d
    BY <1>2, <2>1, <2>3 DEF Clients
  <2> HIDE DEF c
  <2> DEFINE was == host[h].shown[e].dev
  <2>5. was \in Devices /\ host[h].shown[e].busid = Shown(options[was].busid)
    BY <1>2, <2>3 DEF Informed, Devices
  <2>6. Len(options[was].busid) <= NameField => d = was
    <3> SUFFICES ASSUME Len(options[was].busid) <= NameField PROVE d = was
      OBVIOUS
    <3>1. Shown(options[was].busid) = options[was].busid
      BY <1>t, <2>5, UnitOptions, OptionsSound, ShownInFull
    <3>2. was \in found
      BY <2>5, <3>1 DEF Named
    <3> QED
      BY <2>1, <3>2
  <2> HIDE DEF was, found
  <2>7. Informed(c, options, imported')
    <3>1. c.at # "attached" /\ c.dev \in imported'
      BY <1>4, <2>4
    <3>2. c.shown[c.entry].dev = was
      BY <2>4 DEF was
    <3> QED
      BY <1>1, <1>2, <2>3, <2>4, <2>6, <3>1, <3>2 DEF Informed
  <2>8. \A g \in Hosts : Busy(host[g]) => host[g].dev \in imported
    BY <1>t DEF HostsInformed, Informed
  <2>9. /\ host' \in [Hosts -> Clients] /\ host'[h] = c
        /\ \A g \in Hosts : g # h => host'[g] = host[g]
    BY <1>t, <2>2, <2>4 DEF TypeInv
  <2>10. imported' \subseteq Devices
    BY <1>t, <1>4, <2>1 DEF TypeInv
  <2>11. \A g \in Hosts : Busy(host[g]) => host[g].dev \in imported' /\ host[g].dev # c.dev
    BY <1>4, <2>1, <2>4, <2>8
  <2> QED
    BY <1>1, <1>2, <2>7, <2>9, <2>10, <2>11, HostMoves
<1>5. CASE found # {}
  <2>1. PICK d \in found : TRUE
    BY <1>5
  <2>2. (CHOOSE x \in found : \A y \in found : x <= y) = d
    BY <1>t, NamedOnce
  <2> QED
    BY <1>3, <1>4, <1>5, <2>2 DEF Import
<1>6. CASE found = {}
  BY <1>3, <1>6 DEF Import
<1> QED
  BY <1>5, <1>6

\* The persona of the moment describes itself; nothing has been asked of it.
LEMMA AttachStep ==
    ASSUME Inv, NEW h \in Hosts, Attach(h)
    PROVE  Inv'
<1>t. TypeInv /\ HostsInformed /\ Exclusive
  BY DEF Inv
<1> DEFINE p == current[host[h].dev]
           s == IdentityOf(host[h].dev, p.kind).summary
           c == [host[h] EXCEPT !.at = "attached", !.backend = p, !.summary = s]
<1>1. /\ host[h].at = "taken" /\ host' = [host EXCEPT ![h] = c]
      /\ UNCHANGED <<specs, start, options, current, unplugged, imported>>
  BY DEF Attach, deviceVars
<1>2. /\ host[h] \in Clients /\ Informed(host[h], options, imported) /\ start = "serving"
      /\ Busy(host[h]) /\ host[h].dev \in imported /\ host[h].dev \in Devices
  BY <1>t, <1>1, ServingWhen DEF TypeInv, HostsInformed, Informed, Busy
<1>0. Len(host[h].asked) = 0
  BY <1>1, <1>2 DEF Informed
<1>3. p \in Personas
  BY <1>t, <1>2 DEF TypeInv
<1>4. s \in Summaries /\ s = IdOf(options[host[h].dev], p.kind).summary
  BY <1>t, <1>2, UnitOptions, IdentityKnown
<1> HIDE DEF p, s
<1>5. /\ c \in Clients /\ c.at = "attached" /\ c.left = host[h].left /\ c.shown = host[h].shown
      /\ c.asked = host[h].asked /\ c.answers = host[h].answers
      /\ c.entry = host[h].entry /\ c.dev = host[h].dev /\ c.backend = p /\ c.summary = s
  BY <1>2, <1>3, <1>4 DEF Clients
<1> HIDE DEF c
<1>6. OneConnection(c, options[c.dev])
  BY <1>0, <1>4, <1>5 DEF OneConnection
<1>7. Informed(c, options, imported) /\ Busy(c)
  BY <1>2, <1>3, <1>5, <1>6 DEF Informed, Busy
<1>8. \A g \in Hosts : Busy(host[g]) => host[g].dev \in imported
  BY <1>t DEF HostsInformed, Informed
<1>9. /\ host' \in [Hosts -> Clients] /\ host'[h] = c
      /\ \A g \in Hosts : g # h => host'[g] = host[g]
      /\ imported' \subseteq Devices
  BY <1>t, <1>1, <1>5 DEF TypeInv
<1>10. \A g \in Hosts : g # h /\ Busy(host[g]) => host[g].dev # c.dev
  BY <1>t, <1>2, <1>5 DEF Exclusive
<1> QED
  BY <1>1, <1>2, <1>7, <1>8, <1>9, <1>10, HostMoves

\* The connection ends and its unit is free.
LEMMA DropStep ==
    ASSUME Inv, NEW h \in Hosts, Drop(h)
    PROVE  Inv'
<1> DEFINE c == [Away EXCEPT !.lists = host[h].lists]
<1>t. TypeInv /\ HostsInformed /\ Exclusive
  BY DEF Inv
<1>1. /\ host[h].at = "attached" /\ host' = [host EXCEPT ![h] = c]
      /\ imported' = imported \ {host[h].dev}
      /\ UNCHANGED <<specs, start, options, current, unplugged>>
  BY DEF Drop
<1>2. host[h] \in Clients /\ start = "serving" /\ Busy(host[h])
  BY <1>t, <1>1, ServingWhen DEF TypeInv, Busy
<1>3. /\ c.at = "away" /\ c.left = {} /\ c.shown = << >>
      /\ c.asked = << >> /\ c.answers = << >> /\ Len(<< >>) = 0
  BY DEF Away
<1>4. c \in Clients
  BY <1>2, AwayTyped, ClientFields DEF Clients
<1> HIDE DEF c
<1>5. Informed(c, options, imported') /\ ~Busy(c)
  BY <1>3 DEF Informed, Busy
<1>6. \A g \in Hosts : g # h /\ Busy(host[g]) => host[g].dev \in imported'
  <2>1. \A g \in Hosts : Busy(host[g]) => host[g].dev \in imported
    BY <1>t DEF HostsInformed, Informed
  <2>2. \A g \in Hosts : g # h /\ Busy(host[g]) => host[g].dev # host[h].dev
    BY <1>t, <1>2 DEF Exclusive
  <2> QED
    BY <1>1, <2>1, <2>2
<1>7. /\ host' \in [Hosts -> Clients] /\ host'[h] = c
      /\ \A g \in Hosts : g # h => host'[g] = host[g]
      /\ imported' \subseteq Devices
  BY <1>t, <1>1, <1>4 DEF TypeInv
<1> QED
  BY <1>1, <1>2, <1>5, <1>6, <1>7, HostMoves

\* What a host has reason to ask is a reasonable request.
LEMMA WantedReasonable ==
    ASSUME Inv, NEW h \in Hosts, host[h].at = "attached", NEW s \in Wanted(h)
    PROVE  Reasonable(IdOf(options[host[h].dev], host[h].backend.kind), s)
<1> DEFINE o == options[host[h].dev]
           id == IdOf(o, host[h].backend.kind)
<1>t. TypeInv /\ HostsInformed
  BY DEF Inv
<1>1. /\ host[h] \in Clients /\ Informed(host[h], options, imported)
      /\ host[h].dev \in Devices /\ OneConnection(host[h], o)
  BY <1>t DEF TypeInv, HostsInformed, Informed, Busy
<1>2. Sound(id, o.serial)
  BY <1>t, <1>1, UnitOptions, IdentityKnown
<1>3. DOMAIN host[h].asked = 1..Len(host[h].asked)
  BY <1>1, ClientFields, LenProperties
<1>4. ASSUME NEW i \in DOMAIN host[h].asked, s \in Follows(host[h].asked[i], host[h].answers[i])
      PROVE  Reasonable(id, s)
  <2>1. /\ Reasonable(id, host[h].asked[i])
        /\ host[h].answers[i] = Control(id, host[h].asked[i])
    BY <1>1, <1>3 DEF OneConnection
  <2> HIDE DEF id, o
  <2>2. Told(id, o.serial, host[h].asked[i], host[h].answers[i])
    BY <1>2, <2>1, ReasonableTold
  <2> QED
    BY <1>4, <2>2 DEF Told
<1>5. \/ s = Get("device", 0, 18)
      \/ \E i \in DOMAIN host[h].asked : s \in Follows(host[h].asked[i], host[h].answers[i])
  BY DEF Wanted
<1> QED
  BY <1>4, <1>5 DEF Reasonable

\* A control transfer: the persona of the connection answers.
LEMMA AskStep ==
    ASSUME Inv, NEW h \in Hosts, Ask(h)
    PROVE  Inv'
<1>t. TypeInv /\ HostsInformed /\ Exclusive
  BY DEF Inv
<1> DEFINE s == CHOOSE x \in Wanted(h) : TRUE
           o == options[host[h].dev]
           id == IdOf(o, host[h].backend.kind)
           a == Control(id, s)
           c == [host[h] EXCEPT !.asked = Append(host[h].asked, s),
                                !.answers = Append(host[h].answers, a)]
<1>1. /\ host[h].at = "attached" /\ Wanted(h) # {}
      /\ UNCHANGED <<specs, start, options, current, unplugged, imported>>
  BY DEF Ask, deviceVars
<1>2. /\ host[h] \in Clients /\ Informed(host[h], options, imported) /\ start = "serving"
      /\ Busy(host[h]) /\ host[h].dev \in imported /\ host[h].dev \in Devices
      /\ OneConnection(host[h], o)
  BY <1>t, <1>1, ServingWhen DEF TypeInv, HostsInformed, Informed, Busy
<1>3. IdentityOf(host[h].dev, host[h].backend.kind) = id
  BY <1>t, <1>2, UnitOptions
<1>4. host' = [host EXCEPT ![h] = c]
  BY <1>3 DEF Ask, Backend
<1>5. s \in Wanted(h)
  BY <1>1
<1>6. Reasonable(id, s)
  BY <1>1, <1>5, WantedReasonable
<1>7. Sound(id, o.serial) /\ id \in Ids
  BY <1>t, <1>2, UnitOptions, IdentityKnown
<1> HIDE DEF s, id, o
<1>8. s \in Requests /\ a \in Answers
  BY <1>6, <1>7, ReasonableTyped, AnswersTyped
<1>9. a = Control(id, s)
  OBVIOUS
<1> HIDE DEF a
<1>10. /\ host[h].asked \in Seq(Requests) /\ host[h].answers \in Seq(Answers)
       /\ Len(host[h].asked) \in Nat /\ Len(host[h].asked) = Len(host[h].answers)
  BY <1>2, ClientFields, LenProperties DEF Informed
<1>11. /\ Append(host[h].asked, s) \in Seq(Requests)
       /\ Len(Append(host[h].asked, s)) = Len(host[h].asked) + 1
       /\ \A i \in 1..Len(host[h].asked) : Append(host[h].asked, s)[i] = host[h].asked[i]
       /\ Append(host[h].asked, s)[Len(host[h].asked) + 1] = s
  <2>1. s \in Requests /\ host[h].asked \in Seq(Requests)
    BY <1>8, <1>10
  <2> DEFINE q == host[h].asked
  <2>2. q \in Seq(Requests)
    BY <2>1
  <2> HIDE DEF q
  <2>3. /\ Append(q, s) \in Seq(Requests) /\ Len(Append(q, s)) = Len(q) + 1
        /\ \A i \in 1..Len(q) : Append(q, s)[i] = q[i]
        /\ Append(q, s)[Len(q) + 1] = s
    BY <2>1, <2>2, AppendProperties
  <2> QED
    BY <2>3 DEF q
<1>12. /\ Append(host[h].answers, a) \in Seq(Answers)
       /\ Len(Append(host[h].answers, a)) = Len(host[h].asked) + 1
       /\ \A i \in 1..Len(host[h].asked) : Append(host[h].answers, a)[i] = host[h].answers[i]
       /\ Append(host[h].answers, a)[Len(host[h].asked) + 1] = a
  BY <1>8, <1>10, AppendProperties
<1>13. /\ c \in Clients /\ c.at = host[h].at /\ c.left = host[h].left
       /\ c.shown = host[h].shown /\ c.entry = host[h].entry /\ c.dev = host[h].dev
       /\ c.backend = host[h].backend /\ c.summary = host[h].summary
       /\ c.asked = Append(host[h].asked, s) /\ c.answers = Append(host[h].answers, a)
  BY <1>2, <1>11, <1>12 DEF Clients
<1> HIDE DEF c
<1>14. OneConnection(c, o)
  <2>1. IdOf(o, c.backend.kind) = id /\ c.summary = id.summary
    BY <1>2, <1>13 DEF OneConnection, id
  <2>2. ASSUME NEW i \in 1..Len(c.asked)
        PROVE  Reasonable(id, c.asked[i]) /\ c.answers[i] = Control(id, c.asked[i])
    <3>1. CASE i \in 1..Len(host[h].asked)
      <4>1. c.asked[i] = host[h].asked[i] /\ c.answers[i] = host[h].answers[i]
        BY <1>11, <1>12, <1>13, <3>1
      <4> QED
        BY <1>2, <3>1, <4>1 DEF OneConnection, id
    <3>2. CASE i = Len(host[h].asked) + 1
      BY <1>6, <1>9, <1>11, <1>12, <1>13, <3>2
    <3> QED
      BY <1>10, <1>11, <1>13, <3>1, <3>2
  <2> QED
    BY <2>1, <2>2 DEF OneConnection
<1>15. Informed(c, options, imported) /\ Busy(c)
  BY <1>1, <1>2, <1>11, <1>12, <1>13, <1>14 DEF Informed, Busy, o
<1>16. \A g \in Hosts : Busy(host[g]) => host[g].dev \in imported
  BY <1>t DEF HostsInformed, Informed
<1>17. /\ host' \in [Hosts -> Clients] /\ host'[h] = c
       /\ \A g \in Hosts : g # h => host'[g] = host[g]
       /\ imported' \subseteq Devices
  BY <1>t, <1>1, <1>4, <1>13 DEF TypeInv
<1>18. \A g \in Hosts : g # h /\ Busy(host[g]) => host[g].dev # c.dev
  BY <1>t, <1>2, <1>13 DEF Exclusive
<1> QED
  BY <1>1, <1>2, <1>15, <1>16, <1>17, <1>18, HostMoves

\* Inv holds initially.
LEMMA InvInit == Init => Inv
<1> SUFFICES ASSUME Init PROVE Inv
  OBVIOUS
<1>1. /\ options = << >> /\ options \in Seq(OptionSet) /\ Len(options) = 0 /\ Devices = {}
      /\ \A h \in Hosts : host[h] = Away
  BY EmptySeq DEF Init, Devices
<1>2. Len(specs) \in Nat
  BY BenchAssumption DEF Init, BenchAssumption
<1>3. TypeInv
  BY <1>1, <1>2, AwayTyped DEF Init, TypeInv
<1>4. HostsInformed /\ Exclusive /\ NamesDiffer
  BY <1>1, AwayInformed DEF HostsInformed, Exclusive, NamesDiffer
<1> QED
  BY <1>3, <1>4 DEF Inv

\* Inv is inductive.
LEMMA InvStep == Inv /\ [Next]_vars => Inv'
<1> SUFFICES ASSUME Inv, [Next]_vars PROVE Inv'
  OBVIOUS
<1>1. CASE UNCHANGED vars
  BY <1>1 DEF vars, deviceVars, Inv, TypeInv, NamesDiffer, HostsInformed, Exclusive, Devices
<1>2. ASSUME NEW h \in Hosts, Client(h) PROVE Inv'
  BY <1>2, ListStartStep, ListNextStep, ListSentStep, ImportStep, AttachStep, AskStep, DropStep
     DEF Client
<1> QED
  BY <1>1, <1>2, ConfigureStep, ServeStep, UnitStep DEF Next

\* Inv holds in every state.
LEMMA InvAlways == Spec => []Inv
  BY InvInit, InvStep, PTL DEF Spec

-----------------------------------------------------------------------------
(* What follows from it. *)

\* Every variable has its type, and a host that is attached has imported its
\* unit, for any hosts, units and descriptions.
THEOREM TypeCorrect == Spec => []TypeOK
<1>1. Inv => TypeOK
  <2> SUFFICES ASSUME Inv PROVE TypeOK
    OBVIOUS
  <2>t. TypeInv /\ HostsInformed
    BY DEF Inv
  <2>1. /\ start = "serving" => DOMAIN current = Devices
        /\ start = "serving" => \A d \in Devices : current[d].gen \in 0..MaxSwitches
    BY <2>t DEF TypeInv, Personas
  <2>2. ASSUME NEW h \in Hosts
        PROVE  /\ host[h].at \in {"away", "lists", "chooses", "taken", "attached"}
               /\ host[h].lists \in 0..MaxLists
               /\ Len(host[h].asked) = Len(host[h].answers)
               /\ host[h].at \in {"taken", "attached"} =>
                    host[h].dev \in imported /\ host[h].entry \in DOMAIN host[h].shown
    <3>1. host[h] \in Clients /\ Informed(host[h], options, imported)
      BY <2>t DEF TypeInv, HostsInformed
    <3>2. DOMAIN host[h].shown = 1..Len(host[h].shown)
      BY <3>1, ClientFields, LenProperties
    <3> QED
      BY <3>1, <3>2, ClientFields DEF Informed, Busy
  <2> QED
    BY <2>t, <2>1, <2>2 DEF TypeOK, TypeInv
<1> QED
  BY <1>1, InvAlways, PTL

\* A host that asks for an entry of its list gets the unit the entry described,
\* however many units reboot meanwhile and whatever the description calls them,
\* unless the name does not fit its field.
THEOREM PickedIsAttached == Spec => []OwnDevice
<1>1. Inv => OwnDevice
  BY DEF Inv, HostsInformed, Informed, Busy, OwnDevice, Entry
<1> QED
  BY <1>1, InvAlways, PTL

\* What an attached host has been told, request by request.
LEMMA AttachedTold ==
    ASSUME Inv, NEW h \in Enumerating
    PROVE  /\ host[h].dev \in Devices
           /\ host[h].summary = IdOf(options[host[h].dev], host[h].backend.kind).summary
           /\ \A i \in DOMAIN host[h].asked :
                Told(IdOf(options[host[h].dev], host[h].backend.kind),
                     options[host[h].dev].serial, host[h].asked[i], host[h].answers[i])
<1> DEFINE o == options[host[h].dev]
           id == IdOf(o, host[h].backend.kind)
<1>t. TypeInv /\ HostsInformed /\ h \in Hosts /\ host[h].at = "attached"
  BY DEF Inv, Enumerating
<1>1. /\ host[h] \in Clients /\ Informed(host[h], options, imported)
      /\ host[h].dev \in Devices /\ OneConnection(host[h], o)
  BY <1>t DEF TypeInv, HostsInformed, Informed, Busy
<1>2. Sound(id, o.serial)
  BY <1>t, <1>1, UnitOptions, IdentityKnown
<1>3. DOMAIN host[h].asked = 1..Len(host[h].asked)
  BY <1>1, ClientFields, LenProperties
<1>4. host[h].summary = id.summary
  BY <1>1 DEF OneConnection
<1>5. ASSUME NEW i \in DOMAIN host[h].asked
      PROVE  Told(id, o.serial, host[h].asked[i], host[h].answers[i])
  <2>1. /\ Reasonable(id, host[h].asked[i])
        /\ host[h].answers[i] = Control(id, host[h].asked[i])
    BY <1>1, <1>3 DEF OneConnection
  <2> HIDE DEF id, o
  <2> QED
    BY <1>2, <2>1, ReasonableTold
<1> QED
  BY <1>1, <1>4, <1>5

\* The parts of an identity agree with its summary and with the options.
LEMMA IdentityAgrees ==
    ASSUME NEW o, NEW kind
    PROVE  LET id == IdOf(o, kind)
           IN  /\ id.device.vid = id.summary.vid /\ id.device.pid = id.summary.pid
               /\ id.config.ifaces = id.summary.ifaces
               /\ \A i \in DOMAIN id.strings : id.strings[i].text \in
                    IF id.summary.ifaces = <<"hid">>
                    THEN {"NXP Semiconductor Inc.", "USB COMPOSITE DEVICE"}
                    ELSE {"QuantAsylum", o.model, o.serial.text}
<1> DEFINE id == IdOf(o, kind)
<1>1. CASE kind = "bootloader"
  <2> DEFINE first == [text |-> "NXP Semiconductor Inc.", units |-> 22]
             second == [text |-> "USB COMPOSITE DEVICE", units |-> 20]
  <2>1. /\ id.device.vid = id.summary.vid /\ id.device.pid = id.summary.pid
        /\ id.config.ifaces = <<"hid">> /\ id.summary.ifaces = <<"hid">>
    BY <1>1 DEF IdOf, BootloaderIdentity, DeviceDescriptor, ConfigDescriptor
  <2>2. id.strings = <<first, second>>
    BY <1>1 DEF IdOf, BootloaderIdentity
  <2>3. first.text = "NXP Semiconductor Inc." /\ second.text = "USB COMPOSITE DEVICE"
    OBVIOUS
  <2> HIDE DEF first, second, id
  <2>4. \A i \in DOMAIN id.strings : id.strings[i] \in {first, second}
    BY <2>2
  <2> QED
    BY <2>1, <2>3, <2>4 DEF id
<1>2. CASE kind # "bootloader"
  <2> DEFINE first == [text |-> "QuantAsylum", units |-> 11]
             second == Product(o.model)
  <2>1. /\ id.device.vid = id.summary.vid /\ id.device.pid = id.summary.pid
        /\ id.config.ifaces = <<"vendor">> /\ id.summary.ifaces = <<"vendor">>
    BY <1>2 DEF IdOf, AnalyzerIdentity, DeviceDescriptor, ConfigDescriptor
  <2>2. id.strings = <<first, second, o.serial>>
    BY <1>2 DEF IdOf, AnalyzerIdentity
  <2>3. first.text = "QuantAsylum" /\ second.text = o.model
    BY DEF Product
  <2> HIDE DEF first, second, id
  <2>4. \A i \in DOMAIN id.strings : id.strings[i] \in {first, second, o.serial}
    BY <2>2
  <2>5. <<"vendor">> # <<"hid">>
    OBVIOUS
  <2> QED
    BY <2>1, <2>3, <2>4, <2>5 DEF id
<1> QED
  BY <1>1, <1>2

\* One persona tells a host everything it is told in one connection, for any
\* number of reboots of the unit meanwhile.
THEOREM OnePersonaTells == Spec => []OnePersona
<1>1. Inv => OnePersona
  <2> SUFFICES ASSUME Inv, NEW h \in Enumerating
               PROVE  /\ \A d \in Held(h, "device") : d.vid = host[h].summary.vid
                                                   /\ d.pid = host[h].summary.pid
                      /\ \A c \in Held(h, "config") : c.ifaces = host[h].summary.ifaces
                      /\ \A s \in Held(h, "string") \ {Languages} :
                           s.text \in Texts(host[h].dev, host[h].summary.ifaces)
    BY DEF OnePersona
  <2> DEFINE o == options[host[h].dev]
             id == IdOf(o, host[h].backend.kind)
  <2>1. /\ host[h].summary = id.summary
        /\ \A i \in DOMAIN host[h].asked :
             Told(id, o.serial, host[h].asked[i], host[h].answers[i])
    BY AttachedTold
  <2>2. /\ id.device.vid = id.summary.vid /\ id.device.pid = id.summary.pid
        /\ id.config.ifaces = id.summary.ifaces
        /\ \A i \in DOMAIN id.strings : id.strings[i].text \in
             IF id.summary.ifaces = <<"hid">>
             THEN {"NXP Semiconductor Inc.", "USB COMPOSITE DEVICE"}
             ELSE {"QuantAsylum", o.model, o.serial.text}
    BY IdentityAgrees
  <2> HIDE DEF id
  <2>3. ASSUME NEW type, NEW d \in Held(h, type)
        PROVE  \E i \in DOMAIN host[h].asked :
                  host[h].asked[i].type = type /\ host[h].answers[i].of = d
    BY <2>3 DEF Held
  <2>4. ASSUME NEW d \in Held(h, "device") PROVE d = id.device
    BY <2>1, <2>3 DEF Told
  <2>5. ASSUME NEW d \in Held(h, "config") PROVE d = id.config
    BY <2>1, <2>3 DEF Told
  <2>6. ASSUME NEW d \in Held(h, "string"), d # Languages
        PROVE  \E i \in DOMAIN id.strings : d.text = id.strings[i].text
    BY <2>1, <2>3, <2>6 DEF Told
  <2>7. Texts(host[h].dev, host[h].summary.ifaces) =
          IF id.summary.ifaces = <<"hid">>
          THEN {"NXP Semiconductor Inc.", "USB COMPOSITE DEVICE"}
          ELSE {"QuantAsylum", o.model, o.serial.text}
    BY <2>1 DEF Texts
  <2> QED
    BY <2>1, <2>2, <2>4, <2>5, <2>6, <2>7
<1> QED
  BY <1>1, InvAlways, PTL

\* No descriptor announces what is not served: a host that follows them is
\* neither refused nor served a part for the whole.
THEOREM AnnouncedIsServed == Spec => []Enumerated
<1>1. Inv => Enumerated
  <2> SUFFICES ASSUME Inv, NEW h \in Enumerating, NEW i \in DOMAIN host[h].asked
               PROVE  LET setup  == host[h].asked[i]
                          answer == host[h].answers[i]
                      IN  /\ answer.ok
                          /\ setup.length \notin {5, 9, 255} =>
                               answer.n = setup.length /\ answer.n = answer.of.len
                          /\ setup.type = "string" =>
                               answer.of.bLength = answer.n
                                 \/ options[host[h].dev].serial.units > 126
    BY DEF Enumerated
  <2>1. Good(host[h].asked[i], host[h].answers[i], options[host[h].dev].serial)
    BY AttachedTold DEF Told
  <2> QED
    BY <2>1 DEF Good
<1> QED
  BY <1>1, InvAlways, PTL
=============================================================================
