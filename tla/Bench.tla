-------------------------------- MODULE Bench --------------------------------
(***************************************************************************)
(* A bench of virtual devices, from its description to an enumerated device: *)
(* start-up (vqa40x-cli/src/main.rs), the DEVLIST and IMPORT operations of    *)
(* vqa40x-usbip/src/lib.rs with the names they carry (proto.rs), and the      *)
(* requests by which a host finds out what it has attached (identity.rs).    *)
(*                                                                         *)
(* Hosts choose a device from a list they were given some time ago, while     *)
(* the units reboot into another persona and lose their cable for a while.   *)
(* The life of one unit and of one connection is the subject of Simulator    *)
(* and UrbPhase; here a unit may switch at any moment.                       *)
(***************************************************************************)
EXTENDS Identity, TLC

CONSTANTS
    Hosts,
    Benches,     \* descriptions the bench may be started with
    NameField,   \* bytes of a busid that fit a device block
    Fresh,       \* serials random_serial may draw
    NotGiven,    \* what a description says of a field it leaves out
    MaxSwitches, \* bound: persona switches of one unit
    MaxLists     \* bound: lists one host asks for

Models == {"qa402", "qa403"}

\* An entry of a description; `bad` stands for a field that does not parse, or
\* names a registry or a page that cannot be loaded.
ASSUME BenchAssumption ==
    /\ \A b \in Benches :
         /\ Len(b) \in Nat /\ DOMAIN b = 1..Len(b)
         /\ \A i \in DOMAIN b :
              /\ DOMAIN b[i] = {"model", "busid", "vid", "pid", "serial", "boot", "bad"}
              /\ b[i].model \in Models \cup {NotGiven}
              /\ b[i].boot \in BOOLEAN \cup {NotGiven} /\ b[i].bad \in BOOLEAN
              /\ b[i].busid # NotGiven => b[i].busid \in Seq(STRING)
              /\ b[i].serial # NotGiven => b[i].serial.units \in Nat
    /\ NameField \in Nat /\ MaxSwitches \in Nat /\ MaxLists \in Nat
    /\ \A s \in Fresh : s.units = 9

VARIABLES
    specs,      \* the description
    start,      \* "configuring", "serving" or "refused"
    options,    \* options built so far; a Simulator each once serving
    current,    \* the attached persona of each unit, and its generation
    unplugged,  \* units in the cable-out window
    imported,   \* units some connection has imported
    host        \* what each host does and knows

deviceVars == <<current, unplugged, imported>>
vars == <<specs, start, options, deviceVars, host>>

Devices == DOMAIN options
Given(x, default) == IF x = NotGiven THEN default ELSE x

Away == [at |-> "away", lists |-> 0, left |-> {}, shown |-> << >>, entry |-> 0, dev |-> 0,
         backend |-> 0, summary |-> Absent, asked |-> << >>, answers |-> << >>]

Init ==
    /\ specs \in Benches /\ start = "configuring" /\ options = << >>
    /\ current = << >> /\ unplugged = {} /\ imported = {}
    /\ host = [h \in Hosts |-> Away]

-----------------------------------------------------------------------------
(* Start-up. *)

DefaultPid(model) == IF model = "qa402" THEN "4E37" ELSE "4E39"

\* spec_to_options: the defaults of what an entry leaves out.  `i` counts from
\* 1, as the names that are made up for entries without one do.
SpecToOptions(spec, i, serial) ==
    LET model == Given(spec.model, "qa402")
    IN  [model  |-> model,
         vid    |-> Given(spec.vid, "16C0"),
         pid    |-> Given(spec.pid, DefaultPid(model)),
         serial |-> serial,
         busid  |-> Given(spec.busid, <<"1", "-", ToString(i)>>),
         boot   |-> Given(spec.boot, FALSE)]

\* resolve_serial: the one given, or a random one.
Serials(spec) == IF spec.serial = NotGiven THEN Fresh ELSE {spec.serial}

\* Mutant of Seen: entries are compared as they are described.
SeenAsGiven(o) == \E i \in DOMAIN options : specs[i].busid = o.busid

Seen(o) == \E i \in DOMAIN options : options[i].busid = o.busid

\* The next entry of the description: a bad one, a busid seen before, or an
\* empty description stop the program.
Configure ==
    /\ start = "configuring" /\ Len(options) < Len(specs)
    /\ LET i == Len(options) + 1
       IN  \E serial \in Serials(specs[i]) :
             LET o == SpecToOptions(specs[i], i, serial)
             IN  IF specs[i].bad \/ Seen(o)
                 THEN start' = "refused" /\ options' = options
                 ELSE start' = start /\ options' = Append(options, o)
    /\ UNCHANGED <<specs, deviceVars, host>>

Serve ==
    /\ start = "configuring" /\ Len(options) = Len(specs)
    /\ start' = IF specs = << >> THEN "refused" ELSE "serving"
    /\ current' = [d \in Devices |->
                     [kind |-> IF options[d].boot THEN "bootloader" ELSE "analyzer", gen |-> 0]]
    /\ UNCHANGED <<specs, options, unplugged, imported, host>>

-----------------------------------------------------------------------------
(* The units. *)

Product(model) == [text |-> model, units |-> 20]

\* The identity a persona of unit d shows.
IdentityOf(d, kind) ==
    IF kind = "bootloader" THEN BootloaderIdentity
    ELSE AnalyzerIdentity(options[d].vid, options[d].pid, Product(options[d].model),
                          options[d].serial)

\* The event loop replaces the persona; after a flash the cable is out.
Switch(d, kind, out) ==
    /\ start = "serving" /\ current[d].gen < MaxSwitches
    /\ out => kind = "analyzer"
    /\ current' = [current EXCEPT ![d] = [kind |-> kind, gen |-> @.gen + 1]]
    /\ unplugged' = IF out THEN unplugged \cup {d} ELSE unplugged
    /\ UNCHANGED <<specs, start, options, imported, host>>

Replug(d) ==
    /\ d \in unplugged /\ unplugged' = unplugged \ {d}
    /\ UNCHANGED <<specs, start, options, current, imported, host>>

-----------------------------------------------------------------------------
(* DEVLIST. *)

\* usb_device_block: the busid is cut to its field.
Shown(busid) == SubSeq(busid, 1, Least(Len(busid), NameField))

\* The units to list are those whose cable is in now.
ListStart(h) ==
    /\ start = "serving" /\ host[h].at \in {"away", "chooses"} /\ host[h].lists < MaxLists
    /\ host' = [host EXCEPT ![h] =
           [Away EXCEPT !.at = "lists", !.lists = host[h].lists + 1,
                        !.left = Devices \ unplugged]]
    /\ UNCHANGED <<specs, start, options, deviceVars>>

\* The next of them is described as it is by then; it may have switched.
ListNext(h) ==
    /\ host[h].at = "lists"
    /\ \E d \in host[h].left :
         /\ \A x \in host[h].left : d <= x
         /\ host' = [host EXCEPT ![h].left = @ \ {d},
                     ![h].shown = Append(@, [dev |-> d, busid |-> Shown(options[d].busid),
                                             summary |-> IdentityOf(d, current[d].kind).summary])]
    /\ UNCHANGED <<specs, start, options, deviceVars>>

ListSent(h) ==
    /\ host[h].at = "lists" /\ host[h].left = {}
    /\ host' = [host EXCEPT ![h].at = "chooses"]
    /\ UNCHANGED <<specs, start, options, deviceVars>>

-----------------------------------------------------------------------------
(* IMPORT. *)

Named(busid) == {d \in Devices : options[d].busid = busid}

\* Mutant of Refused: the swap of the import flag is not looked at.
RefusedUnplugged(d) == d \in unplugged

\* In its cable-out window, or attached to another client.
Refused(d) == d \in unplugged \cup imported

\* The host asks for an entry of its list, by the name it was shown.
Import(h, e) ==
    /\ host[h].at = "chooses" /\ e \in DOMAIN host[h].shown
    /\ LET found == Named(host[h].shown[e].busid)
           d     == CHOOSE x \in found : \A y \in found : x <= y
       IN  IF found = {} \/ Refused(d)
           THEN UNCHANGED <<imported, host>>
           ELSE /\ imported' = imported \cup {d}
                /\ host' = [host EXCEPT ![h].at = "taken", ![h].entry = e, ![h].dev = d]
    /\ UNCHANGED <<specs, start, options, current, unplugged>>

\* The persona of this moment serves the connection and describes itself in the
\* reply.
Attach(h) ==
    /\ host[h].at = "taken"
    /\ LET c == current[host[h].dev]
       IN  host' = [host EXCEPT ![h].at = "attached", ![h].backend = c,
                                ![h].summary = IdentityOf(host[h].dev, c.kind).summary]
    /\ UNCHANGED <<specs, start, options, deviceVars>>

\* The host detaches, or the connection sees that its unit has rebooted.
Drop(h) ==
    /\ host[h].at = "attached"
    /\ imported' = imported \ {host[h].dev}
    /\ host' = [host EXCEPT ![h] = [Away EXCEPT !.lists = host[h].lists]]
    /\ UNCHANGED <<specs, start, options, current, unplugged>>

-----------------------------------------------------------------------------
(* Enumeration. *)

Get(type, index, length) ==
    [req |-> "GET_DESCRIPTOR", type |-> type, index |-> index, length |-> length]

\* What the answer to a request leads a host to ask next: first the heads, then
\* the whole of what they announce.
Follows(setup, answer) ==
    LET d == answer.of
    IN  CASE ~answer.ok -> {}
          [] setup = Get("device", 0, 18) ->
               {Get("config", 0, 9)} \cup {Get("string", i, 255) : i \in 0..d.strings}
                 \cup (IF d.bcdUsb >= 513 THEN {Get("bos", 0, 5)} ELSE {})
          [] setup = Get("config", 0, 9) -> {Get("config", 0, d.total)}
          [] setup.type = "config" /\ setup.length > 9 ->
               {[req |-> "SET_CONFIGURATION", type |-> "none", index |-> 1, length |-> 0]}
                 \cup (IF d.reportLen > 0 THEN {Get("report", 0, d.reportLen)} ELSE {})
          [] setup = Get("bos", 0, 5) -> {Get("bos", 0, d.total)}
          [] setup.type = "bos" /\ setup.length > 5 ->
               {[req |-> "VENDOR", type |-> "none", index |-> d.vendorCode, length |-> d.setLength]}
          [] OTHER -> {}

\* The requests a host has reason to make, and has not made.
Wanted(h) ==
    ({Get("device", 0, 18)}
       \cup UNION {Follows(host[h].asked[i], host[h].answers[i]) : i \in DOMAIN host[h].asked})
      \ {host[h].asked[i] : i \in DOMAIN host[h].asked}

\* Mutant of Backend: each request goes to the unit as it is by then.
BackendOfUnit(h) == current[host[h].dev]

\* A connection keeps the persona it was attached to.
Backend(h) == host[h].backend

\* One control transfer; handle_control cuts the data to the transfer's length,
\* which is the setup packet's.
Ask(h) ==
    /\ host[h].at = "attached" /\ Wanted(h) # {}
    /\ LET setup == CHOOSE s \in Wanted(h) : TRUE
       IN  host' = [host EXCEPT ![h].asked = Append(@, setup),
                    ![h].answers = Append(@,
                        Control(IdentityOf(host[h].dev, Backend(h).kind), setup))]
    /\ UNCHANGED <<specs, start, options, deviceVars>>

-----------------------------------------------------------------------------
Unit(d) == Replug(d) \/ \E k \in {"analyzer", "bootloader"}, out \in BOOLEAN : Switch(d, k, out)

Client(h) ==
    \/ ListStart(h) \/ ListNext(h) \/ ListSent(h)
    \/ \E e \in Devices : Import(h, e)
    \/ Attach(h) \/ Ask(h) \/ Drop(h)

Next == Configure \/ Serve \/ (\E d \in Devices : Unit(d)) \/ (\E h \in Hosts : Client(h))

Spec == Init /\ [][Next]_vars

-----------------------------------------------------------------------------
(* Properties. *)

TypeOK ==
    /\ specs \in Benches /\ start \in {"configuring", "serving", "refused"}
    /\ Len(options) <= Len(specs)
    /\ start = "serving" => /\ Len(options) = Len(specs)
                            /\ DOMAIN current = Devices
                            /\ \A d \in Devices : current[d].gen \in 0..MaxSwitches
    /\ unplugged \subseteq Devices /\ imported \subseteq Devices
    /\ DOMAIN host = Hosts
    /\ \A h \in Hosts :
         /\ host[h].at \in {"away", "lists", "chooses", "taken", "attached"}
         /\ host[h].lists \in 0..MaxLists
         /\ Len(host[h].asked) = Len(host[h].answers)
         /\ host[h].at \in {"taken", "attached"} =>
              host[h].dev \in imported /\ host[h].entry \in DOMAIN host[h].shown

Enumerating == {h \in Hosts : host[h].at = "attached"}
Entry(h) == host[h].shown[host[h].entry]

\* "IMPORT selects one by busid": a host that asks for an entry of its list is
\* attached to the unit the entry described, however the description named its
\* devices and whatever has rebooted since.  A busid that does not fit the field
\* of the list is excepted: it is shown cut, and the cut name is nobody's or
\* another unit's.
OwnDevice ==
    \A h \in Hosts : host[h].at \in {"taken", "attached"} =>
        (Len(options[Entry(h).dev].busid) <= NameField => host[h].dev = Entry(h).dev)

Held(h, type) ==
    {host[h].answers[i].of : i \in {j \in DOMAIN host[h].asked :
        host[h].asked[j].type = type /\ host[h].answers[j].ok}}

\* What the strings of unit d say, by the kind of interface it shows.
Texts(d, ifaces) ==
    IF ifaces = <<"hid">> THEN {"NXP Semiconductor Inc.", "USB COMPOSITE DEVICE"}
    ELSE {"QuantAsylum", options[d].model, options[d].serial.text}

\* Everything a host is told in one connection is told by one persona of the unit
\* it attached: the reply to the import, the device and configuration
\* descriptors and the strings agree, though the unit may reboot meanwhile.
OnePersona ==
    \A h \in Enumerating :
        /\ \A d \in Held(h, "device") : d.vid = host[h].summary.vid /\ d.pid = host[h].summary.pid
        /\ \A c \in Held(h, "config") : c.ifaces = host[h].summary.ifaces
        /\ \A s \in Held(h, "string") \ {Languages} :
               s.text \in Texts(host[h].dev, host[h].summary.ifaces)

\* A host that follows what descriptors announce is never refused and never gets
\* a part where it asked for the whole: lengths, string indices, the HID report
\* descriptor and the chain from the BOS to the set that binds WinUSB hold
\* together.  A string of more than 126 units is excepted, whose length byte
\* wraps.
Enumerated ==
    \A h \in Enumerating : \A i \in DOMAIN host[h].asked :
        LET setup  == host[h].asked[i]
            answer == host[h].answers[i]
        IN  /\ answer.ok
            /\ setup.length \notin {5, 9, 255} => answer.n = setup.length /\ answer.n = answer.of.len
            /\ setup.type = "string" =>
                 answer.of.bLength = answer.n \/ options[host[h].dev].serial.units > 126
=============================================================================
