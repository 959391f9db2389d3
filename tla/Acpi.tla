-------------------------------- MODULE Acpi --------------------------------
(***************************************************************************)
(* The ACPI tables of the firmware as acpi/acpi.c reads them: the root     *)
(* table is chosen by the revision, acpi_query finds a table by its        *)
(* signature, and acpi_read_madt gives the entries of one type of the MADT *)
(* to a callback.                                                          *)
(*                                                                         *)
(* A table is a sequence of bytes that begins with its signature (one      *)
(* byte here), its length and its checksum; an address is 0 for NULL.      *)
(* The walk goes from callback to callback.                                *)
(***************************************************************************)
EXTENDS Integers, Sequences, SequencesExt, FiniteSetsExt

CONSTANTS
  Firmwares,   \* what the firmware may provide
  Signatures,  \* what acpi_query may be asked for
  APIC,        \* the signature of the MADT
  Types,       \* the types of entries acpi_read_madt may be asked for
  Word         \* 2^32: an element of acpi_root_sdt.tables is less

\* Offsets of the fields of a header, and the lengths of the headers.
Signature == 1
Length == 2
HeaderBytes == 3
MadtBytes == HeaderBytes + 2

Byte == 0 .. 255

\* Where the entries of a MADT begin, by their lengths, and where the last one
\* ends.
Positions(t) ==
  LET at[n \in 0 .. Len(t)] ==
        IF n = 0 THEN MadtBytes
        ELSE LET p == at[n - 1] IN IF p + 2 > Len(t) THEN p ELSE p + t[p + 2]
  IN  {at[n] : n \in 0 .. Len(t)}

\* A firmware has a revision, root tables that list addresses, and tables at
\* addresses.  No signature is blank.
ASSUME AcpiAssumption ==
  /\ APIC \in Signatures /\ 0 \notin Signatures
  /\ Word \in Nat \ {0}
  /\ \A fw \in Firmwares :
       /\ fw.revision \in Nat
       /\ fw.rsdt \in Seq(0 .. Word - 1) /\ fw.xsdt \in Seq(Nat)
       /\ \A a \in DOMAIN fw.table : /\ a # 0
                                     /\ fw.table[a] \in Seq(Byte)
                                     /\ Len(fw.table[a]) >= HeaderBytes
                                     /\ fw.table[a][Length] = Len(fw.table[a])

\* In a MADT the lengths of the entries, none of them 0, add up to its own.
ASSUME MadtAssumption ==
  \A fw \in Firmwares : \A a \in DOMAIN fw.table :
    LET t == fw.table[a]
    IN  t[Signature] = APIC => \A p \in Positions(t) : p = Len(t) \/ (p + 2 <= Len(t) /\ t[p + 2] # 0)

VARIABLES
  firmware,
  vars_ok,   \* whether the boot protocol can tell where the RSDP is, and it is there
  revision,  \* rsdp->revision
  root,      \* which root table sdt is, "none" at first
  pc,
  asked,     \* the signature or the type of the last call
  result,    \* what the last call returned
  madt,      \* the static variable of acpi_read_madt
  cur,       \* the position of its walk in the MADT
  retval,    \* its local variable
  visited    \* the positions given to the callback

vars == <<firmware, vars_ok, revision, root, pc, asked, result, madt, cur, retval, visited>>
walk == <<madt, cur, retval, visited>>
-----------------------------------------------------------------------------
\* acpi_root_sdt.tables: words of 32 bits, whichever the root table is.
Halves(addresses) == [i \in 1 .. 2 * Len(addresses) |->
                        LET a == addresses[(i + 1) \div 2]
                        IN  IF i % 2 = 1 THEN a % Word ELSE a \div Word]
Tables == IF root = "xsdt" THEN Halves(firmware.xsdt) ELSE firmware.rsdt

sdt_entries == IF root = "xsdt" THEN Len(Tables) \div 2 ELSE Len(Tables)

\* What is at an address: where there is no table, no signature either.
At(a) == IF a \in DOMAIN firmware.table THEN firmware.table[a] ELSE <<0, 0, 0>>

\* Mutant: the sum is not cut to a byte's width.
FullSum(hdr) ==
  LET csum[i \in 0 .. hdr[Length]] == IF i = 0 THEN 0 ELSE csum[i - 1] + hdr[i]
  IN  csum[hdr[Length]] = 0

\* The sum is a uint8_t.
acpi_checksum(hdr) ==
  LET csum[i \in 0 .. hdr[Length]] == IF i = 0 THEN 0 ELSE (csum[i - 1] + hdr[i]) % 256
  IN  csum[hdr[Length]] = 0

acpi_query(s) ==
  LET hits == {i \in 1 .. sdt_entries : At(Tables[i])[Signature] = s}
      hdr == Tables[Min(hits)]
  IN  IF hits # {} /\ acpi_checksum(At(hdr)) THEN hdr ELSE 0
-----------------------------------------------------------------------------
Init == /\ firmware \in Firmwares /\ vars_ok \in BOOLEAN
        /\ revision = firmware.revision
        /\ root = "none"
        /\ pc = "boot"
        /\ asked = 0 /\ result = 0
        /\ madt = 0 /\ cur = 0 /\ retval = 0 /\ visited = <<>>

Panic == /\ pc' = "panic"
         /\ UNCHANGED <<firmware, vars_ok, revision, root, asked, result, walk>>

\* Mutant: revision 0 stays.
AsFound == firmware.revision

Bumped == IF firmware.revision = 0 THEN 1 ELSE firmware.revision

acpi_init == /\ pc = "boot"
             /\ vars_ok
             /\ revision' = Bumped
             /\ root' = (IF revision' >= 2 THEN "xsdt" ELSE "rsdt")
             /\ pc' = "ready"
             /\ UNCHANGED <<firmware, vars_ok, asked, result, walk>>

InitPanics == pc = "boot" /\ ~vars_ok /\ Panic

Query(s) == /\ pc = "ready"
            /\ asked' = s
            /\ result' = acpi_query(s)
            /\ UNCHANGED <<firmware, vars_ok, revision, root, pc, walk>>

\* The MADT is looked for once.
Madt == IF madt = 0 THEN acpi_query(APIC) ELSE madt

\* retval is not initialised.
ReadMadt(type) == /\ pc = "ready"
                  /\ Madt # 0
                  /\ madt' = Madt
                  /\ cur' = MadtBytes
                  /\ retval' \in {-1, 0}
                  /\ visited' = <<>>
                  /\ asked' = type
                  /\ pc' = "walk"
                  /\ UNCHANGED <<firmware, vars_ok, revision, root, result>>

ReadMadtPanics == pc = "ready" /\ Madt = 0 /\ Panic

EntryType == At(madt)[cur + 1]

\* Mutant: entries of other types are not stepped over.
LengthIfAsked == IF EntryType = asked THEN At(madt)[cur + 2] ELSE 0

EntryLength == At(madt)[cur + 2]

\* Mutant: the walk goes on after the callback accepted an entry.
NeverReturns(value) == FALSE

Returns(value) == value >= 0

\* One turn of the loop: the callback may return anything.
Visit == /\ pc = "walk"
         /\ cur < At(madt)[Length]
         /\ IF EntryType = asked
              THEN retval' \in {-1, 0, 1} /\ visited' = Append(visited, cur)
              ELSE UNCHANGED <<retval, visited>>
         /\ IF Returns(retval')
              THEN pc' = "ready" /\ result' = retval' /\ UNCHANGED cur
              ELSE cur' = cur + EntryLength /\ UNCHANGED <<pc, result>>
         /\ UNCHANGED <<firmware, vars_ok, revision, root, asked, madt>>

EndOfMadt == /\ pc = "walk"
             /\ cur >= At(madt)[Length]
             /\ pc' = "ready"
             /\ result' = -1
             /\ UNCHANGED <<firmware, vars_ok, revision, root, asked, walk>>

Halted == pc = "panic" /\ UNCHANGED vars

Next == \/ acpi_init \/ InitPanics
        \/ \E s \in Signatures : Query(s)
        \/ \E type \in Types : ReadMadt(type)
        \/ ReadMadtPanics
        \/ Visit \/ EndOfMadt
        \/ Halted

Spec == Init /\ [][Next]_vars

\* The caller runs the walk, and the callback returns.
FairSpec == Spec /\ WF_vars(Visit \/ EndOfMadt)
-----------------------------------------------------------------------------
\* The addresses the root table lists.
Listed == IF root = "xsdt" THEN ToSet(firmware.xsdt) ELSE ToSet(firmware.rsdt)

\* All the bytes of a table together.
Total(t) == LET upto[i \in 0 .. Len(t)] == IF i = 0 THEN 0 ELSE upto[i - 1] + t[i]
            IN  upto[Len(t)]

Sound(a) == Total(At(a)) % 256 = 0

\* Every variable is of its type; the revision is never 0 once it has been
\* read.
TypeOK ==
  /\ revision \in (IF root = "none" THEN {firmware.revision} ELSE Nat \ {0})
  /\ root \in {"none", "rsdt", "xsdt"}
  /\ pc \in {"boot", "ready", "walk", "panic"}
  /\ asked \in {0} \cup Signatures \cup Types
  /\ result \in Int /\ madt \in {0} \cup DOMAIN firmware.table
  /\ cur \in Nat /\ retval \in {-1, 0, 1} /\ visited \in Seq(Nat)

\* acpi_query returns NULL or a table of the firmware that the root table
\* lists, with the signature asked for and bytes that add up to 0; and with
\* the RSDT it returns NULL only if none is sound but those that come after
\* another one of their signature.
QueryRight ==
  [][\A s \in Signatures : Query(s) =>
       IF result' # 0
         THEN result' \in Listed /\ At(result')[Signature] = s /\ Sound(result')
         ELSE root = "rsdt" =>
                LET rsdt == firmware.rsdt
                IN  \A i \in DOMAIN rsdt :
                      At(rsdt[i])[Signature] = s /\ Sound(rsdt[i]) =>
                        \E j \in 1 .. i - 1 : At(rsdt[j])[Signature] = s]_vars

\* The MADT that is kept is a sound one of the firmware.
MadtKept == madt # 0 => At(madt)[Signature] = APIC /\ Sound(madt)

\* What the callback has seen are the entries of the type asked for that the
\* walk has passed, all of them, each once and in their order; and it has
\* accepted none of them.
CallbackSees ==
  pc = "walk" =>
    /\ ToSet(visited) = {p \in Positions(At(madt)) : p < cur /\ At(madt)[p + 1] = asked}
    /\ \A i, j \in DOMAIN visited : i < j => visited[i] < visited[j]
    /\ visited # <<>> => retval = -1

\* acpi_read_madt walks a sound MADT, entry by entry, and gives the callback
\* those it asked for until it accepts one.
MadtVisits == MadtKept /\ CallbackSees

\* A walk of the MADT ends.
WalkEnds == pc = "walk" ~> pc = "ready"
=============================================================================
