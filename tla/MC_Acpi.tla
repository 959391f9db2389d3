------------------------------ MODULE MC_Acpi ------------------------------
(***************************************************************************)
(* Acpi for firmwares of every revision that matters, with tables that are *)
(* damaged, listed twice or above the addresses an element of the RSDT can *)
(* hold, and MADTs with entries of two types in several orders.            *)
(***************************************************************************)
EXTENDS Acpi, TLC

Apic == 65
Fadt == 70
Hpet == 72

\* A table with its checksum right, and one with it wrong.
WithSum(sig, body, extra) ==
  LET sum == sig + HeaderBytes + Len(body) + MapThenSumSet(LAMBDA i : body[i], DOMAIN body)
  IN  <<sig, HeaderBytes + Len(body), (512 - sum + extra) % 256>> \o body
Table(sig, body) == WithSum(sig, body, 0)
Damaged(sig, body) == WithSum(sig, body, 1)

\* Entries of the MADT: a local APIC, an I/O APIC, an override.
Local == <<0, 3, 9>>
Io == <<1, 4, 8, 8>>
Override == <<2, 2>>
Fields == <<7, 7>>
SomeMadt == Fields \o Local \o Local \o Io
OtherMadt == Fields \o Io \o Local \o Override \o Io
Bare == Fields

MCFirmwares ==
  { [revision |-> rev, rsdt |-> <<3, 5, 6>>, xsdt |-> <<3, 5, 6>>,
     table |-> (3 :> Table(Fadt, <<1>>) @@ 5 :> Table(Apic, body) @@ 6 :> Table(Hpet, <<200, 100>>))]
    : rev \in 0 .. 2, body \in {SomeMadt, OtherMadt, Bare} }
  \cup
  { [revision |-> rev, rsdt |-> <<5, 3, 6>>, xsdt |-> <<5, 6, 3, 17>>,
     table |-> (3 :> Table(Apic, SomeMadt) @@ 5 :> Damaged(Fadt, <<2, 2>>)
                @@ 6 :> Damaged(Apic, Bare) @@ 17 :> Table(Hpet, <<4>>))]
    : rev \in 0 .. 2 }
  \cup
  { [revision |-> rev, rsdt |-> list, xsdt |-> list,
     table |-> (3 :> Damaged(Apic, SomeMadt) @@ 5 :> Table(Apic, Bare))]
    : rev \in {1, 2}, list \in {<<>>, <<3, 5>>, <<5, 3>>} }

\* For MC_Acpi_halves.cfg: at the lower half of an address that the XSDT lists
\* there is a table that it does not list.
StrayHalf ==
  { [revision |-> 2, rsdt |-> <<>>, xsdt |-> <<3 + Word, 5>>,
     table |-> (3 :> Table(Hpet, <<4>>) @@ 5 :> Table(Apic, Bare)
                @@ (3 + Word) :> Table(Fadt, <<1>>))] }

MCSignatures == {Apic, Fadt, Hpet}
=============================================================================
