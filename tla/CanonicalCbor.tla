----------------------------- MODULE CanonicalCbor -----------------------------
(***************************************************************************)
(* The browser's encoder, browser/src/cbor-canonical.js.  The worker       *)
(* encodes a bundle it has decoded once more, and checks the validators'   *)
(* signatures against those bytes: they must be the ones that              *)
(* cbor2.dumps(..., canonical=True) produced where it was signed.          *)
(*                                                                         *)
(* A number is the sequence of its eight bytes, the most significant one   *)
(* first; a string or a Uint8Array is its bytes; an object is the sequence *)
(* of its entries as Object.entries lists them, a key being its bytes.     *)
(***************************************************************************)
EXTENDS Naturals, SequencesExt

Digits == 8
Number(n) == <<0, 0, 0, 0, n \div 16777216, (n \div 65536) % 256, (n \div 256) % 256, n % 256>>

Simple(k)   == [kind |-> k, content |-> <<>>]
Uint(d)     == [kind |-> "uint", content |-> d]
Text(s)     == [kind |-> "tstr", content |-> s]
Bytes(s)    == [kind |-> "bstr", content |-> s]
Array(s)    == [kind |-> "array", content |-> s]
Object(s)   == [kind |-> "map", content |-> s]
Entry(k, v) == [key |-> k, item |-> v]

Major(kind) == CASE kind = "uint"  -> 0
                 [] kind = "bstr"  -> 2
                 [] kind = "tstr"  -> 3
                 [] kind = "array" -> 4
                 [] kind = "map"   -> 5

--------------------------------------------------------------------------------
\* Whether n bytes hold the number.
Fits(d, n) == \A i \in 1 .. Digits - n : d[i] = 0

\* Math.floor(value / 0x100000000) and value >>> 0.
High(d) == <<0, 0, 0, 0, d[1], d[2], d[3], d[4]>>
Low(d)  == <<0, 0, 0, 0, d[5], d[6], d[7], d[8]>>

\* (value >> n) & 0xff, for whole bytes: JavaScript shifts the lower 32 bits of a
\* number, by n modulo 32; their sign does not come as far as the lowest byte.
ShiftedByte(d, n) == Low(d)[Digits - (n % 32) \div 8]
Shifted(d, shifts) == [i \in DOMAIN shifts |-> ShiftedByte(d, shifts[i])]

\* Mutant of WriteHead: a number of eight bytes is shifted as a whole, where a shift
\* by 32 is one by 0.
WriteHeadUnsplit(major, d) ==
    LET base == 32 * major IN
    CASE Fits(d, 1) /\ d[Digits] <= 23 -> <<base + d[Digits]>>
      [] Fits(d, 1) /\ d[Digits] > 23  -> <<base + 24, d[Digits]>>
      [] Fits(d, 2) /\ ~Fits(d, 1)     -> <<base + 25>> \o Shifted(d, <<8, 0>>)
      [] Fits(d, 4) /\ ~Fits(d, 2)     -> <<base + 26>> \o Shifted(d, <<24, 16, 8, 0>>)
      [] ~Fits(d, 4) ->
            <<base + 27>> \o Shifted(d, <<56, 48, 40, 32, 24, 16, 8, 0>>)

\* writeHead: a number of at most 23 is in the first byte, a larger one follows in
\* 1, 2, 4 or 8 bytes, the eight being those of its two halves.
WriteHead(major, d) ==
    LET base == 32 * major IN
    CASE Fits(d, 1) /\ d[Digits] <= 23 -> <<base + d[Digits]>>
      [] Fits(d, 1) /\ d[Digits] > 23  -> <<base + 24, d[Digits]>>
      [] Fits(d, 2) /\ ~Fits(d, 1)     -> <<base + 25>> \o Shifted(d, <<8, 0>>)
      [] Fits(d, 4) /\ ~Fits(d, 2)     -> <<base + 26>> \o Shifted(d, <<24, 16, 8, 0>>)
      [] ~Fits(d, 4) ->
            <<base + 27>> \o Shifted(High(d), <<24, 16, 8, 0>>)
                         \o Shifted(Low(d), <<24, 16, 8, 0>>)

WriteString(kind, s) == WriteHead(Major(kind), Number(Len(s))) \o s
EncodedKey(k) == WriteString("tstr", k)

\* Mutant of Before: the subtraction of the lengths is the wrong way round.
BeforeLongerFirst(a, b) ==
    \/ Len(a) > Len(b)
    \/ /\ Len(a) = Len(b)
       /\ \E i \in DOMAIN a : a[i] < b[i] /\ \A j \in 1 .. i - 1 : a[j] = b[j]

\* The comparison of encoded keys: shorter first, then by their bytes.
Before(a, b) ==
    \/ Len(a) < Len(b)
    \/ /\ Len(a) = Len(b)
       /\ \E i \in DOMAIN a : a[i] < b[i] /\ \A j \in 1 .. i - 1 : a[j] = b[j]

\* Mutant of Sorted: the entries are taken as the decoder listed them.
AsTheyCome(entries) == entries

\* The keys of an object differ, so that each entry comes after as many as are
\* before it.
KeyRank(entries, i) ==
    Cardinality({j \in DOMAIN entries :
                    Before(EncodedKey(entries[j].key), EncodedKey(entries[i].key))})
Sorted(entries) ==
    [k \in DOMAIN entries |->
        entries[CHOOSE i \in DOMAIN entries : KeyRank(entries, i) = k - 1]]

\* encodeItem, with the codes of an item's parts; what it throws on is no item.
EncodeItem(code, x) ==
    CASE x.kind = "null"  -> <<246>>
      [] x.kind = "true"  -> <<245>>
      [] x.kind = "false" -> <<244>>
      [] x.kind = "uint"  -> WriteHead(Major("uint"), x.content)
      [] x.kind \in {"tstr", "bstr"} -> WriteString(x.kind, x.content)
      [] x.kind = "array" ->
            WriteHead(Major("array"), Number(Len(x.content)))
            \o FlattenSeq([i \in DOMAIN x.content |-> code[x.content[i]]])
      [] x.kind = "map" ->
            LET entries == Sorted(x.content)
            IN  WriteHead(Major("map"), Number(Len(entries)))
                \o FlattenSeq([i \in DOMAIN entries |->
                                  EncodedKey(entries[i].key) \o code[entries[i].item]])

\* The same over a set of items that holds the parts of each.
Encoding(S) == LET code[x \in S] == EncodeItem(code, x) IN code
================================================================================
