------------------------------- MODULE Access -------------------------------
(***************************************************************************)
(* The access list of the daemon (access.c, dcc_check_client() of          *)
(* srvnet.c), built with ENABLE_RFC2553.  A byte has ByteBits bits, an     *)
(* IPv4 address V4Bytes of them and an IPv6 address V6Bytes: 8, 4 and 16   *)
(* in the code.  An IPv4 address is one number, as the code compares it;   *)
(* an IPv6 address is a sequence of bytes.                                 *)
(***************************************************************************)
EXTENDS Integers, Sequences, SequencesExt, FiniteSets, Bitwise

CONSTANTS
  ByteBits, V4Bytes, V6Bytes,
  LittleEndian,   \* the byte order of the server's host
  Peers,          \* addresses of clients
  Specs,          \* arguments of --allow: family, address, bits (-1: no mask)
  MaxAllowed      \* bound: --allow options

ASSUME AccessAssumption == V6Bytes > V4Bytes /\ ByteBits > 0

VARIABLES allowed, given, peer, options_ret
accessVars == <<allowed, given, peer, options_ret>>

V4Bits == V4Bytes * ByteBits
V6Bits == V6Bytes * ByteBits
ByteOnes == 2 ^ ByteBits - 1
DENIED == "EXIT_ACCESS_DENIED"

(* the byte where the prefix ends is filled *)
SetMaskInet6_OneMore(bits) ==
  [i \in 1 .. V6Bytes |-> IF i - 1 <= bits \div ByteBits THEN ByteOnes ELSE 0]
(* set_mask_inet() *)
SetMaskInet(bits) == (2 ^ V4Bits - 1) - ((2 ^ V4Bits - 1) \div 2 ^ bits)
(* set_mask_inet6(): whole bytes, the byte where the prefix ends, zeros *)
SetMaskInet6(bits) ==
  [i \in 1 .. V6Bytes |->
     CASE i - 1 < bits \div ByteBits -> ByteOnes
       [] i - 1 = bits \div ByteBits -> ByteOnes - (ByteOnes \div 2 ^ (bits % ByteBits))
       [] OTHER -> 0]
(* set_allones() fills the larger of the two members. *)
AllOnes(family) == IF family = "inet" THEN 2 ^ V4Bits - 1 ELSE [i \in 1 .. V6Bytes |-> ByteOnes]

(* dcc_parse_mask(): the numeric address is parsed by getaddrinfo(); a prefix
   that fills the type is not made by a shift. *)
ParseMask(spec) ==
  LET max == IF spec.family = "inet" THEN V4Bits ELSE V6Bits IN
  IF spec.family \notin {"inet", "inet6"} \/ (spec.bits # -1 /\ (spec.bits < 0 \/ spec.bits > max))
    THEN [ret |-> "EXIT_BAD_ARGUMENTS"]
    ELSE [ret |-> "ok", family |-> spec.family, value |-> spec.value,
          mask |-> IF spec.bits \in {-1, max} THEN AllOnes(spec.family)
                   ELSE IF spec.family = "inet" THEN SetMaskInet(spec.bits) ELSE SetMaskInet6(spec.bits)]

(* check_address_inet() *)
CheckInet(client, value, mask) == IF (client & mask) = (value & mask) THEN "ok" ELSE DENIED
(* check_address_inet6(), compare_address_inet6() *)
CheckInet6(client, value, mask) ==
  IF \A i \in 1 .. V6Bytes : (client[i] & mask[i]) = (value[i] & mask[i]) THEN "ok" ELSE DENIED

(* IN6_IS_ADDR_V4MAPPED() and IN6_IS_ADDR_V4COMPAT(), as ones or zeros before
   the IPv4 address *)
IsV4InV6(a) ==
  \/ \A i \in 1 .. V6Bytes - V4Bytes : a[i] = ByteOnes
  \/ (\A i \in 1 .. V6Bytes - V4Bytes : a[i] = 0) /\ a[V6Bytes] > 1
(* inet_from_inet6(): a number in the byte order of the host, stored where one
   in network order is expected *)
InetFromInet6(a) ==
  LET low == SubSeq(a, V6Bytes - V4Bytes + 1, V6Bytes) IN
  FoldLeft(LAMBDA n, b : n * 2 ^ ByteBits + b, 0, IF LittleEndian THEN Reverse(low) ELSE low)

(* dcc_check_address() *)
CheckAddress(client, entry) ==
  CASE client.family = "inet" /\ entry.family = "inet" -> CheckInet(client.value, entry.value, entry.mask)
    [] client.family = "inet6" /\ entry.family = "inet6" -> CheckInet6(client.value, entry.value, entry.mask)
    [] client.family = "inet6" /\ entry.family = "inet" /\ IsV4InV6(client.value) ->
         CheckInet(InetFromInet6(client.value), entry.value, entry.mask)
    [] OTHER -> DENIED

(* dcc_check_client(): a pipe has no address; no list allows everyone; else the
   first entry that does not deny *)
CheckClient(client, list) ==
  IF client.family = "none" \/ list = <<>> THEN "ok"
  ELSE IF \E i \in DOMAIN list : CheckAddress(client, list[i]) # DENIED THEN "ok" ELSE DENIED

(***************************************************************************)
(* distccd_parse_options() reads one --allow after the other, and exits at *)
(* one it cannot parse; then a client connects.                            *)
(***************************************************************************)
AccessInit == allowed = <<>> /\ given = <<>> /\ peer \in Peers /\ options_ret = "ok"
AllowOption ==
  /\ options_ret = "ok" /\ Len(given) < MaxAllowed
  /\ \E spec \in Specs :
       LET entry == ParseMask(spec) IN
       /\ given' = Append(given, spec)
       /\ allowed' = <<entry>> \o allowed
       /\ options_ret' = entry.ret
  /\ UNCHANGED peer
AccessNext == AllowOption

(* What the daemon admits is what its options say: a client whose address has
   one of the given prefixes, whichever bit the prefix ends at and in whatever
   order the options came; anyone when there is none.  An IPv4 address inside
   an IPv6 one is left out: it is compared in the byte order of the host. *)
Number(family, value) ==
  IF family = "inet" THEN value ELSE FoldLeft(LAMBDA n, b : n * 2 ^ ByteBits + b, 0, value)
HasPrefix(client, spec) ==
  LET size == IF spec.family = "inet" THEN V4Bits ELSE V6Bits
      bits == IF spec.bits = -1 THEN size ELSE spec.bits
  IN /\ client.family = spec.family
     /\ Number(client.family, client.value) \div 2 ^ (size - bits)
          = Number(spec.family, spec.value) \div 2 ^ (size - bits)
AdmittedByPrefix ==
  options_ret = "ok" /\ ~(peer.family = "inet6" /\ IsV4InV6(peer.value)) =>
    (CheckClient(peer, allowed) = "ok"
       <=> \/ peer.family = "none" \/ given = <<>>
           \/ \E i \in DOMAIN given : HasPrefix(peer, given[i]))
=============================================================================
