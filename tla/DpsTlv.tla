------------------------------- MODULE DpsTlv -------------------------------
(***************************************************************************)
(* The type-length-value codec of the DPS client-server protocol           *)
(* (dps_pkt_process.c, kept once for the clients under common/ and once    *)
(* for the DCS under odcs/, and dps_pkt.h).                                *)
(*                                                                         *)
(* A packet is a sequence of 32-bit words: every field of the protocol is  *)
(* padded to whole words, so a length is counted in words here and in      *)
(* bytes, four times as many, in the code.  A TLV header is one word       *)
(* [ver, type, len]; an IPv4 address, a vnid or a version is one word; two *)
(* 16-bit fields side by side are one word, a pair; a MAC address with its *)
(* two bytes of padding is a sequence of two words and an IPv6 address a   *)
(* sequence of four.  Each field is put in network order once and taken    *)
(* out of it once, so a word stands for its value.                         *)
(*                                                                         *)
(* dps_set_x gives the words the C function writes.  dps_get_x(b, i) gives *)
(* [n, v]: the number of words the function says it consumed from index i  *)
(* on, and what it stored.                                                 *)
(***************************************************************************)
EXTENDS Integers, Sequences, SequencesExt

CONSTANTS
    Vnid,       \* virtual network identifiers
    Mac,        \* MAC addresses, sequences of two words
    Ip4,        \* IPv4 addresses, words
    Ip6,        \* IPv6 addresses, sequences of four words
    Zero,       \* the word of zeroed memory
    Garbage,    \* a word put together from part of another one
    MaxItems    \* a loop takes in at most this many items

AF_INET  == 2
AF_INET6 == 10
NoIp == [family |-> 0, port |-> 0, ip |-> Zero]

ip_addr_t ==
    {NoIp} \cup [family : {AF_INET}, port : {0}, ip : Ip4]
           \cup [family : {AF_INET6}, port : {0}, ip : Ip6]

dps_tunnel_endpoint_t ==
    [family : {AF_INET}, port : {4789}, vnid : Vnid, tunnel_type : {0}, flags : {1}, ip : Ip4]
    \cup
    [family : {AF_INET6}, port : {4789}, vnid : Vnid, tunnel_type : {1}, flags : {0}, ip : Ip6]

DPS_VMAC_TLV_LEN       == 3
DPS_IP4_TLV_LEN        == 2
DPS_IP6_TLV_LEN        == 5
DPS_EUID_TLV_LEN       == 4
DPS_SVCLOC4_TLV_LEN    == 3
DPS_SVCLOC6_TLV_LEN    == 6
DPS_POLICY_ID_TLV_LEN  == 4
DPS_ENDPOINT4_INFO_TLV_LEN == 6
DPS_ENDPOINT6_INFO_TLV_LEN == 9
DPS_IP4_TUNNEL_INFO_LEN == 4
DPS_IP6_TUNNEL_INFO_LEN == 7
MAX_VIP_ADDR == 16

(***************************************************************************)
(* Loops.  While runs a C loop, at most MaxItems times (the messages of an *)
(* instance have fewer TLVs, tunnels or rules side by side).  Parse is the *)
(* loop every decoder has: as long as the index has not reached the        *)
(* declared end, switch on the type of the TLV at the index; an unknown    *)
(* type leaves the loop with ok FALSE.                                     *)
(***************************************************************************)
While(Cond(_), Body(_), s) ==
    FoldLeft(LAMBDA t, k : IF Cond(t) THEN Body(t) ELSE t, s, [k \in 1..MaxItems |-> k])

Parse(Get(_, _, _), b, from, end, data) ==
    While(LAMBDA s : s.ok /\ s.i < end,
          LAMBDA s : LET r == Get(b, s.i, s.data)
                     IN  [i |-> s.i + r.n, data |-> r.data, ok |-> r.ok],
          [i |-> from, data |-> data, ok |-> TRUE])

Took(r, d, f) == [n |-> r.n, data |-> [d EXCEPT ![f] = r.v], ok |-> TRUE]
InvalidTlv(d) == [n |-> 0, data |-> d, ok |-> FALSE]

-----------------------------------------------------------------------------
(***************************************************************************)
(* Encoding.                                                               *)
(***************************************************************************)
dps_set_tlv_hdr(ver, type, len) == [ver |-> ver, type |-> type, len |-> len]

\* the header is written last, once the length of what follows it is known
Sized(ver, type, words) == <<dps_set_tlv_hdr(ver, type, Len(words))>> \o words

dps_set_ip4_tlv(ip) == <<dps_set_tlv_hdr(4, "IP_ADDR", DPS_IP4_TLV_LEN - 1), ip>>
dps_set_ip6_tlv(ip) == <<dps_set_tlv_hdr(6, "IP_ADDR", DPS_IP6_TLV_LEN - 1)>> \o ip
dps_set_vmac_tlv(mac) == <<dps_set_tlv_hdr(1, "VMAC", DPS_VMAC_TLV_LEN - 1)>> \o mac

\* an address of family 0 is sent as the IPv4 address 0
dps_set_ip_tlv(a) ==
    IF a.family = AF_INET6 THEN dps_set_ip6_tlv(a.ip) ELSE dps_set_ip4_tlv(a.ip)

dps_set_euid_tlv(e) ==
    <<dps_set_tlv_hdr(1, "EUID", DPS_EUID_TLV_LEN - 1), e.vnid>> \o e.mac

\* the transport type of the location is not written: 0, the buffer being zeroed
dps_set_svcloc_tlv(a) ==
    IF a.family = AF_INET6
      THEN <<dps_set_tlv_hdr(6, "SERVICE_LOC", DPS_SVCLOC6_TLV_LEN - 1), <<0, a.port>> >> \o a.ip
      ELSE <<dps_set_tlv_hdr(4, "SERVICE_LOC", DPS_SVCLOC4_TLV_LEN - 1), <<0, a.port>>, a.ip>>

dps_set_ipv4_tunnel_info(t) ==
    << <<4, t.port>>, <<t.tunnel_type, t.flags>>, t.vnid, t.ip>>
dps_set_ipv6_tunnel_info(t) ==
    << <<6, t.port>>, <<t.tunnel_type, t.flags>>, t.vnid>> \o t.ip

dps_set_tunnel_list_tlv(tunnels) ==
    IF tunnels = <<>> THEN <<>>
    ELSE Sized(1, "TUNNEL_LIST",
               FlattenSeq([k \in DOMAIN tunnels |->
                             IF tunnels[k].family = AF_INET
                               THEN dps_set_ipv4_tunnel_info(tunnels[k])
                               ELSE dps_set_ipv6_tunnel_info(tunnels[k])]))

dps_set_ipv4_list_tlv(list, num) ==
    <<dps_set_tlv_hdr(1, "IPV4_ADDR_LIST", num)>> \o SubSeq(list, 1, num)
dps_set_ipv6_list_tlv(list, num) ==
    <<dps_set_tlv_hdr(1, "IPV6_ADDR_LIST", 4 * num)>> \o SubSeq(list, 1, 4 * num)

dps_set_ip4_info_tlv(infos) ==
    <<dps_set_tlv_hdr(1, "IP4_INFO_LIST", 2 * Len(infos))>>
      \o FlattenSeq([k \in DOMAIN infos |-> <<infos[k].ip, <<infos[k].flags, 0>> >>])
dps_set_ip6_info_tlv(infos) ==
    <<dps_set_tlv_hdr(1, "IP6_INFO_LIST", 5 * Len(infos))>>
      \o FlattenSeq([k \in DOMAIN infos |-> Append(infos[k].ip, <<infos[k].flags, 0>>)])

dps_set_endpoint_info_tlv(e) ==
    IF e.vm_ip_addr.family = AF_INET6
      THEN <<dps_set_tlv_hdr(1, "ENDPOINT_INFO", DPS_ENDPOINT6_INFO_TLV_LEN - 1), e.euid.vnid>>
             \o e.euid.mac \o dps_set_ip6_tlv(e.vm_ip_addr.ip)
      ELSE <<dps_set_tlv_hdr(1, "ENDPOINT_INFO", DPS_ENDPOINT4_INFO_TLV_LEN - 1), e.euid.vnid>>
             \o e.euid.mac \o dps_set_ip4_tlv(e.vm_ip_addr.ip)

\* rules are pairs of vnids, the permit rules first; plcy.np and plcy.nd count them
RuleWords(rules) == FlattenSeq(rules)

dps_set_policy_id_tlv(plcy) ==
    <<dps_set_tlv_hdr(1, "POLICY_ID", DPS_POLICY_ID_TLV_LEN - 1),
      plcy.policy_id, plcy.version, plcy.ttl>>

dps_set_policy_type_tlv(plcy) ==
    Sized(1, "POLICY_TYPE",
          <<dps_set_tlv_hdr(plcy.pver, "CONNECTIVITY", plcy.np + plcy.nd)>>
          \o (IF plcy.np > 0 THEN << <<1, plcy.np>> >> ELSE <<>>)
          \o RuleWords(SubSeq(plcy.rules, 1, plcy.np))
          \o (IF plcy.nd > 0 THEN << <<0, plcy.nd>> >> ELSE <<>>)
          \o RuleWords(SubSeq(plcy.rules, plcy.np + 1, plcy.np + plcy.nd)))

dps_set_policy_tlv(plcy) ==
    Sized(1, "POLICY", dps_set_policy_id_tlv(plcy) \o dps_set_policy_type_tlv(plcy))

dps_set_endpoint_loc_reply_tlv(d) ==
    Sized(1, "ENDPOINT_LOC",
          <<d.version>> \o dps_set_euid_tlv(d.euid) \o dps_set_ip_tlv(d.vm_ip_addr)
          \o dps_set_tunnel_list_tlv(d.tunnels))

dps_set_policy_reply_tlv(d, resp_status) ==
    dps_set_endpoint_loc_reply_tlv(d.loc)
    \o (IF resp_status = "NO_ERR" THEN dps_set_policy_tlv(d.plcy) ELSE <<>>)

dps_set_endpoint_update_tlv(d) ==
    Sized(1, "ENDPOINT_LOC",
          <<d.version>> \o dps_set_euid_tlv(d.euid) \o dps_set_ip_tlv(d.vm_ip_addr)
          \o dps_set_tunnel_list_tlv(d.tunnels))

\* the IPv4 addresses are listed before the IPv6 ones
dps_set_endpoint_update_reply_tlv(d) ==
    LET vip4 == SelectSeq(d.vips, LAMBDA a : a.family = AF_INET)
        vip6 == SelectSeq(d.vips, LAMBDA a : a.family = AF_INET6)
    IN  Sized(1, "ENDPOINT_UPDATE_REPLY",
              <<d.version>> \o dps_set_euid_tlv(d.euid)
              \o (IF vip4 = <<>> THEN <<>>
                  ELSE dps_set_ipv4_list_tlv([k \in DOMAIN vip4 |-> vip4[k].ip], Len(vip4)))
              \o (IF vip6 = <<>> THEN <<>>
                  ELSE dps_set_ipv6_list_tlv(FlattenSeq([k \in DOMAIN vip6 |-> vip6[k].ip]),
                                             Len(vip6)))
              \o dps_set_tunnel_list_tlv(d.tunnels))

\* not a TLV: the two counts, then the rules
dps_set_bulk_policy_xfer(d) == << <<d.np, d.nd>> >> \o RuleWords(SubSeq(d.rules, 1, d.np + d.nd))

dps_set_mcast_addr_tlv(a) ==
    Sized(1, a.mcast_addr_type,
          dps_set_vmac_tlv(a.mac)
          \o (IF a.mcast_addr_type = "MCAST_ADDR_V6" THEN dps_set_ip6_tlv(a.ip)
                                                     ELSE dps_set_ip4_tlv(a.ip)))

dps_set_mcast_grp_rec_tlv(g) ==
    Sized(1, "MCAST_GRP_REC",
          dps_set_mcast_addr_tlv(g.mcast_addr)
          \o (IF g.num_of_srcs = 0 THEN <<>>
              ELSE IF g.family = AF_INET THEN dps_set_ipv4_list_tlv(g.src_addr, g.num_of_srcs)
              ELSE dps_set_ipv6_list_tlv(g.src_addr, g.num_of_srcs)))

\* a packed list holds n4 IPv4 addresses and after them n6 IPv6 addresses
PackedLists(d) ==
    (IF d.n4 = 0 THEN <<>> ELSE dps_set_ipv4_list_tlv(d.list, d.n4))
    \o
    (IF d.n6 = 0 THEN <<>>
     ELSE dps_set_ipv6_list_tlv(SubSeq(d.list, d.n4 + 1, Len(d.list)), d.n6))

dps_set_vnid_tunnel_list_tlv(d) == Sized(1, "VNID_TUNNEL_LIST", <<d.vnid>> \o PackedLists(d))

dps_set_epri_tlv(e) ==
    Sized(1, "EPRI",
          dps_set_euid_tlv(e.euid) \o dps_set_ip4_info_tlv(e.ip4s) \o dps_set_ip6_info_tlv(e.ip6s)
          \o dps_set_tunnel_list_tlv(e.tunnels))

-----------------------------------------------------------------------------
(***************************************************************************)
(* Decoding.                                                               *)
(***************************************************************************)
dps_get_vmac_tlv(b, i) == [n |-> DPS_VMAC_TLV_LEN, v |-> SubSeq(b, i + 1, i + 2)]
dps_get_euid_tlv(b, i) ==
    [n |-> DPS_EUID_TLV_LEN, v |-> [vnid |-> b[i + 1], mac |-> SubSeq(b, i + 2, i + 3)]]
dps_get_ip4_tlv(b, i) == [n |-> DPS_IP4_TLV_LEN, v |-> b[i + 1]]
dps_get_ip6_tlv(b, i) == [n |-> DPS_IP6_TLV_LEN, v |-> SubSeq(b, i + 1, i + 4)]

\* whatever is not version 4 is read as an IPv6 address
dps_get_ip_tlv(b, i) ==
    LET r == IF b[i].ver = 4 THEN dps_get_ip4_tlv(b, i) ELSE dps_get_ip6_tlv(b, i)
    IN  [n |-> r.n,
         v |-> [family |-> IF b[i].ver = 4 THEN AF_INET ELSE AF_INET6, port |-> 0, ip |-> r.v]]

\* Mutant of dps_get_svcloc_tlv: the family is set from the type, the port is not read
SvcLocNoPort(b, i) ==
    IF b[i].ver = 4
      THEN [n |-> DPS_SVCLOC4_TLV_LEN, v |-> [family |-> AF_INET, port |-> 0, ip |-> b[i + 2]]]
      ELSE [n |-> DPS_SVCLOC6_TLV_LEN,
            v |-> [family |-> AF_INET6, port |-> 0, ip |-> SubSeq(b, i + 2, i + 5)]]

dps_get_svcloc_tlv(b, i) ==
    IF b[i].ver = 4
      THEN [n |-> DPS_SVCLOC4_TLV_LEN,
            v |-> [family |-> AF_INET, port |-> b[i + 1][2], ip |-> b[i + 2]]]
      ELSE [n |-> DPS_SVCLOC6_TLV_LEN,
            v |-> [family |-> AF_INET6, port |-> b[i + 1][2], ip |-> SubSeq(b, i + 2, i + 5)]]

dps_get_ipv4_list_tlv(b, i) == [n |-> 1 + b[i].len, v |-> SubSeq(b, i + 1, i + b[i].len)]

\* four words at a time until the declared length is reached
dps_get_ipv6_list_tlv(b, i) ==
    LET words == 4 * ((b[i].len + 3) \div 4)
    IN  [n |-> 1 + words, v |-> SubSeq(b, i + 1, i + words)]

\* num_of_vip <= max_vip: one address more than the array holds is accepted
RoomFor(vips, num) == IF num <= MAX_VIP_ADDR + 1 - Len(vips)
                        THEN num ELSE MAX_VIP_ADDR + 1 - Len(vips)

dps_get_ipv4_list_to_ipaddr(b, i, vips) ==
    [n |-> 1 + b[i].len,
     v |-> vips \o [k \in 1..RoomFor(vips, b[i].len) |->
                      [family |-> AF_INET, port |-> 0, ip |-> b[i + k]]]]

\* the sixteen bytes are copied to the start of the ip_addr_t, whose address
\* begins two words later; then the family is set
dps_get_ipv6_list_to_ipaddr(b, i, vips) ==
    [n |-> 1 + b[i].len,
     v |-> vips \o [k \in 1..RoomFor(vips, b[i].len \div 4) |->
                      LET w == i + 4 * (k - 1)
                      IN  [family |-> AF_INET6, port |-> b[w + 1],
                           ip |-> <<b[w + 3], b[w + 4], Zero, Zero>>]]]

Tunnel(family, b, i, ip) ==
    [family |-> family, port |-> b[i][2], vnid |-> b[i + 2],
     tunnel_type |-> b[i + 1][1], flags |-> b[i + 1][2], ip |-> ip]

dps_get_ipv4_tunnel_info(b, i) ==
    [n |-> DPS_IP4_TUNNEL_INFO_LEN, v |-> Tunnel(AF_INET, b, i, b[i + 3])]
dps_get_ipv6_tunnel_info(b, i) ==
    [n |-> DPS_IP6_TUNNEL_INFO_LEN, v |-> Tunnel(AF_INET6, b, i, SubSeq(b, i + 3, i + 6))]

\* a tunnel of neither family ends the list: the rest of the TLV is skipped
dps_get_tunnel_list_tlv(b, i) ==
    LET Info(b1, j, v) ==
            IF b1[j][1] \notin {4, 6} THEN InvalidTlv(v)
            ELSE LET t == IF b1[j][1] = 4 THEN dps_get_ipv4_tunnel_info(b1, j)
                                          ELSE dps_get_ipv6_tunnel_info(b1, j)
                 IN  [n |-> t.n, data |-> Append(v, t.v), ok |-> TRUE]
        s == Parse(Info, b, i + 1, i + 1 + b[i].len, <<>>)
    IN  [n |-> IF s.ok THEN s.i - i ELSE 1 + b[i].len, v |-> s.data]

dps_get_ip4_info_list_tlv(b, i) ==
    LET num == (b[i].len + 1) \div 2
    IN  [n |-> 1 + 2 * num,
         v |-> [k \in 1..num |-> [ip |-> b[i + 2 * k - 1], flags |-> b[i + 2 * k][1]]]]
dps_get_ip6_info_list_tlv(b, i) ==
    LET num == (b[i].len + 4) \div 5
    IN  [n |-> 1 + 5 * num,
         v |-> [k \in 1..num |-> [ip |-> SubSeq(b, i + 5 * k - 4, i + 5 * k - 1),
                                  flags |-> b[i + 5 * k][1]]]]

\* the sub-TLVs an endpoint's location is made of
EndpointLocSub(b, i, d) ==
    CASE b[i].type = "EUID"        -> Took(dps_get_euid_tlv(b, i), d, "euid")
      [] b[i].type = "IP_ADDR"     -> Took(dps_get_ip_tlv(b, i), d, "vm_ip_addr")
      [] b[i].type = "TUNNEL_LIST" -> Took(dps_get_tunnel_list_tlv(b, i), d, "tunnels")
      [] OTHER                     -> InvalidTlv(d)

\* the version comes before the sub-TLVs; an unknown one ends the parse there
Versioned(Sub(_, _, _), b, i, d) ==
    LET s == Parse(Sub, b, i + 2, i + 1 + b[i].len, [d EXCEPT !.version = b[i + 1]])
    IN  [n |-> s.i - i, v |-> s.data]

dps_get_endpoint_loc_reply_tlv(b, i, d) == Versioned(EndpointLocSub, b, i, d)
dps_get_endpoint_update_tlv(b, i, d) == Versioned(EndpointLocSub, b, i, d)

dps_get_endpoint_update_reply_tlv(b, i, d) ==
    LET Sub(b1, j, d1) ==
          CASE b1[j].type = "EUID" -> Took(dps_get_euid_tlv(b1, j), d1, "euid")
            [] b1[j].type = "IPV4_ADDR_LIST" ->
                 Took(dps_get_ipv4_list_to_ipaddr(b1, j, d1.vips), d1, "vips")
            [] b1[j].type = "IPV6_ADDR_LIST" ->
                 Took(dps_get_ipv6_list_to_ipaddr(b1, j, d1.vips), d1, "vips")
            [] b1[j].type = "TUNNEL_LIST" -> Took(dps_get_tunnel_list_tlv(b1, j), d1, "tunnels")
            [] OTHER -> InvalidTlv(d1)
    IN  Versioned(Sub, b, i, d)

dps_get_endpoint_info_tlv(b, i) ==
    LET ip == dps_get_ip_tlv(b, i + 4)
    IN  [n |-> 4 + ip.n,
         v |-> [euid |-> [vnid |-> b[i + 1], mac |-> SubSeq(b, i + 2, i + 3)],
                vm_ip_addr |-> ip.v]]

\* the type is that of the TLV, unless the address inside it is an IPv6 one
dps_get_mcast_addr_tlv(b, i) ==
    LET mac == dps_get_vmac_tlv(b, i + 1)
        j   == i + 1 + mac.n
        ip  == IF b[j].ver = 4 THEN dps_get_ip4_tlv(b, j) ELSE dps_get_ip6_tlv(b, j)
        type == IF b[j].ver # 4 THEN "MCAST_ADDR_V6"
                ELSE IF b[i].type \in {"MCAST_ADDR_MAC", "MCAST_ADDR_V4"} THEN b[i].type
                ELSE "MCAST_ADDR_V4_ICB_RANGE"
    IN  [n |-> 1 + mac.n + ip.n, v |-> [mcast_addr_type |-> type, mac |-> mac.v, ip |-> ip.v]]

\* an unknown sub-TLV is not stepped over: the loop would stay on it for ever,
\* here it is left with the record as it is
dps_get_mcast_grp_rec_tlv(b, i, g) ==
    LET Srcs(r, family, size, b1, j, g1) ==
            [n |-> r.n, ok |-> TRUE,
             data |-> [g1 EXCEPT !.src_addr = r.v, !.num_of_srcs = b1[j].len \div size,
                                 !.family = family]]
        Sub(b1, j, g1) ==
          CASE b1[j].type \in {"MCAST_ADDR_MAC", "MCAST_ADDR_V4", "MCAST_ADDR_V6",
                               "MCAST_ADDR_V4_ICB_RANGE"} ->
                 Took(dps_get_mcast_addr_tlv(b1, j), g1, "mcast_addr")
            [] b1[j].type = "IPV4_ADDR_LIST" ->
                 Srcs(dps_get_ipv4_list_tlv(b1, j), AF_INET, 1, b1, j, g1)
            [] b1[j].type = "IPV6_ADDR_LIST" ->
                 Srcs(dps_get_ipv6_list_tlv(b1, j), AF_INET6, 4, b1, j, g1)
            [] OTHER -> InvalidTlv(g1)
        s == Parse(Sub, b, i + 1, i + 1 + b[i].len, g)
    IN  [n |-> s.i - i, v |-> s.data]

\* words written at the start of a list that may already hold some
Overlay(old, new) ==
    new \o (IF Len(old) > Len(new) THEN SubSeq(old, Len(new) + 1, Len(old)) ELSE <<>>)
\* the first num words of a list, the memory after it being zeroed
Padded(list, num) == [k \in 1..num |-> IF k \in DOMAIN list THEN list[k] ELSE Zero]

\* both lists are stored at the start of tunnel_list; the loop's bound leaves out
\* one word, which is never the first of a TLV
dps_get_vnid_tunnel_list_tlv(b, i) ==
    LET Sub(b1, j, d) ==
          CASE b1[j].type = "IPV4_ADDR_LIST" ->
                 LET r == dps_get_ipv4_list_tlv(b1, j)
                 IN  [n |-> r.n, ok |-> TRUE,
                      data |-> [d EXCEPT !.list = Overlay(@, r.v), !.n4 = b1[j].len]]
            [] b1[j].type = "IPV6_ADDR_LIST" ->
                 LET r == dps_get_ipv6_list_tlv(b1, j)
                 IN  [n |-> r.n, ok |-> TRUE,
                      data |-> [d EXCEPT !.list = Overlay(@, r.v), !.n6 = b1[j].len \div 4]]
            [] OTHER -> InvalidTlv(d)
        s == Parse(Sub, b, i + 2, i + b[i].len, [vnid |-> b[i + 1], n4 |-> 0, n6 |-> 0, list |-> <<>>])
    IN  [n |-> s.i - i, v |-> [s.data EXCEPT !.list = Padded(@, s.data.n4 + 4 * s.data.n6)]]

\* the one decoder that steps over a TLV it does not know
dps_get_epri_tlv(b, i, e) ==
    LET Sub(b1, j, e1) ==
          CASE b1[j].type = "EUID" -> Took(dps_get_euid_tlv(b1, j), e1, "euid")
            [] b1[j].type = "IP4_INFO_LIST" -> Took(dps_get_ip4_info_list_tlv(b1, j), e1, "ip4s")
            [] b1[j].type = "IP6_INFO_LIST" -> Took(dps_get_ip6_info_list_tlv(b1, j), e1, "ip6s")
            [] b1[j].type = "TUNNEL_LIST" -> Took(dps_get_tunnel_list_tlv(b1, j), e1, "tunnels")
            [] OTHER -> [n |-> 1 + b1[j].len, data |-> e1, ok |-> TRUE]
        s == Parse(Sub, b, i + 1, i + 1 + b[i].len, e)
    IN  [n |-> s.i - i, v |-> s.data]

dps_get_policy_id_tlv(b, i, p) ==
    [n |-> DPS_POLICY_ID_TLV_LEN,
     v |-> [p EXCEPT !.policy_id = b[i + 1], !.version = b[i + 2], !.ttl = b[i + 3]]]

\* groups of rules, <<action, number>> before each, until all have been read
dps_get_policy_type_tlv(b, i, p) ==
    LET total == b[i + 1].len
        Group(s) ==
            LET num == b[s.i][2]
            IN  [i |-> s.i + 1 + 2 * num,
                 p |-> [s.p EXCEPT ![IF b[s.i][1] = 1 THEN "np" ELSE "nd"] = num,
                                   !.rules = @ \o [k \in 1..num |-> <<b[s.i + 2 * k - 1],
                                                                      b[s.i + 2 * k]>>]]]
        s == While(LAMBDA t : Len(t.p.rules) < total, Group,
                   [i |-> i + 2, p |-> [p EXCEPT !.pver = b[i + 1].ver, !.rules = <<>>]])
    IN  [n |-> s.i - i, v |-> s.p]

dps_get_policy_tlv(b, i, p) ==
    LET id == dps_get_policy_id_tlv(b, i + 1, p)
        ty == dps_get_policy_type_tlv(b, i + 1 + id.n, id.v)
    IN  [n |-> 1 + id.n + ty.n, v |-> ty.v]

\* of a deny rule the second word, read as 16 bits, replaces the source vnid,
\* and the destination vnid is not stored
dps_get_bulk_policy_xfer(b, i) ==
    LET np == b[i][1]  nd == b[i][2]
        Word(k) == b[i + k]
    IN  [np |-> np, nd |-> nd,
         rules |-> [k \in 1..(np + nd) |->
                      IF k <= np THEN <<Word(2 * k - 1), Word(2 * k)>>
                                 ELSE <<Garbage, Zero>>]]
=============================================================================
