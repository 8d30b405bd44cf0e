------------------------------- MODULE DpsWire ------------------------------
(***************************************************************************)
(* The messages of the DPS client-server protocol: what each kind of       *)
(* message carries (dps_client_common.h), how it is sent                   *)
(* (dps_protocol_client_send and the dps_send functions) and what the      *)
(* other end hands to its protocol client (dps_process_rcvd_pkt and the    *)
(* dps_process functions), including the acknowledgement an unsolicited    *)
(* message gets and the reply that is made up when a request is given up.  *)
(*                                                                         *)
(* A message travels alone here: sent, then received by the other end or,  *)
(* if it is a request, given up.  The functions that send a request or     *)
(* take in a reply are those of the clients' copy of the file (common/),   *)
(* the functions that take in a request or send a reply those of the       *)
(* server's copy (odcs/).                                                  *)
(***************************************************************************)
EXTENDS DpsTlv, FiniteSets

CONSTANTS
    MaxTunnels,     \* tunnels of an endpoint, at most
    MaxRules,       \* policy rules of a bulk transfer, at most
    Sender,         \* address a packet is received from, an ip_addr_t
    ClientLoc,      \* service location a message may carry besides, an ip_addr_t
    Qid             \* a query id other than 0

VARIABLES
    sent,       \* the message handed to dps_protocol_client_send
    pkt,        \* the packet on its way
    got,        \* what the peer's protocol client was handed
    ack,        \* the acknowledgement the peer sent
    stopped     \* query id whose retransmission the peer stopped

vars == <<sent, pkt, got, ack, stopped>>

None == [type |-> "NONE"]

(***************************************************************************)
(* The kinds of messages, by the function that sends them.                 *)
(***************************************************************************)
GenMsgReqs == {"INTERNAL_GW_REQ", "BCAST_LIST_REQ", "EXTERNAL_GW_LIST_REQ", "VLAN_GW_LIST_REQ",
               "VNID_POLICY_LIST_REQ", "MCAST_CTRL_GW_REQ", "UNSOLICITED_VNID_DEL_REQ",
               "CTRL_PLANE_HB"}
GwLists == {"UNSOLICITED_EXTERNAL_GW_LIST", "UNSOLICITED_VLAN_GW_LIST",
            "EXTERNAL_GW_LIST_REPLY", "VLAN_GW_LIST_REPLY", "MCAST_CTRL_GW_REPLY"}
EndpointLocReplies == {"ENDPOINT_LOC_REPLY", "UNSOLICITED_ENDPOINT_LOC_REPLY"}
PackedReplies == {"INTERNAL_GW_REPLY", "UNSOLICITED_INTERNAL_GW_REPLY",
                  "BCAST_LIST_REPLY", "UNSOLICITED_BCAST_LIST_REPLY"}
BulkPolicies == {"UNSOLICITED_VNID_POLICY_LIST", "VNID_POLICY_LIST_REPLY"}
TunnelRegs == {"TUNNEL_REGISTER", "TUNNEL_DEREGISTER"}
McastSenders == {"MCAST_SENDER_REGISTRATION", "MCAST_SENDER_DEREGISTRATION"}
McastReceivers == {"MCAST_RECEIVER_JOIN", "MCAST_RECEIVER_LEAVE"}
Acks == {"GENERAL_ACK", "REG_DEREGISTER_ACK"}

\* what a client asks and the server answers
ClientRequests == {"ENDPOINT_LOC_REQ", "POLICY_REQ", "ENDPOINT_UPDATE", "VM_MIGRATION_EVENT"}
                  \cup (GenMsgReqs \ {"UNSOLICITED_VNID_DEL_REQ", "CTRL_PLANE_HB"})
                  \cup TunnelRegs \cup McastSenders \cup McastReceivers

\* what the server sends on its own
Unsolicited == {"UNSOLICITED_ENDPOINT_LOC_REPLY", "UNSOLICITED_INTERNAL_GW_REPLY",
                "UNSOLICITED_BCAST_LIST_REPLY", "UNSOLICITED_VNID_POLICY_LIST",
                "UNSOLICITED_EXTERNAL_GW_LIST", "UNSOLICITED_VLAN_GW_LIST", "CTRL_PLANE_HB",
                "UNSOLICITED_VNID_DEL_REQ", "MCAST_RECEIVER_DS_LIST", "ADDR_RESOLVE",
                "UNSOLICITED_INVALIDATE_VM"}

(***************************************************************************)
(* What the messages carry.                                                *)
(***************************************************************************)
UpTo(S, n) == UNION {[1..k -> S] : k \in 0..n}
Euid == [vnid : Vnid, mac : Mac]
Version == {Zero}
ClientAddr == {NoIp, ClientLoc}

dps_endpoint_loc_req_t == [euid : Euid, vm_ip_addr : ip_addr_t, dps_client_addr : ClientAddr]
dps_endpoint_loc_reply_t ==
    [euid : Euid, version : Version, vm_ip_addr : ip_addr_t,
     tunnels : UpTo(dps_tunnel_endpoint_t, MaxTunnels)]
dps_endpoint_update_t ==
    [euid : Euid, version : Version, vm_ip_addr : ip_addr_t, dps_client_addr : ClientAddr,
     tunnels : UpTo(dps_tunnel_endpoint_t, MaxTunnels)]
dps_endpoint_update_reply_t ==
    [euid : Euid, version : Version, vips : UpTo(ip_addr_t \ {NoIp}, 2),
     tunnels : UpTo(dps_tunnel_endpoint_t, 1)]
dps_endpoint_info_t == [euid : Euid, vm_ip_addr : ip_addr_t]
dps_policy_req_t == [endpoints : [1..2 -> dps_endpoint_info_t], dps_client_addr : ClientAddr]

PolicyRules(n, d) == {[np |-> n, nd |-> d, rules |-> r] : r \in [1..(n + d) -> Vnid \X Vnid]}
\* src_dst_vnid has one element: a policy reply carries at most one rule
dps_policy_info_t ==
    {[policy_id |-> Zero, version |-> Zero, ttl |-> Zero, pver |-> 1,
      np |-> r.np, nd |-> r.nd, rules |-> r.rules] :
        r \in PolicyRules(0, 0) \cup PolicyRules(1, 0) \cup PolicyRules(0, 1)}
dps_policy_reply_t == [loc : dps_endpoint_loc_reply_t, plcy : dps_policy_info_t]
dps_bulk_vnid_policy_t == UNION {PolicyRules(n, d) : n \in 0..MaxRules, d \in 0..MaxRules}

dps_gen_msg_req_t == [dps_client_addr : ClientAddr]
dps_tunnel_list_t == [tunnels : UpTo(dps_tunnel_endpoint_t, MaxTunnels)]
dps_tunnel_reg_dereg_t ==
    [tunnels : UpTo(dps_tunnel_endpoint_t, MaxTunnels), dps_client_addr : ClientAddr]
dps_vm_migration_event_t == [info : dps_endpoint_info_t, loc : dps_endpoint_loc_reply_t]

\* the IPv4 addresses, then the IPv6 addresses, in one array of words
Packed(vnid, v4, v6) ==
    [vnid |-> vnid, n4 |-> Len(v4), n6 |-> Len(v6), list |-> v4 \o FlattenSeq(v6)]
dps_pkd_tunnel_list_t ==
    {Packed(v, v4, v6) : v \in Vnid, v4 \in UpTo(Ip4, 2), v6 \in UpTo(Ip6, 1)}

dps_mcast_addr_t ==
    [mcast_addr_type : {"MCAST_ADDR_MAC", "MCAST_ADDR_V4", "MCAST_ADDR_V4_ICB_RANGE"},
     mac : Mac, ip : Ip4]
    \cup [mcast_addr_type : {"MCAST_ADDR_V6"}, mac : Mac, ip : Ip6]
dps_mcast_group_record_t ==
    {[mcast_addr |-> a, num_of_srcs |-> 0, family |-> 0, src_addr |-> <<>>] :
        a \in dps_mcast_addr_t}
    \cup {[mcast_addr |-> a, num_of_srcs |-> 1, family |-> AF_INET, src_addr |-> <<s>>] :
        a \in dps_mcast_addr_t, s \in Ip4}
    \cup {[mcast_addr |-> a, num_of_srcs |-> 1, family |-> AF_INET6, src_addr |-> s] :
        a \in dps_mcast_addr_t, s \in Ip6}
dps_mcast_sender_t ==
    [tunnel_endpoint : ip_addr_t, src_vm : dps_endpoint_info_t, mcast_addr : dps_mcast_addr_t,
     dps_client_addr : ClientAddr]
dps_mcast_receiver_t ==
    [tunnel_endpoint : ip_addr_t, grp : dps_mcast_group_record_t, dps_client_addr : ClientAddr]
dps_mcast_receiver_ds_list_t ==
    [mcast_addr : dps_mcast_addr_t, recs : UpTo(dps_pkd_tunnel_list_t, 2)]

Info(ips) == UpTo([ip : ips, flags : {1}], 2)
dps_epri_t == [euid : Euid, ip4s : Info(Ip4), ip6s : Info(Ip6),
               tunnels : UpTo(dps_tunnel_endpoint_t, 1)]

Bodies(type) ==
    CASE type \in {"ENDPOINT_LOC_REQ", "ADDR_RESOLVE"} -> dps_endpoint_loc_req_t
      [] type \in EndpointLocReplies      -> dps_endpoint_loc_reply_t
      [] type = "ENDPOINT_UPDATE"         -> dps_endpoint_update_t
      [] type = "ENDPOINT_UPDATE_REPLY"   -> dps_endpoint_update_reply_t
      [] type = "POLICY_REQ"              -> dps_policy_req_t
      [] type = "POLICY_REPLY"            -> dps_policy_reply_t
      [] type \in GenMsgReqs              -> dps_gen_msg_req_t
      [] type \in GwLists                 -> dps_tunnel_list_t
      [] type \in TunnelRegs              -> dps_tunnel_reg_dereg_t
      [] type = "VM_MIGRATION_EVENT"      -> dps_vm_migration_event_t
      [] type \in PackedReplies           -> dps_pkd_tunnel_list_t
      [] type \in BulkPolicies            -> dps_bulk_vnid_policy_t
      [] type \in McastSenders            -> dps_mcast_sender_t
      [] type \in McastReceivers          -> dps_mcast_receiver_t
      [] type = "MCAST_RECEIVER_DS_LIST"  -> dps_mcast_receiver_ds_list_t
      [] type = "UNSOLICITED_INVALIDATE_VM" -> dps_epri_t
      [] type \in Acks                    -> {<<>>}

Types == {"ADDR_RESOLVE", "ENDPOINT_LOC_REQ", "ENDPOINT_UPDATE", "ENDPOINT_UPDATE_REPLY",
          "POLICY_REQ", "POLICY_REPLY", "VM_MIGRATION_EVENT", "MCAST_RECEIVER_DS_LIST",
          "UNSOLICITED_INVALIDATE_VM"}
         \cup EndpointLocReplies \cup GenMsgReqs \cup GwLists \cup TunnelRegs \cup PackedReplies
         \cup BulkPolicies \cup McastSenders \cup McastReceivers \cup Acks
IsReply(type) == type \notin ClientRequests \cup Unsolicited

-----------------------------------------------------------------------------
(***************************************************************************)
(* Lengths, computed before the packet is written (calc_pkt_len).          *)
(***************************************************************************)
DPS_PKT_HDR_LEN == 5
DPS_PKT_HDR_TLV_LEN == 1

dps_calc_vip_tlv_len(vips) ==
    LET num(f) == Len(SelectSeq(vips, LAMBDA a : a.family = f))
    IN  (IF num(AF_INET) > 0 THEN 1 + num(AF_INET) ELSE 0)
        + (IF num(AF_INET6) > 0 THEN 1 + 4 * num(AF_INET6) ELSE 0)

dps_calc_tunnel_tlv_len(tunnels) ==
    FoldLeft(LAMBDA n, t : n + IF t.family = AF_INET THEN DPS_IP4_TUNNEL_INFO_LEN
                                                     ELSE DPS_IP6_TUNNEL_INFO_LEN,
             IF tunnels = <<>> THEN 0 ELSE 1, tunnels)

DPS_GET_IP_ADDR_TLV_LEN(family) == IF family = AF_INET6 THEN DPS_IP6_TLV_LEN ELSE DPS_IP4_TLV_LEN

dps_calc_endpoint_loc_reply_tlv_len(d) ==
    1 + DPS_EUID_TLV_LEN + 1 + DPS_GET_IP_ADDR_TLV_LEN(d.vm_ip_addr.family)
    + dps_calc_tunnel_tlv_len(d.tunnels)

dps_calc_endpoint_info_tlv_len(e) == 1 + 1 + 2 + DPS_GET_IP_ADDR_TLV_LEN(e.vm_ip_addr.family)

SvcLocLen(a) == CASE a.family = AF_INET  -> DPS_SVCLOC4_TLV_LEN
                  [] a.family = AF_INET6 -> DPS_SVCLOC6_TLV_LEN
                  [] OTHER               -> 0

EndpointLocReqLen(d) ==
    DPS_EUID_TLV_LEN + SvcLocLen(d.dps_client_addr)
    + (IF d.vm_ip_addr.family = 0 THEN 0 ELSE DPS_GET_IP_ADDR_TLV_LEN(d.vm_ip_addr.family))

PolicyReqLen(d) ==
    dps_calc_endpoint_info_tlv_len(d.endpoints[1]) + dps_calc_endpoint_info_tlv_len(d.endpoints[2])
    + SvcLocLen(d.dps_client_addr)

PolicyReplyLen(d, resp_status) ==
    dps_calc_endpoint_loc_reply_tlv_len(d.loc)
    + (IF resp_status # "NO_ERR" THEN 0
       ELSE 1 + DPS_POLICY_ID_TLV_LEN + 1 + 1 + 2 * (d.plcy.np + d.plcy.nd)
            + (IF d.plcy.np > 0 THEN 1 ELSE 0) + (IF d.plcy.nd > 0 THEN 1 ELSE 0))

EndpointUpdateLen(d) ==
    1 + DPS_EUID_TLV_LEN + 1 + DPS_GET_IP_ADDR_TLV_LEN(d.vm_ip_addr.family)
    + dps_calc_tunnel_tlv_len(d.tunnels) + SvcLocLen(d.dps_client_addr)

EndpointUpdateReplyLen(d) ==
    1 + DPS_EUID_TLV_LEN + 1 + dps_calc_vip_tlv_len(d.vips) + dps_calc_tunnel_tlv_len(d.tunnels)

PackedLen(d) == (IF d.n4 > 0 THEN 1 + d.n4 ELSE 0) + (IF d.n6 > 0 THEN 1 + 4 * d.n6 ELSE 0)

BulkPolicyLen(d) == 1 + 2 * (d.np + d.nd)

VmMigrationLen(d) ==
    dps_calc_endpoint_loc_reply_tlv_len(d.loc) + dps_calc_endpoint_info_tlv_len(d.info)

McastAddrLen(a) ==
    1 + DPS_VMAC_TLV_LEN
    + (IF a.mcast_addr_type = "MCAST_ADDR_V6" THEN DPS_IP6_TLV_LEN ELSE DPS_IP4_TLV_LEN)

McastSenderLen(d) ==
    DPS_GET_IP_ADDR_TLV_LEN(d.tunnel_endpoint.family) + dps_calc_endpoint_info_tlv_len(d.src_vm)
    + McastAddrLen(d.mcast_addr) + SvcLocLen(d.dps_client_addr)

McastReceiverLen(d) ==
    DPS_GET_IP_ADDR_TLV_LEN(d.tunnel_endpoint.family) + 1 + McastAddrLen(d.grp.mcast_addr)
    + (IF d.grp.num_of_srcs = 0 THEN 0
       ELSE 1 + d.grp.num_of_srcs * (IF d.grp.family = AF_INET THEN 1 ELSE 4))
    + SvcLocLen(d.dps_client_addr)

\* room for the largest addresses: the length sent is the one written
TunnelRoom(tunnels) == IF tunnels = <<>> THEN 0 ELSE 1 + 7 * Len(tunnels)

calc_pkt_len(m) ==
    DPS_PKT_HDR_LEN +
    CASE m.type \in {"ENDPOINT_LOC_REQ", "ADDR_RESOLVE"} -> EndpointLocReqLen(m.body)
      [] m.type \in EndpointLocReplies    -> dps_calc_endpoint_loc_reply_tlv_len(m.body)
      [] m.type = "POLICY_REQ"            -> PolicyReqLen(m.body)
      [] m.type = "POLICY_REPLY"          -> PolicyReplyLen(m.body, m.resp_status)
      [] m.type = "ENDPOINT_UPDATE"       -> EndpointUpdateLen(m.body)
      [] m.type = "ENDPOINT_UPDATE_REPLY" -> EndpointUpdateReplyLen(m.body)
      [] m.type \in PackedReplies         -> PackedLen(m.body)
      [] m.type \in GenMsgReqs            -> SvcLocLen(m.body.dps_client_addr)
      [] m.type \in BulkPolicies          -> BulkPolicyLen(m.body)
      [] m.type = "VM_MIGRATION_EVENT"    -> VmMigrationLen(m.body)
      [] m.type \in McastSenders          -> McastSenderLen(m.body)
      [] m.type \in McastReceivers        -> McastReceiverLen(m.body)
      [] m.type \in GwLists               -> TunnelRoom(m.body.tunnels)
      [] m.type \in TunnelRegs            -> TunnelRoom(m.body.tunnels) + DPS_SVCLOC6_TLV_LEN
      [] OTHER                            -> 0

(***************************************************************************)
(* Sending.  A packet is its header, whose len counts all words but the    *)
(* header's own TLV word, and the words after it.  A client that has not   *)
(* set a query id gets one generated.                                      *)
(***************************************************************************)
FromClient(type) == type \in ClientRequests \cup {"GENERAL_ACK"}

dps_set_pkt_hdr(m, len, words) ==
    [type |-> m.type, len |-> len - DPS_PKT_HDR_TLV_LEN, vnid |-> m.vnid,
     query_id |-> IF m.query_id = 0 /\ FromClient(m.type) THEN Qid ELSE m.query_id,
     sub_type |-> m.sub_type, resp_status |-> m.resp_status, words |-> words]

\* the header is written first, with the length computed
Computed(m, words) == dps_set_pkt_hdr(m, calc_pkt_len(m), words)
\* the header is written last, with the length written
Written(m, words) == dps_set_pkt_hdr(m, DPS_PKT_HDR_LEN + Len(words), words)
\* an answer that reports an error is a header only
HeaderOnly(m) == dps_set_pkt_hdr(m, DPS_PKT_HDR_LEN, <<>>)
Failed(m) == m.resp_status # "NO_ERR"

SvcLoc(a) == IF a.family = 0 THEN <<>> ELSE dps_set_svcloc_tlv(a)

dps_send_endpoint_loc_req(m) ==
    Computed(m, dps_set_euid_tlv(m.body.euid)
                \o (IF m.body.vm_ip_addr.family = 0 THEN <<>> ELSE dps_set_ip_tlv(m.body.vm_ip_addr))
                \o SvcLoc(m.body.dps_client_addr))

dps_send_addr_resolve(m) ==
    Computed(m, dps_set_euid_tlv(m.body.euid)
                \o (IF m.body.vm_ip_addr.family = 0 THEN <<>> ELSE dps_set_ip_tlv(m.body.vm_ip_addr))
                \o SvcLoc(m.body.dps_client_addr))

dps_send_endpoint_loc_reply(m) ==
    IF Failed(m) THEN HeaderOnly(m) ELSE Computed(m, dps_set_endpoint_loc_reply_tlv(m.body))

dps_send_endpoint_update(m) ==
    Written(m, dps_set_endpoint_update_tlv(m.body) \o SvcLoc(m.body.dps_client_addr))

dps_send_endpoint_update_reply(m) == Computed(m, dps_set_endpoint_update_reply_tlv(m.body))

dps_send_policy_req(m) ==
    Computed(m, dps_set_endpoint_info_tlv(m.body.endpoints[1])
                \o dps_set_endpoint_info_tlv(m.body.endpoints[2]) \o SvcLoc(m.body.dps_client_addr))

dps_send_policy_reply(m) == Computed(m, dps_set_policy_reply_tlv(m.body, m.resp_status))

dps_send_internal_gw_reply(m) ==
    IF Failed(m) THEN HeaderOnly(m) ELSE Computed(m, PackedLists(m.body))

dps_send_bcast_list_reply(m) ==
    IF Failed(m) THEN HeaderOnly(m) ELSE Computed(m, PackedLists(m.body))

dps_send_gen_msg_req(m) == Computed(m, SvcLoc(m.body.dps_client_addr))

dps_send_bulk_policy_xfer(m) == Computed(m, dps_set_bulk_policy_xfer(m.body))

dps_send_gw_list(m) ==
    IF Failed(m) THEN HeaderOnly(m) ELSE Written(m, dps_set_tunnel_list_tlv(m.body.tunnels))

dps_send_tunnel_reg_dereg(m) ==
    IF Failed(m) THEN HeaderOnly(m)
    ELSE Written(m, dps_set_tunnel_list_tlv(m.body.tunnels) \o SvcLoc(m.body.dps_client_addr))

dps_send_vm_migration_event(m) ==
    Computed(m, dps_set_endpoint_info_tlv(m.body.info) \o dps_set_endpoint_loc_reply_tlv(m.body.loc))

\* the body is written again and again until the computed length is reached
UntilFull(m, words) ==
    LET room == calc_pkt_len(m) - DPS_PKT_HDR_LEN
    IN  FlattenSeq([k \in 1..((room + Len(words) - 1) \div Len(words)) |-> words])

dps_send_mcast_sender_reg_dereg(m) ==
    Computed(m, UntilFull(m, dps_set_ip_tlv(m.body.tunnel_endpoint)
                             \o dps_set_endpoint_info_tlv(m.body.src_vm)
                             \o dps_set_mcast_addr_tlv(m.body.mcast_addr)
                             \o SvcLoc(m.body.dps_client_addr)))

dps_send_mcast_receiver_join_leave(m) ==
    Computed(m, UntilFull(m, dps_set_ip_tlv(m.body.tunnel_endpoint)
                             \o dps_set_mcast_grp_rec_tlv(m.body.grp)
                             \o SvcLoc(m.body.dps_client_addr)))

dps_send_mcast_receiver_ds_list(m) ==
    Written(m, dps_set_mcast_addr_tlv(m.body.mcast_addr)
               \o FlattenSeq([k \in DOMAIN m.body.recs |->
                                dps_set_vnid_tunnel_list_tlv(m.body.recs[k])]))

dps_send_general_ack(m) == HeaderOnly(m)

dps_send_vm_loc_info(m) == Written(m, dps_set_epri_tlv(m.body))

\* dps_send_func_tbl
dps_protocol_client_send(m) ==
    CASE m.type = "ENDPOINT_LOC_REQ"      -> dps_send_endpoint_loc_req(m)
      [] m.type \in EndpointLocReplies    -> dps_send_endpoint_loc_reply(m)
      [] m.type = "POLICY_REQ"            -> dps_send_policy_req(m)
      [] m.type = "POLICY_REPLY"          -> dps_send_policy_reply(m)
      [] m.type = "ENDPOINT_UPDATE"       -> dps_send_endpoint_update(m)
      [] m.type = "ENDPOINT_UPDATE_REPLY" -> dps_send_endpoint_update_reply(m)
      [] m.type = "ADDR_RESOLVE"          -> dps_send_addr_resolve(m)
      [] m.type \in GenMsgReqs            -> dps_send_gen_msg_req(m)
      [] m.type \in {"INTERNAL_GW_REPLY", "UNSOLICITED_INTERNAL_GW_REPLY"} ->
           dps_send_internal_gw_reply(m)
      [] m.type \in {"BCAST_LIST_REPLY", "UNSOLICITED_BCAST_LIST_REPLY"} ->
           dps_send_bcast_list_reply(m)
      [] m.type \in BulkPolicies          -> dps_send_bulk_policy_xfer(m)
      [] m.type = "VM_MIGRATION_EVENT"    -> dps_send_vm_migration_event(m)
      [] m.type \in McastSenders          -> dps_send_mcast_sender_reg_dereg(m)
      [] m.type \in McastReceivers        -> dps_send_mcast_receiver_join_leave(m)
      [] m.type = "MCAST_RECEIVER_DS_LIST" -> dps_send_mcast_receiver_ds_list(m)
      [] m.type \in GwLists               -> dps_send_gw_list(m)
      [] m.type \in TunnelRegs            -> dps_send_tunnel_reg_dereg(m)
      [] m.type \in Acks                  -> dps_send_general_ack(m)
      [] m.type = "UNSOLICITED_INVALIDATE_VM" -> dps_send_vm_loc_info(m)

-----------------------------------------------------------------------------
(***************************************************************************)
(* Receiving.  Every dps_process function starts from zeroed memory,       *)
(* parses as far as the length in the header says and hands the message    *)
(* to the protocol client unless a TLV was unknown.  What it did: msg, the *)
(* message put together; handed, whether it was handed over; stop, whether *)
(* the retransmission of its query id was stopped; acks, whether msg was   *)
(* acknowledged.                                                           *)
(***************************************************************************)
NoEuid == [vnid |-> Zero, mac |-> <<Zero, Zero>>]
NoLoc == [euid |-> NoEuid, version |-> Zero, vm_ip_addr |-> NoIp, tunnels |-> <<>>]
NoInfo == [euid |-> NoEuid, vm_ip_addr |-> NoIp]
NoMcastAddr == [mcast_addr_type |-> "MCAST_ADDR_MAC", mac |-> <<Zero, Zero>>, ip |-> Zero]
NoPacked == [vnid |-> Zero, n4 |-> 0, n6 |-> 0, list |-> <<>>]
NoPolicy == [policy_id |-> Zero, version |-> Zero, ttl |-> Zero, pver |-> 0,
             np |-> 0, nd |-> 0, rules |-> <<>>]

\* the number of words after the header, by the header
dps_get_pkt_hdr(p) == p.len - DPS_PKT_HDR_LEN + DPS_PKT_HDR_TLV_LEN

ParsePkt(Sub(_, _, _), p, data) == Parse(Sub, p.words, 1, 1 + dps_get_pkt_hdr(p), data)

HandedAs(type, p, data, reply_addr) ==
    [type |-> type, vnid |-> p.vnid, query_id |-> p.query_id, sub_type |-> p.sub_type,
     resp_status |-> p.resp_status, reply_addr |-> reply_addr, body |-> data]

Heard(p, s, stop, acks) ==
    [msg |-> HandedAs(p.type, p, s.data, Sender), handed |-> s.ok, stop |-> stop,
     acks |-> s.ok /\ acks]

ServiceLoc(b, i, d) == Took(dps_get_svcloc_tlv(b, i), d, "dps_client_addr")

EndpointReqSub(b, i, d) ==
    CASE b[i].type = "VMAC" ->
           LET r == dps_get_vmac_tlv(b, i)
           IN  [n |-> r.n, data |-> [d EXCEPT !.euid.mac = r.v], ok |-> TRUE]
      [] b[i].type = "IP_ADDR"     -> Took(dps_get_ip_tlv(b, i), d, "vm_ip_addr")
      [] b[i].type = "EUID"        -> Took(dps_get_euid_tlv(b, i), d, "euid")
      [] b[i].type = "SERVICE_LOC" -> ServiceLoc(b, i, d)
      [] OTHER                     -> InvalidTlv(d)

NoReq == [euid |-> NoEuid, vm_ip_addr |-> NoIp, dps_client_addr |-> Sender]

dps_process_endpoint_loc_req(p) == Heard(p, ParsePkt(EndpointReqSub, p, NoReq), FALSE, FALSE)
dps_process_addr_resolve(p) == Heard(p, ParsePkt(EndpointReqSub, p, NoReq), FALSE, TRUE)

\* no look at the type of the TLV; an unsolicited reply is handed over, and
\* acknowledged, as a reply
dps_process_endpoint_loc_reply(p) ==
    LET Sub(b, i, d) == LET r == dps_get_endpoint_loc_reply_tlv(b, i, d)
                        IN  [n |-> r.n, data |-> r.v, ok |-> TRUE]
        s == ParsePkt(Sub, p, NoLoc)
    IN  [msg |-> HandedAs("ENDPOINT_LOC_REPLY", p, s.data, Sender), handed |-> TRUE,
         stop |-> p.type = "ENDPOINT_LOC_REPLY",
         acks |-> p.type = "UNSOLICITED_ENDPOINT_LOC_REPLY"]

dps_process_endpoint_update(p) ==
    LET Sub(b, i, d) ==
          CASE b[i].type = "ENDPOINT_LOC" ->
                 LET r == dps_get_endpoint_update_tlv(b, i, d)
                 IN  [n |-> r.n, data |-> r.v, ok |-> TRUE]
            [] b[i].type = "SERVICE_LOC" -> ServiceLoc(b, i, d)
            [] OTHER -> InvalidTlv(d)
    IN  Heard(p, ParsePkt(Sub, p, [euid |-> NoEuid, version |-> Zero, vm_ip_addr |-> NoIp,
                                   dps_client_addr |-> Sender, tunnels |-> <<>>]), FALSE, FALSE)

dps_process_endpoint_update_reply(p) ==
    LET Sub(b, i, d) ==
          IF b[i].type = "ENDPOINT_UPDATE_REPLY"
            THEN LET r == dps_get_endpoint_update_reply_tlv(b, i, d)
                 IN  [n |-> r.n, data |-> r.v, ok |-> TRUE]
            ELSE InvalidTlv(d)
    IN  Heard(p, ParsePkt(Sub, p, [euid |-> NoEuid, version |-> Zero, vips |-> <<>>,
                                   tunnels |-> <<>>]), TRUE, FALSE)

\* the first endpoint is the destination, the second the source; another TLV
\* is neither refused nor stepped over
dps_process_policy_req(p) ==
    LET Sub(b, i, d) ==
          CASE b[i].type = "ENDPOINT_INFO" ->
                 LET r == dps_get_endpoint_info_tlv(b, i)
                 IN  [n |-> r.n, ok |-> TRUE,
                      data |-> [d EXCEPT !.endpoints[d.next] = r.v, !.next = @ + 1]]
            [] b[i].type = "SERVICE_LOC" -> ServiceLoc(b, i, d)
        s == ParsePkt(Sub, p, [endpoints |-> <<NoInfo, NoInfo>>, dps_client_addr |-> Sender,
                               next |-> 1])
    IN  Heard(p, [s EXCEPT !.data = [endpoints |-> s.data.endpoints,
                                     dps_client_addr |-> s.data.dps_client_addr]], FALSE, FALSE)

dps_process_policy_reply(p) ==
    LET Sub(b, i, d) ==
          CASE b[i].type = "ENDPOINT_LOC" ->
                 Took(dps_get_endpoint_loc_reply_tlv(b, i, d.loc), d, "loc")
            [] b[i].type = "POLICY" -> Took(dps_get_policy_tlv(b, i, d.plcy), d, "plcy")
            [] OTHER -> InvalidTlv(d)
    IN  Heard(p, ParsePkt(Sub, p, [loc |-> NoLoc, plcy |-> NoPolicy]), TRUE, FALSE)

\* the IPv6 addresses are stored behind the IPv4 ones
AddrListSub(b, i, d) ==
    CASE b[i].type = "IPV4_ADDR_LIST" ->
           LET r == dps_get_ipv4_list_tlv(b, i)
           IN  [n |-> r.n, data |-> [d EXCEPT !.list = @ \o r.v, !.n4 = b[i].len], ok |-> TRUE]
      [] b[i].type = "IPV6_ADDR_LIST" ->
           LET r == dps_get_ipv6_list_tlv(b, i)
           IN  [n |-> r.n, data |-> [d EXCEPT !.list = @ \o r.v, !.n6 = b[i].len \div 4],
                ok |-> TRUE]
      [] OTHER -> InvalidTlv(d)

\* Mutant of dps_process_internal_gw_reply: stops the timer for both types
InternalGwAlwaysStops(p) ==
    Heard(p, ParsePkt(AddrListSub, p, NoPacked), TRUE, p.type = "UNSOLICITED_INTERNAL_GW_REPLY")

dps_process_internal_gw_reply(p) ==
    Heard(p, ParsePkt(AddrListSub, p, NoPacked),
          p.type = "INTERNAL_GW_REPLY", p.type = "UNSOLICITED_INTERNAL_GW_REPLY")
dps_process_bcast_list_reply(p) ==
    Heard(p, ParsePkt(AddrListSub, p, NoPacked),
          p.type = "BCAST_LIST_REPLY", p.type = "UNSOLICITED_BCAST_LIST_REPLY")

\* a heartbeat is acknowledged and goes no further
dps_process_gen_msg_req(p) ==
    LET Sub(b, i, d) == IF b[i].type = "SERVICE_LOC" THEN ServiceLoc(b, i, d) ELSE InvalidTlv(d)
        beat == p.type = "CTRL_PLANE_HB"
    IN  [Heard(p, ParsePkt(Sub, p, [dps_client_addr |-> Sender]), FALSE, beat)
           EXCEPT !.handed = @ /\ ~beat]

dps_process_bulk_policy_xfer(p) ==
    Heard(p, [ok |-> TRUE, data |-> dps_get_bulk_policy_xfer(p.words, 1)],
          p.type = "VNID_POLICY_LIST_REPLY", p.type = "UNSOLICITED_VNID_POLICY_LIST")

TunnelListSub(b, i, d) ==
    IF b[i].type = "TUNNEL_LIST" THEN Took(dps_get_tunnel_list_tlv(b, i), d, "tunnels")
                                 ELSE InvalidTlv(d)

dps_process_gw_list(p) ==
    Heard(p, ParsePkt(TunnelListSub, p, [tunnels |-> <<>>]),
          p.type \in {"EXTERNAL_GW_LIST_REPLY", "VLAN_GW_LIST_REPLY", "MCAST_CTRL_GW_REPLY"},
          p.type \in {"UNSOLICITED_EXTERNAL_GW_LIST", "UNSOLICITED_VLAN_GW_LIST"})

dps_process_tunnel_reg_dereg(p) ==
    LET Sub(b, i, d) == IF b[i].type = "SERVICE_LOC" THEN ServiceLoc(b, i, d)
                                                     ELSE TunnelListSub(b, i, d)
    IN  Heard(p, ParsePkt(Sub, p, [tunnels |-> <<>>, dps_client_addr |-> Sender]), FALSE, FALSE)

dps_process_vm_migration_event(p) ==
    LET Sub(b, i, d) ==
          CASE b[i].type = "ENDPOINT_LOC" ->
                 Took(dps_get_endpoint_loc_reply_tlv(b, i, d.loc), d, "loc")
            [] b[i].type = "ENDPOINT_INFO" -> Took(dps_get_endpoint_info_tlv(b, i), d, "info")
            [] OTHER -> InvalidTlv(d)
    IN  Heard(p, ParsePkt(Sub, p, [info |-> NoInfo, loc |-> NoLoc]), FALSE, FALSE)

KnownMcastAddr == {"MCAST_ADDR_MAC", "MCAST_ADDR_V4", "MCAST_ADDR_V6"}

dps_process_mcast_sender_reg_dereg(p) ==
    LET Sub(b, i, d) ==
          CASE b[i].type = "IP_ADDR"       -> Took(dps_get_ip_tlv(b, i), d, "tunnel_endpoint")
            [] b[i].type = "ENDPOINT_INFO" -> Took(dps_get_endpoint_info_tlv(b, i), d, "src_vm")
            [] b[i].type \in KnownMcastAddr ->
                 Took(dps_get_mcast_addr_tlv(b, i), d, "mcast_addr")
            [] b[i].type = "SERVICE_LOC"   -> ServiceLoc(b, i, d)
            [] OTHER                       -> InvalidTlv(d)
    IN  Heard(p, ParsePkt(Sub, p, [tunnel_endpoint |-> NoIp, src_vm |-> NoInfo,
                                   mcast_addr |-> NoMcastAddr, dps_client_addr |-> Sender]),
              FALSE, FALSE)

dps_process_mcast_receiver_join_leave(p) ==
    LET Sub(b, i, d) ==
          CASE b[i].type = "IP_ADDR"       -> Took(dps_get_ip_tlv(b, i), d, "tunnel_endpoint")
            [] b[i].type = "MCAST_GRP_REC" -> Took(dps_get_mcast_grp_rec_tlv(b, i, d.grp), d, "grp")
            [] b[i].type = "SERVICE_LOC"   -> ServiceLoc(b, i, d)
            [] OTHER                       -> InvalidTlv(d)
        NoGrp == [mcast_addr |-> NoMcastAddr, num_of_srcs |-> 0, family |-> 0, src_addr |-> <<>>]
    IN  Heard(p, ParsePkt(Sub, p, [tunnel_endpoint |-> NoIp, grp |-> NoGrp,
                                   dps_client_addr |-> Sender]), FALSE, FALSE)

\* stack: the address the header on the stack happens to hold, which replaces
\* the sender's just stored
dps_process_mcast_receiver_ds_list(p, stack) ==
    LET Sub(b, i, d) ==
          CASE b[i].type \in KnownMcastAddr -> Took(dps_get_mcast_addr_tlv(b, i), d, "mcast_addr")
            [] b[i].type = "VNID_TUNNEL_LIST" ->
                 LET r == dps_get_vnid_tunnel_list_tlv(b, i)
                 IN  [n |-> r.n, data |-> [d EXCEPT !.recs = Append(@, r.v)], ok |-> TRUE]
            [] OTHER -> InvalidTlv(d)
    IN  [Heard(p, ParsePkt(Sub, p, [mcast_addr |-> NoMcastAddr, recs |-> <<>>]), FALSE, TRUE)
           EXCEPT !.msg.reply_addr = stack]

dps_process_general_ack(p) == Heard(p, [ok |-> TRUE, data |-> <<>>], TRUE, FALSE)

dps_process_vm_loc_info(p) ==
    LET Sub(b, i, d) ==
          IF b[i].type = "EPRI" THEN LET r == dps_get_epri_tlv(b, i, d)
                                     IN  [n |-> r.n, data |-> r.v, ok |-> TRUE]
                                ELSE [n |-> 1 + b[i].len, data |-> d, ok |-> TRUE]
    IN  Heard(p, ParsePkt(Sub, p, [euid |-> NoEuid, ip4s |-> <<>>, ip6s |-> <<>>,
                                   tunnels |-> <<>>]), FALSE, TRUE)

\* dps_process_func_tbl
dps_process_rcvd_pkt(p, stack) ==
    CASE p.type = "ENDPOINT_LOC_REQ"      -> dps_process_endpoint_loc_req(p)
      [] p.type \in EndpointLocReplies    -> dps_process_endpoint_loc_reply(p)
      [] p.type = "POLICY_REQ"            -> dps_process_policy_req(p)
      [] p.type = "POLICY_REPLY"          -> dps_process_policy_reply(p)
      [] p.type = "ENDPOINT_UPDATE"       -> dps_process_endpoint_update(p)
      [] p.type = "ENDPOINT_UPDATE_REPLY" -> dps_process_endpoint_update_reply(p)
      [] p.type = "ADDR_RESOLVE"          -> dps_process_addr_resolve(p)
      [] p.type \in GenMsgReqs            -> dps_process_gen_msg_req(p)
      [] p.type \in {"INTERNAL_GW_REPLY", "UNSOLICITED_INTERNAL_GW_REPLY"} ->
           dps_process_internal_gw_reply(p)
      [] p.type \in {"BCAST_LIST_REPLY", "UNSOLICITED_BCAST_LIST_REPLY"} ->
           dps_process_bcast_list_reply(p)
      [] p.type \in BulkPolicies          -> dps_process_bulk_policy_xfer(p)
      [] p.type = "VM_MIGRATION_EVENT"    -> dps_process_vm_migration_event(p)
      [] p.type \in McastSenders          -> dps_process_mcast_sender_reg_dereg(p)
      [] p.type \in McastReceivers        -> dps_process_mcast_receiver_join_leave(p)
      [] p.type = "MCAST_RECEIVER_DS_LIST" -> dps_process_mcast_receiver_ds_list(p, stack)
      [] p.type \in GwLists               -> dps_process_gw_list(p)
      [] p.type \in TunnelRegs            -> dps_process_tunnel_reg_dereg(p)
      [] p.type \in Acks                  -> dps_process_general_ack(p)
      [] p.type = "UNSOLICITED_INVALIDATE_VM" -> dps_process_vm_loc_info(p)

\* the acknowledgement, and the address it goes to; a message without a query
\* id gets none
dps_client_create_general_ack(m) ==
    IF m.query_id = 0 THEN None
    ELSE [to |-> m.reply_addr] @@
         dps_send_general_ack(
           [type |-> IF m.type \in TunnelRegs \cup McastSenders \cup McastReceivers
                       THEN "REG_DEREGISTER_ACK" ELSE "GENERAL_ACK",
            vnid |-> m.vnid, query_id |-> m.query_id, sub_type |-> m.type,
            resp_status |-> "NO_ERR", body |-> <<>>])

dps_stop_retransmit_timer(p) == p.query_id

-----------------------------------------------------------------------------
(***************************************************************************)
(* Giving up.  When the last retransmission of a packet has gone           *)
(* unanswered the protocol client is handed a reply made up from the       *)
(* packet's header alone, with status NO_RESPONSE and the type of the      *)
(* packet as sub_type.                                                     *)
(***************************************************************************)
MadeUp(type, body) == [type |-> type, body |-> body]

dps_construct_reply_endpoint_loc_req(p) == MadeUp("ENDPOINT_LOC_REPLY", NoLoc)
dps_construct_reply_policy_req(p) ==
    MadeUp("POLICY_REPLY", [loc |-> [NoLoc EXCEPT !.euid.vnid = p.vnid], plcy |-> NoPolicy])
dps_construct_reply_endpoint_update(p) == MadeUp("ENDPOINT_UPDATE_REPLY", <<>>)
dps_construct_reply_internal_gw_req(p) == MadeUp("INTERNAL_GW_REPLY", NoPacked)
dps_construct_reply_bcast_list_req(p) == MadeUp("BCAST_LIST_REPLY", <<>>)
dps_construct_reply_external_gw_req(p) == MadeUp("EXTERNAL_GW_LIST_REPLY", [tunnels |-> <<>>])
\* Mutant of dps_construct_reply_vlan_gw_req: the reply of the function above it
VlanAsExternal(p) == MadeUp("EXTERNAL_GW_LIST_REPLY", [tunnels |-> <<>>])
dps_construct_reply_vlan_gw_req(p) == MadeUp("VLAN_GW_LIST_REPLY", [tunnels |-> <<>>])
dps_construct_reply_policy_list_req(p) == MadeUp("VNID_POLICY_LIST_REPLY", <<>>)
dps_construct_reply_mcast_ctrl_gw_req(p) == MadeUp("MCAST_CTRL_GW_REPLY", [tunnels |-> <<>>])
dps_construct_reply_generic_ack(p) ==
    MadeUp(IF p.type \in TunnelRegs \cup McastSenders \cup McastReceivers
             THEN "REG_DEREGISTER_ACK" ELSE "GENERAL_ACK", <<>>)

\* the table has no entry for the migration event: its own type is reported
dps_construct_msg_reply(p) ==
    CASE p.type = "ENDPOINT_LOC_REQ"     -> dps_construct_reply_endpoint_loc_req(p)
      [] p.type = "POLICY_REQ"           -> dps_construct_reply_policy_req(p)
      [] p.type = "ENDPOINT_UPDATE"      -> dps_construct_reply_endpoint_update(p)
      [] p.type = "INTERNAL_GW_REQ"      -> dps_construct_reply_internal_gw_req(p)
      [] p.type = "BCAST_LIST_REQ"       -> dps_construct_reply_bcast_list_req(p)
      [] p.type = "EXTERNAL_GW_LIST_REQ" -> dps_construct_reply_external_gw_req(p)
      [] p.type = "VLAN_GW_LIST_REQ"     -> dps_construct_reply_vlan_gw_req(p)
      [] p.type = "VNID_POLICY_LIST_REQ" -> dps_construct_reply_policy_list_req(p)
      [] p.type = "MCAST_CTRL_GW_REQ"    -> dps_construct_reply_mcast_ctrl_gw_req(p)
      [] p.type = "VM_MIGRATION_EVENT"   -> MadeUp(p.type, <<>>)
      [] OTHER                           -> dps_construct_reply_generic_ack(p)

dps_retransmit_callback(p) ==
    [vnid |-> p.vnid, query_id |-> p.query_id, sub_type |-> p.type,
     resp_status |-> "NO_RESPONSE", reply_addr |-> NoIp] @@ dps_construct_msg_reply(p)

-----------------------------------------------------------------------------
Messages(type) ==
    [type : {type}, vnid : Vnid, query_id : IF IsReply(type) THEN {Qid} ELSE {0, Qid},
     sub_type : {"NONE"}, resp_status : IF IsReply(type) THEN {"NO_ERR", "ERR"} ELSE {"NO_ERR"},
     body : Bodies(type)]

Init == sent = None /\ pkt = None /\ got = None /\ ack = None /\ stopped = 0

Send(m) ==
    /\ sent = None
    /\ sent' = m
    /\ pkt' = dps_protocol_client_send(m)
    /\ UNCHANGED <<got, ack, stopped>>

Receive(stack) ==
    /\ pkt # None
    /\ LET h == dps_process_rcvd_pkt(pkt, stack)
       IN  /\ got' = IF h.handed THEN h.msg ELSE None
           /\ ack' = IF h.acks THEN dps_client_create_general_ack(h.msg) ELSE None
           /\ stopped' = IF h.stop THEN dps_stop_retransmit_timer(pkt) ELSE 0
    /\ pkt' = None
    /\ UNCHANGED sent

GiveUp ==
    /\ pkt # None
    /\ sent.type \in ClientRequests \cup Unsolicited
    /\ pkt.query_id # 0
    /\ got' = dps_retransmit_callback(pkt)
    /\ pkt' = None
    /\ UNCHANGED <<sent, ack, stopped>>

\* the two ends are ready for the next message
Again ==
    /\ sent # None /\ pkt = None
    /\ sent' = None /\ got' = None /\ ack' = None /\ stopped' = 0
    /\ UNCHANGED pkt

Next ==
    \/ \E t \in Types : \E m \in Messages(t) : Send(m)
    \/ \E stack \in {Sender, ClientLoc} : Receive(stack)
    \/ GiveUp
    \/ Again

Spec == Init /\ [][Next]_vars

-----------------------------------------------------------------------------
(***************************************************************************)
(* What the receiver should be handed, from the message alone: an address  *)
(* left unset travels as the IPv4 address 0, a client that names no        *)
(* location is the sender, and an answer that reports an error carries     *)
(* nothing (a policy reply: no policy).                                    *)
(***************************************************************************)
SetAddr(a) == IF a.family = 0 THEN [a EXCEPT !.family = AF_INET] ELSE a
Located(d) == [d EXCEPT !.vm_ip_addr = SetAddr(@)]
Client(d) == [d EXCEPT !.dps_client_addr = IF @.family = 0 THEN Sender ELSE @]
Family(list, f) == SelectSeq(list, LAMBDA a : a.family = f)

Meant(m) ==
    LET d == m.body
    IN  CASE m.type \in {"ENDPOINT_LOC_REQ", "ADDR_RESOLVE"} \cup GenMsgReqs \cup TunnelRegs ->
               Client(d)
          [] m.type \in EndpointLocReplies -> IF Failed(m) THEN NoLoc ELSE Located(d)
          [] m.type = "ENDPOINT_UPDATE"    -> Client(Located(d))
          [] m.type = "ENDPOINT_UPDATE_REPLY" ->
               [d EXCEPT !.vips = Family(d.vips, AF_INET) \o Family(d.vips, AF_INET6)]
          [] m.type = "POLICY_REQ" ->
               [Client(d) EXCEPT !.endpoints = [k \in 1..2 |-> Located(d.endpoints[k])]]
          [] m.type = "POLICY_REPLY" ->
               [loc |-> Located(d.loc), plcy |-> IF Failed(m) THEN NoPolicy ELSE d.plcy]
          [] m.type \in PackedReplies ->
               IF Failed(m) THEN NoPacked ELSE [d EXCEPT !.vnid = Zero]
          [] m.type \in GwLists ->
               IF Failed(m) THEN [tunnels |-> <<>>] ELSE d
          [] m.type = "VM_MIGRATION_EVENT" ->
               [info |-> Located(d.info), loc |-> Located(d.loc)]
          [] m.type \in McastSenders ->
               [Client(d) EXCEPT !.tunnel_endpoint = SetAddr(@), !.src_vm = Located(@)]
          [] m.type \in McastReceivers -> [Client(d) EXCEPT !.tunnel_endpoint = SetAddr(@)]
          [] OTHER -> d

\* the shapes the receiver's decoders do not take in as they were sent
Lossy(m) ==
    \/ m.type = "ENDPOINT_UPDATE_REPLY" /\ Family(m.body.vips, AF_INET6) # <<>>
    \/ m.type \in BulkPolicies /\ m.body.nd > 0
    \/ m.type \in McastSenders \cup {"MCAST_RECEIVER_DS_LIST"}
         /\ m.body.mcast_addr.mcast_addr_type = "MCAST_ADDR_V4_ICB_RANGE"
    \/ m.type = "MCAST_RECEIVER_DS_LIST"
         /\ \E k \in DOMAIN m.body.recs : m.body.recs[k].n4 > 0 /\ m.body.recs[k].n6 > 0

Received == sent # None /\ pkt = None /\ ~(got # None /\ got.resp_status = "NO_RESPONSE")

\* The length in the header of every packet is that of what was written after
\* it: calc_pkt_len foresees what the dps_set functions write.
HeaderLength == pkt # None => pkt.len = DPS_PKT_HDR_LEN - DPS_PKT_HDR_TLV_LEN + Len(pkt.words)

\* What dps_protocol_client_send is given is what the protocol client at the
\* other end is handed, for every kind of message and every combination of its
\* optional parts, but for the shapes Lossy names: each decoder is the inverse
\* of the encoder of the other copy of the file.
RoundTrip ==
    Received /\ ~Lossy(sent) /\ sent.type # "CTRL_PLANE_HB" =>
        /\ got # None
        /\ got.body = Meant(sent)
        /\ got.vnid = sent.vnid /\ got.resp_status = sent.resp_status
        /\ got.type = IF sent.type = "UNSOLICITED_ENDPOINT_LOC_REPLY"
                        THEN "ENDPOINT_LOC_REPLY" ELSE sent.type

\* The two copies of the codec agree: on the lengths they compute and write and
\* on what they write and read.
CodecsAgree == HeaderLength /\ RoundTrip

\* The library acknowledges what the server sends on its own, to the address
\* it came from and under its query id, whether or not the client wants to; it
\* acknowledges nothing else.  The deletion of a VNID is left to the client,
\* and where the acknowledgement of a receiver list goes is not determined.
UnsolicitedAcked ==
    Received /\ ~Lossy(sent) =>
        IF sent.type \in Unsolicited \ {"UNSOLICITED_VNID_DEL_REQ"} /\ sent.query_id # 0
          THEN /\ ack # None
               /\ ack.query_id = sent.query_id /\ ack.resp_status = "NO_ERR" /\ ack.vnid = sent.vnid
               /\ sent.type # "MCAST_RECEIVER_DS_LIST" => ack.to = Sender
          ELSE ack = None

\* An answer stops the retransmission of the request it answers, and nothing
\* else stops one: the query ids of what the server sends on its own are the
\* server's, and one of them may equal the id of a request that is waiting.
OnlyAnswersStop ==
    Received => stopped = IF IsReply(sent.type) THEN sent.query_id ELSE 0

\* What the library does by itself with a message, before or instead of handing
\* it over: it acknowledges what wants to be acknowledged and stops what was
\* answered (dps_process_rcvd_pkt and the functions of its table).
AckedAndStopped == UnsolicitedAcked /\ OnlyAnswersStop

\* the type the DCS answers a request with
AnswerTo(type) ==
    CASE type = "ENDPOINT_LOC_REQ"     -> "ENDPOINT_LOC_REPLY"
      [] type = "POLICY_REQ"           -> "POLICY_REPLY"
      [] type = "ENDPOINT_UPDATE"      -> "ENDPOINT_UPDATE_REPLY"
      [] type = "INTERNAL_GW_REQ"      -> "INTERNAL_GW_REPLY"
      [] type = "BCAST_LIST_REQ"       -> "BCAST_LIST_REPLY"
      [] type = "EXTERNAL_GW_LIST_REQ" -> "EXTERNAL_GW_LIST_REPLY"
      [] type = "VLAN_GW_LIST_REQ"     -> "VLAN_GW_LIST_REPLY"
      [] type = "VNID_POLICY_LIST_REQ" -> "VNID_POLICY_LIST_REPLY"
      [] type = "MCAST_CTRL_GW_REQ"    -> "MCAST_CTRL_GW_REPLY"
      [] OTHER                         -> "REG_DEREGISTER_ACK"

\* A request that is given up is reported to the client in the form of the
\* answer it was waiting for, under its own query id: a client that waits for
\* one type of message is released either way.  A migration event has no
\* answer.
GivenUpLikeAnswer ==
    got # None /\ got.resp_status = "NO_RESPONSE"
        /\ sent.type \in ClientRequests \ {"VM_MIGRATION_EVENT"} =>
        /\ got.type = AnswerTo(sent.type)
        /\ got.sub_type = sent.type
        /\ sent.query_id # 0 => got.query_id = sent.query_id

\* "Create an ack packet ... with the sub_type field set to the msg type that
\* needs to be acked" (dps_client_create_general_ack).
AckNamesMessage == ack # None => ack.sub_type = sent.type
=============================================================================
