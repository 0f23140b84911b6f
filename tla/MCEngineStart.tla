--------------------------- MODULE MCEngineStart ---------------------------
\* Configuration files for EngineStart.
EXTENDS EngineStart

S(name) == Line("section", name, "")
V(item, val) == Line("value", item, val)

Device(name, id, status) ==
  <<S(name), V("ip_addr", "ip"), V("dev_id", id), V("dev_type", "0"),
    V("dev_status", status), V("ns_name", "ns")>>

Three == Device("a", "0", "1") \o Device("b", "1", "1") \o Device("c", "2", "1")

\* Only the second device is active; a comment comes first.
OneActive == <<Line("comment", "", "")>> \o Device("a", "0", "0") \o Device("b", "1", "1")

\* The devices after the first are inactive.
OnlyFirst == Device("a", "0", "1") \o Device("b", "1", "0") \o Device("c", "2", "0")

\* A section that comes back and overrides an item, and an id out of bounds
Override == Device("b", "0", "0") \o Device("a", "9", "1")
            \o <<S("b"), V("dev_status", "1"), V("dev_id", "text")>>

\* The last device has no namespace; its bit of active_mask is set by then.
NoNamespace == Device("a", "0", "1") \o SubSeq(Device("b", "1", "1"), 1, 5)

BadItem(item, val) ==
  Device("a", "0", "1") \o <<S("b"), V("ip_addr", "ip"), V("dev_id", "1"), V("dev_type", "0"),
                             V("dev_status", "1"), V("ns_name", "ns"), V(item, val)>>

\* Each device's dev_id is the position of the other; the second is inactive.
Swapped == Device("a", "1", "1") \o Device("b", "0", "0")

MCFiles ==
  {Absent, <<>>, <<S("a"), S("b"), S("c"), S("d")>>, Three, OneActive, OnlyFirst, Override, NoNamespace,
   BadItem("ip_addr", "bad"), BadItem("dev_id", "-1"), BadItem("dev_type", "9"),
   BadItem("dev_status", "2"),
   Device("a", "0", "1") \o <<Line("error", "", "")>>,
   Device("a", "0", "1") \o <<Line("long", "", "")>>}

MCSwapped == {Swapped}
MCOneActive == {OneActive}
MCThree == {Three}
=============================================================================
