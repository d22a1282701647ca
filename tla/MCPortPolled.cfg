SPECIFICATION Spec
CONSTANTS
    eth1 = eth1
    eth2 = eth2
    gre1 = gre1
    Phys <- MCPhys
    Tunnels = {gre1}
    Bind <- MCBind
    Links = {"down", "up"}
    Down = "down"
    MaxNotify = 2
    MaxAdmin = 4
    Null = Null
PROPERTIES
    LinkPolled
