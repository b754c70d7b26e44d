\* A file system that gives the inode number of a removed socket again.
CHECK_DEADLOCK FALSE
CONSTANTS
    Binders = {b1, b2}
    Inodes = {1, 2}
    ReuseInodes = TRUE
SPECIFICATION Spec
INVARIANT
    EndpointStays
