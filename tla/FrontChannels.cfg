\* With and without a request and a command channel; the request buffer holds one
\* write and one read, the response buffer one page, the FTL one transaction.
SPECIFICATION FairSpec
CONSTANTS
    Addr = {a1, a2}
    COMMAND_LENGTH = 1
    PAGE_LENGTH = 2
    CHANNEL_WIDTH = 1
    REQUEST_CHANNEL_WIDTH = 1
    COMMAND_CHANNEL_WIDTH = 1
    REQUEST_BUFFER_SIZE = 4
    RESPONSE_BUFFER_SIZE = 2
    FTL_READ_QUEUE_LENGTH = 1
    RequestChannelModes = {TRUE, FALSE}
    CommandChannelModes = {TRUE, FALSE}
    CHANNEL_UPDATES = {1, 2}
    MaxOutstanding = 3
INVARIANTS SidesAgree SizesSound
PROPERTIES ImplementsHostChannel HostIsServed
