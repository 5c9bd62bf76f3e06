----------------------------- MODULE MCLifecycle -----------------------------
\* One W100 device, as main configures it; room for its three requests and for
\* one message.
EXTENDS Lifecycle

CONSTANT w100

MCDevices == <<w100>>
=============================================================================
