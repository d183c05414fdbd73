--------------------------- MODULE MCLicenseServer -------------------------
EXTENDS LicenseServer
LOCAL INSTANCE TLC
\* Which request takes a delivery is of no account.
AnyWebhook == Permutations(Webhook)
=============================================================================
