SPECIFICATION CloudFairSpec
PROPERTIES Reconnects
\* The idle polling of the main loop is not a step of CloudLink.
CHECK_DEADLOCK FALSE
