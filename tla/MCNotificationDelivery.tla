----------------------- MODULE MCNotificationDelivery -----------------------
EXTENDS NotificationDelivery
=============================================================================
